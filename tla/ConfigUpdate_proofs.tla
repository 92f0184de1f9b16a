------------------------ MODULE ConfigUpdate_proofs -------------------------
(***************************************************************************)
(* Proofs about ConfigUpdate, for every number of processes, displays and  *)
(* profiles, and all faults: types, that the configuration file is always  *)
(* whole, that an install or uninstall that met no other writer does what  *)
(* it promises whatever earlier operations left behind, and that the       *)
(* profile files match the configuration until something goes wrong.       *)
(*                                                                         *)
(* TInv is the invariant behind the first two: what each place of an       *)
(* operation says of its record, that no file of the configuration is      *)
(* partial, and that none has two records of one display.  SInv adds how   *)
(* far an undisturbed writer has come (Progress); a step of another        *)
(* process reaches nothing Progress speaks of (OthersHarmless).            *)
(* FInv adds how far the files match while one writer is at work, and that *)
(* a reader which met no writer has read the file that has the name.       *)
(***************************************************************************)
EXTENDS ConfigUpdate, SequenceTheorems, TLAPS

\* No display has two records
Unique(keys) == \A i, j \in DOMAIN keys : keys[i].disp = keys[j].disp => i = j

\* Where the record of a display is
LEMMA PlaceIs ==
    ASSUME NEW keys, NEW d, Has(keys, d)
    PROVE  Place(keys, d) \in DOMAIN keys /\ keys[Place(keys, d)].disp = d
BY DEF Has, Place

\* Setting the record of a display: it then has one, of the profile.
LEMMA SetKeysSound ==
    ASSUME NEW keys \in Seq(Records), Unique(keys), NEW d \in Displays, NEW q \in Profiles
    PROVE  /\ SetKeys(keys, d, q) \in Seq(Records) /\ Unique(SetKeys(keys, d, q))
           /\ Has(SetKeys(keys, d, q), d) /\ ProfileOf(SetKeys(keys, d, q), d) = q
           /\ q \in Named(SetKeys(keys, d, q))
<1> DEFINE r == [disp |-> d, prof |-> q]
           new == SetKeys(keys, d, q)
<1>1. r \in Records /\ r.disp = d /\ r.prof = q
  BY DEF Records
<1>2. CASE Has(keys, d)
  <2> DEFINE k == Place(keys, d)
  <2>1. k \in 1..Len(keys) /\ keys[k].disp = d
    BY <1>2, PlaceIs
  <2>2. new = [keys EXCEPT ![k] = r]
    BY <1>2 DEF SetKeys
  <2> HIDE DEF k, r, new
  <2>3. /\ new \in Seq(Records) /\ Len(new) = Len(keys)
        /\ \A i \in 1..Len(keys) : new[i] = IF i = k THEN r ELSE keys[i]
    BY <1>1, <2>1, <2>2
  <2>4. \A i \in 1..Len(keys) : new[i].disp = keys[i].disp
    BY <1>1, <2>1, <2>3
  <2>5. Unique(new) /\ Has(new, d)
    BY <1>2, <2>1, <2>3, <2>4 DEF Unique, Has
  <2>6. Place(new, d) = k
    BY <2>1, <2>3, <2>4, <2>5, PlaceIs DEF Unique
  <2>7. ProfileOf(new, d) = q /\ q \in Named(new)
    BY <1>1, <2>1, <2>3, <2>6 DEF ProfileOf, Named
  <2> QED
    BY <2>3, <2>5, <2>7 DEF new
<1>3. CASE ~Has(keys, d)
  <2> DEFINE k == Len(keys) + 1
  <2>1. new = Append(keys, r)
    BY <1>3 DEF SetKeys
  <2> HIDE DEF new, r
  <2>2. /\ new \in Seq(Records) /\ Len(new) = k /\ k \in 1..k
        /\ \A i \in 1..k : new[i] = IF i = k THEN r ELSE keys[i]
    BY <1>1, <2>1
  <2>3. \A i \in 1..k : (new[i].disp = d) <=> (i = k)
    BY <1>1, <1>3, <2>2 DEF Has
  <2>4. Unique(new)
    <3>1. SUFFICES ASSUME NEW i \in 1..k, NEW j \in 1..k, new[i].disp = new[j].disp
                   PROVE  i = j
      BY <2>2 DEF Unique
    <3> QED
      BY <2>2, <2>3, <3>1 DEF Unique
  <2>5. Has(new, d)
    BY <2>2, <2>3 DEF Has
  <2>6. Place(new, d) = k
    BY <2>2, <2>3, <2>5, PlaceIs
  <2>7. ProfileOf(new, d) = q /\ q \in Named(new)
    BY <1>1, <2>2, <2>6 DEF ProfileOf, Named
  <2> QED
    BY <2>2, <2>4, <2>5, <2>7 DEF new
<1> QED
  BY <1>2, <1>3

\* The keys behind the record that is deleted move down
LEMMA DeleteKeysAre ==
    ASSUME NEW keys \in Seq(Records), NEW d \in Displays, Has(keys, d)
    PROVE  /\ DeleteKeys(keys, d) \in Seq(Records)
           /\ Len(DeleteKeys(keys, d)) = Len(keys) - 1
           /\ \A i \in 1..Len(keys) - 1 :
                 DeleteKeys(keys, d)[i] = IF i < Place(keys, d) THEN keys[i] ELSE keys[i + 1]
<1> DEFINE n == Len(keys)
           k == Place(keys, d)
           new == DeleteKeys(keys, d)
           a == SubSeq(keys, 1, k - 1)
           b == SubSeq(keys, k + 1, n)
<1>1. n \in Nat /\ k \in 1..n /\ keys[k].disp = d
  BY PlaceIs
<1>2. new = a \o b
  BY DEF DeleteKeys, RemoveAt
<1> HIDE DEF k, new
<1>3. a \in Seq(Records) /\ Len(a) = k - 1 /\ (\A i \in 1..k - 1 : a[i] = keys[i])
  BY <1>1
<1>4. b \in Seq(Records) /\ Len(b) = n - k /\ (\A i \in 1..n - k : b[i] = keys[k + i])
  BY <1>1
<1> HIDE DEF a, b
<1>5. /\ new \in Seq(Records) /\ Len(new) = n - 1
      /\ \A i \in 1..n - 1 : new[i] = IF i < k THEN keys[i] ELSE keys[i + 1]
  <2>1. /\ new \in Seq(Records) /\ Len(new) = Len(a) + Len(b)
        /\ \A i \in 1..Len(a) + Len(b) :
              new[i] = IF i <= Len(a) THEN a[i] ELSE b[i - Len(a)]
    BY <1>2, <1>3, <1>4, ConcatProperties
  <2>2. Len(a) + Len(b) = n - 1
    BY <1>1, <1>3, <1>4
  <2>3. ASSUME NEW i \in 1..n - 1
        PROVE  new[i] = IF i < k THEN keys[i] ELSE keys[i + 1]
    <3>1. CASE i < k
      BY <1>1, <1>3, <2>1, <2>2, <3>1
    <3>2. CASE i >= k
      <4>1. i - (k - 1) \in 1..n - k /\ k + (i - (k - 1)) = i + 1 /\ ~(i <= k - 1)
        BY <1>1, <3>2
      <4>2. new[i] = b[i - (k - 1)]
        BY <1>1, <1>3, <2>1, <2>2, <4>1
      <4>3. b[i - (k - 1)] = keys[k + (i - (k - 1))]
        BY <1>4, <4>1
      <4> QED
        BY <1>1, <3>2, <4>1, <4>2, <4>3
    <3> QED
      BY <1>1, <3>1, <3>2
  <2> QED
    BY <2>1, <2>2, <2>3
<1> QED
  BY <1>5 DEF new, k

\* Deleting the record of a display: it has none left.
LEMMA DeleteKeysSound ==
    ASSUME NEW keys \in Seq(Records), Unique(keys), NEW d \in Displays, Has(keys, d)
    PROVE  /\ DeleteKeys(keys, d) \in Seq(Records) /\ Unique(DeleteKeys(keys, d))
           /\ ~Has(DeleteKeys(keys, d), d)
<1> DEFINE n == Len(keys)
           k == Place(keys, d)
           new == DeleteKeys(keys, d)
<1>1. n \in Nat /\ k \in 1..n /\ keys[k].disp = d
  BY PlaceIs
<1>5. /\ new \in Seq(Records) /\ Len(new) = n - 1
      /\ \A i \in 1..n - 1 : new[i] = IF i < k THEN keys[i] ELSE keys[i + 1]
  BY DeleteKeysAre
<1> HIDE DEF k, new
<1>6. ASSUME NEW i \in 1..n - 1, NEW j \in 1..n - 1, new[i].disp = new[j].disp
      PROVE  i = j
  <2> DEFINE old(x) == IF x < k THEN x ELSE x + 1
  <2>1. old(i) \in 1..n /\ old(j) \in 1..n
    BY <1>1
  <2>2. new[i] = keys[old(i)] /\ new[j] = keys[old(j)]
    BY <1>5
  <2>3. old(i) = old(j)
    BY <1>6, <2>1, <2>2 DEF Unique
  <2> QED
    BY <1>1, <2>3
<1>7. ASSUME NEW i \in 1..n - 1
      PROVE  new[i].disp # d
  BY <1>1, <1>5 DEF Unique
<1>8. DOMAIN new = 1..n - 1
  BY <1>1, <1>5
<1> HIDE DEF n
<1>9. Unique(new) /\ ~Has(new, d)
  BY <1>6, <1>7, <1>8 DEF Unique, Has
<1> QED
  BY <1>5, <1>9 DEF new

\* Replacing or adding a record takes at most the profile the display had from
\* those that are named, and adds at most the new one
LEMMA SetKeysNamed ==
    ASSUME NEW keys \in Seq(Records), NEW d \in Displays, NEW q \in Profiles
    PROVE  LET new == Named(SetKeys(keys, d, q))
           IN  /\ Named(keys) \ {OldProfile(keys, d)} \subseteq new
               /\ new \subseteq Named(keys) \union {q}
<1> DEFINE r == [disp |-> d, prof |-> q]
           new == SetKeys(keys, d, q)
<1>1. r \in Records /\ r.prof = q
  BY DEF Records
<1>2. CASE Has(keys, d)
  <2> DEFINE k == Place(keys, d)
  <2>1. k \in 1..Len(keys)
    BY <1>2, PlaceIs
  <2>2. new = [keys EXCEPT ![k] = r] /\ OldProfile(keys, d) = keys[k].prof
    BY <1>2 DEF SetKeys, OldProfile, ProfileOf
  <2> HIDE DEF k, r, new
  <2>3. /\ DOMAIN new = 1..Len(keys) /\ DOMAIN keys = 1..Len(keys)
        /\ \A i \in 1..Len(keys) : new[i] = IF i = k THEN r ELSE keys[i]
    BY <1>1, <2>1, <2>2
  <2>4. Named(keys) \ {OldProfile(keys, d)} \subseteq Named(new)
    BY <2>2, <2>3 DEF Named
  <2>5. Named(new) \subseteq Named(keys) \union {q}
    BY <1>1, <2>3 DEF Named
  <2> QED
    BY <2>4, <2>5 DEF new
<1>3. CASE ~Has(keys, d)
  <2> DEFINE n == Len(keys)
  <2>1. new = Append(keys, r)
    BY <1>3 DEF SetKeys
  <2> HIDE DEF new, r
  <2>2. /\ DOMAIN new = 1..n + 1 /\ DOMAIN keys = 1..n /\ n \in Nat
        /\ \A i \in 1..n + 1 : new[i] = IF i = n + 1 THEN r ELSE keys[i]
    BY <1>1, <2>1
  <2>3. \A i \in 1..n : i \in 1..n + 1 /\ new[i] = keys[i]
    BY <2>2
  <2>4. \A i \in 1..n + 1 : new[i] = r \/ (i \in 1..n /\ new[i] = keys[i])
    BY <2>2
  <2>5. Named(keys) \subseteq Named(new)
    BY <2>2, <2>3 DEF Named
  <2>6. Named(new) \subseteq Named(keys) \union {q}
    BY <1>1, <2>2, <2>4 DEF Named
  <2> QED
    BY <2>5, <2>6 DEF new
<1> QED
  BY <1>2, <1>3

\* Deleting a record takes at most its profile from those that are named
LEMMA DeleteKeysNamed ==
    ASSUME NEW keys \in Seq(Records), NEW d \in Displays, Has(keys, d)
    PROVE  LET new == Named(DeleteKeys(keys, d))
           IN  /\ Named(keys) \ {ProfileOf(keys, d)} \subseteq new
               /\ new \subseteq Named(keys)
<1> DEFINE n == Len(keys)
           k == Place(keys, d)
           new == DeleteKeys(keys, d)
<1>1. n \in Nat /\ k \in 1..n /\ DOMAIN keys = 1..n /\ ProfileOf(keys, d) = keys[k].prof
  BY PlaceIs DEF ProfileOf
<1>2. /\ DOMAIN new = 1..n - 1
      /\ \A i \in 1..n - 1 : new[i] = IF i < k THEN keys[i] ELSE keys[i + 1]
  BY DeleteKeysAre
<1> HIDE DEF n, k, new
<1>3. ASSUME NEW i \in 1..n, i # k
      PROVE  \E j \in 1..n - 1 : new[j] = keys[i]
  <2>1. CASE i < k
    BY <1>1, <1>2, <2>1
  <2>2. CASE i > k
    <3>1. i - 1 \in 1..n - 1 /\ ~(i - 1 < k) /\ (i - 1) + 1 = i
      BY <1>1, <2>2
    <3> QED
      BY <1>2, <3>1
  <2> QED
    BY <1>1, <1>3, <2>1, <2>2
<1>4. ASSUME NEW i \in 1..n - 1
      PROVE  \E j \in 1..n : new[i] = keys[j]
  BY <1>1, <1>2
<1>5. Named(keys) \ {ProfileOf(keys, d)} \subseteq Named(new)
  <2> SUFFICES ASSUME NEW i \in 1..n, keys[i].prof # keys[k].prof
               PROVE  keys[i].prof \in Named(new)
    BY <1>1 DEF Named
  <2>1. PICK j \in 1..n - 1 : new[j] = keys[i]
    BY <1>3
  <2> QED
    BY <1>2, <2>1 DEF Named
<1>6. Named(new) \subseteq Named(keys)
  <2> SUFFICES ASSUME NEW i \in 1..n - 1
               PROVE  new[i].prof \in Named(keys)
    BY <1>2 DEF Named
  <2> QED
    BY <1>1, <1>4 DEF Named
<1> QED
  BY <1>5, <1>6 DEF new

(***************************************************************************)
(* Types                                                                   *)
(***************************************************************************)

\* An operation has its arguments, and a file to lock, once it has opened one
JobInv(j) ==
    /\ j.pc # "idle" => j.disp \in Displays
    /\ j.pc # "idle" /\ j.kind = "install" => j.prof \in Profiles
    /\ j.pc = "copy" => j.kind = "install"
    /\ j.pc \in {"create", "unlink", "write", "rename"} => j.kind # "get"
    /\ j.pc \in {"lock", "unlink", "write", "rename"} => j.fp \in Inodes
    /\ j.pc = "rename" => j.tmp = "whole"
    /\ Unique(j.keys)

\* Every configuration file is whole and has at most one record of a display
FilesInv == \A i \in Inodes : content[i].whole /\ Unique(content[i].keys)

\* The inductive invariant behind TypeOK and ConfigWhole
TInv == TypeOK /\ FilesInv /\ \A p \in Procs : JobInv(job[p])

\* A process without an operation has a record of the type,
LEMMA NoJobTyped == NoJob \in JobType /\ JobInv(NoJob)
BY RetriesAssumption DEF NoJob, JobType, JobInv, PcValues, Kinds, Unique, Records

\* and an empty configuration is a whole one.
LEMMA EmptyTyped == Empty \in Contents /\ Empty.whole /\ Unique(Empty.keys)
BY DEF Empty, Contents, Unique

\* It starts with no configuration and no operation.
LEMMA InitTInv == Init => TInv
BY NoJobTyped, EmptyTyped DEF Init, TInv, TypeOK, FilesInv

\* A step that changes one job, and of the files at most the profile files
LEMMA OneJob ==
    ASSUME TInv, NEW p \in Procs, NEW j \in JobType, JobInv(j),
           job' = [job EXCEPT ![p] = j], UNCHANGED <<dir, content>>,
           file' \in [Profiles -> {"no", "part", "whole"}], marred' \in BOOLEAN
    PROVE  TInv'
BY DEF TInv, TypeOK, FilesInv, JobType

\* Dropping files that nobody has open
LEMMA KeptSound ==
    ASSUME NEW c \in [Inodes -> Contents],
           \A i \in Inodes : c[i].whole /\ Unique(c[i].keys)
    PROVE  /\ Kept(c) \in [Inodes -> Contents]
           /\ \A i \in Inodes : Kept(c)[i].whole /\ Unique(Kept(c)[i].keys)
           /\ dir' \in Inodes => Kept(c)[dir'] = c[dir']
<1>1. \A i \in Inodes : Kept(c)[i] = c[i] \/ Kept(c)[i] = Empty
  BY DEF Kept
<1>2. Kept(c) = [i \in Inodes |-> Kept(c)[i]]
  BY DEF Kept
<1>3. dir' \in Inodes => Kept(c)[dir'] = c[dir']
  BY DEF Kept
<1> QED
  BY <1>1, <1>2, <1>3, EmptyTyped

\* A process going on keeps the invariant if its new record and the files do.
LEMMA BecomesTInv ==
    ASSUME TInv, NEW p \in Procs, NEW j \in JobType, JobInv(j), Becomes(p, j),
           marred' \in BOOLEAN
    PROVE  TInv'
<1>1. content \in [Inodes -> Contents] /\ FilesInv
  BY DEF TInv, TypeOK
<1>2. content' \in [Inodes -> Contents] /\ FilesInv'
  BY <1>1, KeptSound DEF Becomes, FilesInv
<1> QED
  BY <1>2 DEF TInv, TypeOK, Becomes, JobType

\* What holds of a job whatever the others do
LEMMA JobFacts ==
    ASSUME TInv, NEW p \in Procs
    PROVE  job[p] \in JobType /\ JobInv(job[p])
BY DEF TInv, TypeOK

\* The file a process has open to lock, and its keys
LEMMA OpenFacts ==
    ASSUME TInv, NEW p \in Procs, At(p, "lock")
    PROVE  /\ job[p].fp \in Inodes /\ content[job[p].fp] \in Contents
           /\ Keys(p) \in Seq(Records) /\ Unique(Keys(p)) /\ content[job[p].fp].whole
<1>1. job[p].fp \in Inodes
  BY JobFacts DEF JobInv, At
<1>2. content[job[p].fp] \in Contents
  BY <1>1 DEF TInv, TypeOK
<1> QED
  BY <1>1, <1>2 DEF TInv, FilesInv, Keys, Contents

\* A step that changes only flags of the other jobs
LEMMA ManyJobs ==
    ASSUME TInv, UNCHANGED <<dir, content>>,
           file' \in [Profiles -> {"no", "part", "whole"}], marred' \in BOOLEAN,
           job' \in [Procs -> JobType], \A q \in Procs : JobInv(job'[q])
    PROVE  TInv'
BY DEF TInv, TypeOK, FilesInv

\* An operation begun has what its first place needs,
LEMMA BeginTInv ==
    ASSUME TInv, NEW p \in Procs, NEW j \in JobType, JobInv(j), Begin(p, j)
    PROVE  /\ job' \in [Procs -> JobType] /\ (\A q \in Procs : JobInv(job'[q]))
           /\ marred' \in BOOLEAN
<1>1. \A q \in Procs : job[q] \in JobType /\ JobInv(job[q])
  BY JobFacts
<1>2. \A q \in Procs : job'[q] \in JobType /\ JobInv(job'[q])
  <2> TAKE q \in Procs
  <2>1. job'[q] = IF q = p THEN [j EXCEPT !.alone = (Writers = {})]
                  ELSE [job[q] EXCEPT !.alone = @ /\ j.kind = "get"]
    BY DEF Begin
  <2>2. CASE q = p
    <3>1. [j EXCEPT !.alone = (Writers = {})] \in JobType
      BY DEF JobType
    <3>2. JobInv([j EXCEPT !.alone = (Writers = {})])
      BY DEF JobType, JobInv
    <3> QED
      BY <2>1, <2>2, <3>1, <3>2
  <2>3. CASE q # p
    <3> DEFINE k == job[q]
    <3>0. k \in JobType /\ JobInv(k)
      BY <1>1
    <3> HIDE DEF k
    <3> DEFINE g == k.alone /\ j.kind = "get"
    <3>1. job'[q] = [k EXCEPT !.alone = g]
      BY <2>1, <2>3 DEF k
    <3>2. g \in BOOLEAN
      OBVIOUS
    <3> HIDE DEF g
    <3>3. [k EXCEPT !.alone = g] \in JobType
      BY <3>0, <3>2 DEF JobType
    <3>4. JobInv([k EXCEPT !.alone = g])
      BY <3>0 DEF JobType, JobInv
    <3> QED
      BY <3>1, <3>3, <3>4
  <2> QED
    BY <2>2, <2>3
<1>3. marred' \in BOOLEAN
  BY DEF Begin
<1> QED
  BY <1>2, <1>3 DEF Begin

\* The jobs that operations begin with
LEMMA BeginJobs ==
    ASSUME NEW d \in Displays, NEW q \in Profiles
    PROVE  LET install   == [NoJob EXCEPT !.pc = "copy", !.kind = "install",
                                          !.disp = d, !.prof = q, !.linked = TRUE]
               uninstall == [NoJob EXCEPT !.pc = "open", !.kind = "uninstall", !.disp = d]
               get       == [NoJob EXCEPT !.pc = "open", !.disp = d]
           IN  /\ install \in JobType /\ JobInv(install)
               /\ uninstall \in JobType /\ JobInv(uninstall)
               /\ get \in JobType /\ JobInv(get)
BY NoJobTyped, RetriesAssumption DEF NoJob, JobType, JobInv, PcValues, Kinds

\* The profile of a display that has one
LEMMA ProfileIsOne ==
    ASSUME NEW keys \in Seq(Records), NEW d, Has(keys, d)
    PROVE  ProfileOf(keys, d) \in Profiles
<1>1. Place(keys, d) \in 1..Len(keys)
  BY PlaceIs
<1>2. keys[Place(keys, d)] \in Records
  BY <1>1
<1> QED
  BY <1>2 DEF ProfileOf, Records

\* The job of a writer that has changed its keys (EditInstall, EditUninstall)
LEMMA EditedJob ==
    ASSUME NEW b \in JobType, JobInv(b), b.pc = "lock", b.kind # "get",
           NEW keys \in Seq(Records), Unique(keys), NEW x \in Profiles \union {NoProfile}
    PROVE  LET j == [[[[[b EXCEPT !.keys = keys] EXCEPT !.xprofile = x]
                       EXCEPT !.locked = TRUE] EXCEPT !.tries = 0] EXCEPT !.pc = "unlink"]
           IN  j \in JobType /\ JobInv(j)
<1> DEFINE b1 == [b EXCEPT !.keys = keys]
           b2 == [b1 EXCEPT !.xprofile = x]
           b3 == [b2 EXCEPT !.locked = TRUE]
           b4 == [b3 EXCEPT !.tries = 0]
           j  == [b4 EXCEPT !.pc = "unlink"]
<1>1. b2 \in JobType /\ b2.pc = b.pc /\ b2.kind = b.kind /\ b2.disp = b.disp
      /\ b2.prof = b.prof /\ b2.fp = b.fp /\ b2.keys = keys
  BY DEF JobType
<1> HIDE DEF b2
<1>2. b4 \in JobType /\ b4.pc = b.pc /\ b4.kind = b.kind /\ b4.disp = b.disp
      /\ b4.prof = b.prof /\ b4.fp = b.fp /\ b4.keys = keys
  <2>1. 0 \in 0..LockRetries - 1
    BY RetriesAssumption
  <2>2. b3 \in JobType /\ b3.pc = b.pc /\ b3.kind = b.kind /\ b3.disp = b.disp
        /\ b3.prof = b.prof /\ b3.fp = b.fp /\ b3.keys = keys
    BY <1>1 DEF JobType
  <2> HIDE DEF b3
  <2> QED
    BY <2>1, <2>2 DEF JobType
<1> HIDE DEF b4
<1>3. j \in JobType /\ j.pc = "unlink" /\ j.kind = b.kind /\ j.disp = b.disp
      /\ j.prof = b.prof /\ j.fp = b.fp /\ j.keys = keys
  BY <1>2 DEF JobType, PcValues
<1> HIDE DEF j
<1>4. JobInv(j)
  BY <1>3 DEF JobInv
<1> QED
  BY <1>3, <1>4 DEF b2, b4, j

\* The job of an operation that has done what it was called for
LEMMA ClosedJob ==
    ASSUME NEW b \in JobType, JobInv(b), b.pc # "idle"
    PROVE  Closed(b) \in JobType /\ JobInv(Closed(b))
           /\ Closed(b).disp = b.disp /\ Closed(b).kind = b.kind
<1>1. Closed(b) \in JobType
  <2> DEFINE b2 == [[b EXCEPT !.pc = "ok"] EXCEPT !.fp = NoInode]
             b3 == [[b2 EXCEPT !.locked = FALSE] EXCEPT !.tmp = "no"]
  <2>1. b2 \in JobType
    BY DEF JobType, PcValues
  <2> HIDE DEF b2
  <2>2. b3 \in JobType
    BY <2>1 DEF JobType
  <2> HIDE DEF b3
  <2>3. <<>> \in Seq(Records)
    OBVIOUS
  <2>4. [b3 EXCEPT !.keys = <<>>] \in JobType
    BY <2>2, <2>3 DEF JobType
  <2>5. Closed(b) = [b3 EXCEPT !.keys = <<>>]
    BY DEF Closed, b2, b3
  <2> QED
    BY <2>4, <2>5
<1>2. Closed(b).pc = "ok" /\ Closed(b).kind = b.kind /\ Closed(b).disp = b.disp
      /\ Closed(b).prof = b.prof /\ Closed(b).keys = <<>>
  BY DEF Closed, JobType
<1> QED
  BY <1>1, <1>2 DEF JobInv, Unique

\* whichever is called and returns.
LEMMA CallTInv ==
    ASSUME TInv, NEW p \in Procs, Call(p)
    PROVE  TInv'
<1>1. PICK d \in Displays : Uninstall(p, d) \/ Get(p, d) \/ \E q \in Profiles : Install(p, d, q)
  BY DEF Call
<1>2. Profiles # {} => \E q \in Profiles : TRUE
  OBVIOUS
<1>3. file \in [Profiles -> {"no", "part", "whole"}]
  BY DEF TInv, TypeOK
<1>4. CASE Uninstall(p, d)
  <2> DEFINE j == [NoJob EXCEPT !.pc = "open", !.kind = "uninstall", !.disp = d]
  <2>1. j \in JobType /\ JobInv(j)
    BY NoJobTyped, RetriesAssumption DEF NoJob, JobType, JobInv, PcValues, Kinds
  <2> QED
    BY <1>3, <1>4, <2>1, BeginTInv, ManyJobs DEF Uninstall
<1>5. CASE Get(p, d)
  <2> DEFINE j == [NoJob EXCEPT !.pc = "open", !.disp = d]
  <2>1. j \in JobType /\ JobInv(j)
    BY NoJobTyped, RetriesAssumption DEF NoJob, JobType, JobInv, PcValues, Kinds
  <2> QED
    BY <1>3, <1>5, <2>1, BeginTInv, ManyJobs DEF Get
<1>6. ASSUME NEW q \in Profiles, Install(p, d, q)
      PROVE  TInv'
  <2> DEFINE j == [NoJob EXCEPT !.pc = "copy", !.kind = "install",
                                !.disp = d, !.prof = q, !.linked = TRUE]
  <2>1. j \in JobType /\ JobInv(j)
    BY NoJobTyped, RetriesAssumption DEF NoJob, JobType, JobInv, PcValues, Kinds
  <2>2. file' \in [Profiles -> {"no", "part", "whole"}]
    BY <1>3, <1>6 DEF Install
  <2> QED
    BY <1>6, <2>1, <2>2, BeginTInv, ManyJobs DEF Install
<1> QED
  BY <1>1, <1>4, <1>5, <1>6

\* A step of p that only moves it on, as j
LEMMA MoveTInv ==
    ASSUME TInv, NEW p \in Procs, NEW j, job' = [job EXCEPT ![p] = j],
           UNCHANGED <<dir, content, file, marred>>, j \in JobType, JobInv(j)
    PROVE  TInv'
BY OneJob DEF TInv, TypeOK

\* So does one that fails,
LEMMA FailTInv ==
    ASSUME TInv, NEW p \in Procs, Fail(p)
    PROVE  TInv'
<1>1. marred' \in BOOLEAN
  BY DEF Fail, TInv, TypeOK
<1> QED
  BY <1>1, BecomesTInv, NoJobTyped DEF Fail

\* A file takes the name
LEMMA ReplaceTInv ==
    ASSUME TInv, NEW p \in Procs, NEW j \in JobType, JobInv(j), Replace(p, j),
           marred' \in BOOLEAN
    PROVE  TInv'
<1>1. job[p] \in JobType /\ JobInv(job[p]) /\ At(p, "rename")
  BY JobFacts DEF Replace
<1>2. PICK i \in Fresh :
        /\ dir' = i /\ job' = [job EXCEPT ![p] = j]
        /\ content' = Kept([content EXCEPT ![i] = [whole |-> job[p].tmp = "whole",
                                                    keys  |-> job[p].keys]])
  BY DEF Replace
<1>3. i \in Inodes
  BY DEF Fresh, Unused
<1> DEFINE new == [whole |-> job[p].tmp = "whole", keys |-> job[p].keys]
           c   == [content EXCEPT ![i] = new]
<1>4. new \in Contents /\ new.whole /\ Unique(new.keys)
  BY <1>1 DEF Contents, JobType, JobInv, At
<1> HIDE DEF new
<1>5. c \in [Inodes -> Contents] /\ \A k \in Inodes : c[k].whole /\ Unique(c[k].keys)
  BY <1>3, <1>4 DEF TInv, TypeOK, FilesInv
<1>6. content' = Kept(c)
  BY <1>2 DEF new
<1> HIDE DEF c
<1>7. content' \in [Inodes -> Contents] /\ FilesInv'
  BY <1>5, <1>6, KeptSound DEF FilesInv
<1> QED
  BY <1>2, <1>3, <1>7 DEF TInv, TypeOK, Replace

\* takes its next step,
LEMMA StepTInv ==
    ASSUME TInv, NEW p \in Procs, Step(p)
    PROVE  TInv'
<1> DEFINE b == job[p]
<1>1. b \in JobType /\ JobInv(b) /\ NoJob \in JobType /\ JobInv(NoJob)
  BY JobFacts, NoJobTyped
<1>2. /\ file \in [Profiles -> {"no", "part", "whole"}] /\ marred \in BOOLEAN
      /\ dir \in Inodes \union {NoInode} /\ job \in [Procs -> JobType]
  BY DEF TInv, TypeOK
<1>3. CASE CopyProfile(p)
  <2> DEFINE j == [b EXCEPT !.pc = "open"]
  <2>1. j \in JobType /\ JobInv(j)
    BY <1>1, <1>3 DEF CopyProfile, At, JobType, JobInv, PcValues
  <2>2. job' = [job EXCEPT ![p] = j]
    BY <1>3 DEF CopyProfile, Go
  <2>3. b.prof \in Profiles
    BY <1>1, <1>3 DEF CopyProfile, At, JobInv
  <2>4. file' \in [Profiles -> {"no", "part", "whole"}]
    BY <1>2, <1>3, <2>3 DEF CopyProfile
  <2> QED
    BY <1>2, <1>3, <2>1, <2>2, <2>4, OneJob DEF CopyProfile
<1>4. CASE CopyFails(p) \/ LockGivesUp(p) \/ ReadFails(p) \/ UnlinkFails(p) \/ WriteFails(p)
  BY <1>4, FailTInv DEF CopyFails, LockGivesUp, ReadFails, UnlinkFails, WriteFails
<1>5. CASE Open(p)
  <2> DEFINE j == IF dir # NoInode THEN [[b EXCEPT !.fp = dir] EXCEPT !.pc = "lock"]
                  ELSE IF Modifies(p) THEN [b EXCEPT !.pc = "create"] ELSE NoJob
  <2>1. j \in JobType /\ JobInv(j)
    <3>1. CASE dir # NoInode
      <4>1. j = [[b EXCEPT !.fp = dir] EXCEPT !.pc = "lock"]
        BY <3>1
      <4> HIDE DEF j
      <4> QED
        BY <1>1, <1>2, <1>5, <3>1, <4>1 DEF Open, At, JobType, JobInv, PcValues
    <3>2. CASE dir = NoInode /\ Modifies(p)
      <4>1. j = [b EXCEPT !.pc = "create"]
        BY <3>2
      <4> HIDE DEF j
      <4> QED
        BY <1>1, <1>5, <3>2, <4>1 DEF Open, At, JobType, JobInv, PcValues, Modifies
    <3> QED
      BY <1>1, <3>1, <3>2
  <2>2. job' = [job EXCEPT ![p] = j]
    BY <1>2, <1>5 DEF Open
  <2> HIDE DEF j
  <2> QED
    BY <1>5, <2>1, <2>2, MoveTInv DEF Open
<1>6. CASE Create(p)
  <2>1. /\ dir' \in Inodes /\ job' = [job EXCEPT ![p] = [[b EXCEPT !.fp = dir'] EXCEPT !.pc = "lock"]]
    BY <1>2, <1>6 DEF Create, Fresh, Unused
  <2>2. content' = [content EXCEPT ![dir'] = Empty]
    BY <1>6 DEF Create
  <2> DEFINE j == [[b EXCEPT !.fp = dir'] EXCEPT !.pc = "lock"]
  <2>3. j \in JobType /\ JobInv(j)
    BY <1>1, <1>6, <2>1 DEF Create, At, JobType, JobInv, PcValues
  <2> HIDE DEF j
  <2>4. content' \in [Inodes -> Contents] /\ FilesInv'
    BY <2>1, <2>2, EmptyTyped DEF TInv, TypeOK, FilesInv
  <2>5. job' \in [Procs -> JobType] /\ \A q \in Procs : JobInv(job'[q])
    BY <1>2, <2>1, <2>3 DEF TInv, j
  <2> QED
    BY <1>2, <1>6, <2>1, <2>4, <2>5 DEF TInv, TypeOK, Create
<1>7. CASE LockBusy(p)
  <2> DEFINE j == [b EXCEPT !.tries = @ + 1]
  <2>1. b.tries + 1 \in 0..LockRetries - 1 /\ b.pc = "lock"
    <3>1. b.tries \in 0..LockRetries - 1 /\ b.tries + 1 < LockRetries
      BY <1>1, <1>7 DEF LockBusy, JobType
    <3> QED
      BY <1>7, <3>1, RetriesAssumption DEF LockBusy, At
  <2>2. j = [b EXCEPT !.tries = b.tries + 1]
    OBVIOUS
  <2> HIDE DEF j
  <2>3. j \in JobType
    BY <1>1, <2>1, <2>2 DEF JobType
  <2>4. JobInv(j)
    BY <1>1, <2>2 DEF JobType, JobInv
  <2>5. job' = [job EXCEPT ![p] = j]
    BY <1>2, <1>7, <2>2 DEF LockBusy
  <2> QED
    BY <1>7, <2>3, <2>4, <2>5, MoveTInv DEF LockBusy
<1>8. CASE ReadNothing(p) \/ EditDies(p)
  BY <1>1, <1>2, <1>8, BecomesTInv DEF ReadNothing, EditDies
<1>9. CASE ReadProfile(p)
  <2>1. ProfileOf(Keys(p), b.disp) \in Profiles
    <3>1. Keys(p) \in Seq(Records) /\ Has(Keys(p), b.disp)
      BY <1>9, OpenFacts DEF ReadProfile, Parses, Locks
    <3> QED
      BY <3>1, ProfileIsOne
  <2> DEFINE c == Closed(b)
             j == [c EXCEPT !.prof = ProfileOf(Keys(p), b.disp)]
  <2>2. j \in JobType /\ JobInv(j)
    <3>1. c \in JobType /\ JobInv(c)
      BY <1>1, <1>9, ClosedJob DEF ReadProfile, Parses, Locks, At
    <3> HIDE DEF c
    <3> QED
      BY <2>1, <3>1 DEF JobType, JobInv
  <2> HIDE DEF j
  <2>3. Becomes(p, j)
    BY <1>9 DEF ReadProfile, j
  <2> QED
    BY <1>2, <1>9, <2>2, <2>3, BecomesTInv DEF ReadProfile
<1>10. CASE EditInstall(p)
  <2>1. /\ SetKeys(Keys(p), b.disp, b.prof) \in Seq(Records)
        /\ Unique(SetKeys(Keys(p), b.disp, b.prof))
        /\ OldProfile(Keys(p), b.disp) \in Profiles \union {NoProfile}
    <3>1. Keys(p) \in Seq(Records) /\ Unique(Keys(p)) /\ b.disp \in Displays /\ b.prof \in Profiles
      BY <1>1, <1>10, OpenFacts DEF EditInstall, Parses, Locks, JobInv, At
    <3> QED
      BY <3>1, SetKeysSound, ProfileIsOne DEF OldProfile
  <2> DEFINE j == [[[[[b EXCEPT !.keys = SetKeys(Keys(p), b.disp, b.prof)]
                     EXCEPT !.xprofile = OldProfile(Keys(p), b.disp)]
                     EXCEPT !.locked = TRUE] EXCEPT !.tries = 0] EXCEPT !.pc = "unlink"]
  <2>2. j \in JobType /\ JobInv(j)
    BY <1>1, <1>10, <2>1, EditedJob DEF EditInstall, Parses, Locks, At
  <2>3. job' = [job EXCEPT ![p] = j]
    BY <1>2, <1>10 DEF EditInstall
  <2> HIDE DEF j
  <2> QED
    BY <1>10, <2>2, <2>3, MoveTInv DEF EditInstall
<1>11. CASE EditUninstall(p)
  <2>1. /\ DeleteKeys(Keys(p), b.disp) \in Seq(Records)
        /\ Unique(DeleteKeys(Keys(p), b.disp))
        /\ ProfileOf(Keys(p), b.disp) \in Profiles
    <3>1. /\ Keys(p) \in Seq(Records) /\ Unique(Keys(p)) /\ b.disp \in Displays
          /\ Has(Keys(p), b.disp)
      BY <1>1, <1>11, OpenFacts DEF EditUninstall, Parses, Locks, JobInv, At
    <3> QED
      BY <3>1, DeleteKeysSound, ProfileIsOne
  <2> DEFINE j == [[[[[b EXCEPT !.keys = DeleteKeys(Keys(p), b.disp)]
                     EXCEPT !.xprofile = ProfileOf(Keys(p), b.disp)]
                     EXCEPT !.locked = TRUE] EXCEPT !.tries = 0] EXCEPT !.pc = "unlink"]
  <2>2. j \in JobType /\ JobInv(j)
    BY <1>1, <1>11, <2>1, EditedJob DEF EditUninstall, Parses, Locks, At
  <2>3. job' = [job EXCEPT ![p] = j]
    BY <1>2, <1>11 DEF EditUninstall
  <2> HIDE DEF j
  <2> QED
    BY <1>11, <2>2, <2>3, MoveTInv DEF EditUninstall
<1>12. CASE UnlinkProfile(p)
  <2>1. file' \in [Profiles -> {"no", "part", "whole"}]
    BY <1>2, <1>12 DEF UnlinkProfile
  <2>2. ASSUME NEW q \in Procs
        PROVE  job'[q] \in JobType /\ JobInv(job'[q])
    <3> DEFINE k == job[q]
    <3>1. k \in JobType /\ JobInv(k)
      BY JobFacts
    <3>2. \/ q = p /\ k.pc = "unlink" /\ job'[q] = [[k EXCEPT !.pc = "write"] EXCEPT !.tmp = "part"]
          \/ job'[q] = [k EXCEPT !.linked = FALSE]
          \/ job'[q] = k
      BY <1>12 DEF UnlinkProfile, At
    <3> HIDE DEF k
    <3>3. CASE k.pc = "unlink" /\ job'[q] = [[k EXCEPT !.pc = "write"] EXCEPT !.tmp = "part"]
      <4>1. job'[q] \in JobType
        BY <3>1, <3>3 DEF JobType, PcValues
      <4> QED
        BY <3>1, <3>3, <4>1 DEF JobType, JobInv
    <3>4. CASE job'[q] = [k EXCEPT !.linked = FALSE]
      BY <3>1, <3>4 DEF JobType, JobInv
    <3> QED
      BY <3>1, <3>2, <3>3, <3>4
  <2>3. job' \in [Procs -> JobType]
    BY <1>12, <2>2 DEF UnlinkProfile
  <2> QED
    BY <1>2, <1>12, <2>1, <2>2, <2>3, ManyJobs DEF UnlinkProfile
<1>13. CASE NothingToUnlink(p)
  <2> DEFINE j == [[b EXCEPT !.pc = "write"] EXCEPT !.tmp = "part"]
  <2>1. j \in JobType /\ JobInv(j)
    BY <1>1, <1>13 DEF NothingToUnlink, At, JobType, JobInv, PcValues
  <2>2. job' = [job EXCEPT ![p] = j]
    BY <1>2, <1>13 DEF NothingToUnlink
  <2> HIDE DEF j
  <2> QED
    BY <1>13, <2>1, <2>2, MoveTInv DEF NothingToUnlink
<1>14. CASE WriteTemp(p)
  <2> DEFINE j == [[b EXCEPT !.tmp = "whole"] EXCEPT !.pc = "rename"]
  <2>1. j \in JobType /\ JobInv(j)
    BY <1>1, <1>14 DEF WriteTemp, At, JobType, JobInv, PcValues
  <2>2. job' = [job EXCEPT ![p] = j]
    BY <1>2, <1>14 DEF WriteTemp
  <2> HIDE DEF j
  <2> QED
    BY <1>14, <2>1, <2>2, MoveTInv DEF WriteTemp
<1>15. CASE Rename(p)
  <2>1. Closed(b) \in JobType /\ JobInv(Closed(b))
    BY <1>1, <1>15, ClosedJob DEF Rename, Replace, At
  <2> QED
    BY <1>2, <1>15, <2>1, ReplaceTInv DEF Rename
<1>16. CASE CloseFails(p)
  BY <1>1, <1>16, ReplaceTInv DEF CloseFails
<1>17. CASE Leave(p)
  BY <1>1, <1>17, MoveTInv DEF Leave
<1> QED
  BY <1>3, <1>4, <1>5, <1>6, <1>7, <1>8, <1>9, <1>10, <1>11, <1>12, <1>13, <1>14, <1>15,
     <1>16, <1>17 DEF Step, Read

\* or is killed.
LEMMA NextTInv == TInv /\ [Next]_vars => TInv'
<1> SUFFICES ASSUME TInv, [Next]_vars PROVE TInv'
  OBVIOUS
<1>1. CASE UNCHANGED vars
  BY <1>1 DEF vars, TInv, TypeOK, FilesInv
<1>2. ASSUME NEW p \in Procs, Kill(p)
      PROVE  TInv'
  <2>1. marred' \in BOOLEAN
    BY <1>2 DEF Kill, TInv, TypeOK
  <2> QED
    BY <1>2, <2>1, BecomesTInv, NoJobTyped DEF Kill
<1> QED
  BY <1>1, <1>2, CallTInv, StepTInv DEF Next

\* Every variable keeps its type, for any number of processes, displays and
\* profiles: in particular no record of the configuration is ever without a
\* display or a profile, and the file a process locks is one it has opened.
THEOREM ConfigTypeCorrect == Spec => []TypeOK
<1>1. TInv => TypeOK
  BY DEF TInv
<1> QED
  BY InitTInv, NextTInv, <1>1, PTL DEF Spec

\* The configuration file is whole whenever a process may open it, whatever was
\* killed or failed while it was being replaced (jcnf_write).
THEOREM ConfigAlwaysWhole == Spec => []ConfigWhole
<1>1. TInv => ConfigWhole
  BY DEF TInv, FilesInv, ConfigWhole, TypeOK
<1> QED
  BY InitTInv, NextTInv, <1>1, PTL DEF Spec

(***************************************************************************)
(* An operation no other writer met                                        *)
(***************************************************************************)

\* A writer that has met no other since it began
Alone(p) == job[p].alone /\ Busy(p) /\ Modifies(p)

\* keys are what the operation j was called for
Achieved(j, keys) ==
    IF j.kind = "install" THEN Has(keys, j.disp) /\ ProfileOf(keys, j.disp) = j.prof
    ELSE ~Has(keys, j.disp)

\* The profile an uninstalled display had is needed, or gone
Cleared(j, keys) ==
    j.kind = "uninstall" => j.xprofile \in Named(keys) \/ file[j.xprofile] = "no"

\* How far an undisturbed writer has come
Progress(j) ==
    /\ j.pc = "copy" => j.linked
    /\ j.kind = "install" /\ j.pc # "copy" => file[j.prof] = "whole"
    /\ j.pc \in {"unlink", "write", "rename"} =>
           Achieved(j, j.keys) /\ (j.kind = "uninstall" => j.xprofile \in Profiles)
    /\ j.pc \in {"write", "rename"} => Cleared(j, j.keys)
    /\ j.pc = "ok" => Achieved(j, Visible) /\ Cleared(j, Visible)

Sole(p) == \A q \in Procs \ {p} : ~(Busy(q) /\ Modifies(q))

SInv == TInv /\ \A p \in Procs : Alone(p) => Sole(p) /\ Progress(job[p])

\* What a process sees under the name depends on the file that has it alone.
LEMMA VisibleKept ==
    ASSUME TInv, UNCHANGED dir, content' = content \/ content' = Kept(content)
    PROVE  Visible' = Visible
<1>1. content \in [Inodes -> Contents] /\ dir \in Inodes \union {NoInode} /\ FilesInv
  BY DEF TInv, TypeOK
<1>2. dir' # NoInode => content'[dir'] = content[dir]
  BY <1>1, KeptSound DEF FilesInv
<1> QED
  BY <1>2 DEF Visible

\* Nothing a process does reaches an undisturbed writer (a reader touches no
\* profile, and a writer that begins disturbs it)
LEMMA OthersHarmless ==
    ASSUME SInv, NEW a \in Procs, NEW p \in Procs \ {a},
           Call(a) \/ Step(a) \/ Kill(a), Alone(p)'
    PROVE  /\ Alone(p) /\ job'[p] = job[p] /\ UNCHANGED file /\ Visible' = Visible
           /\ ~(Busy(a) /\ Modifies(a))'
<1>1. /\ job[p] \in JobType /\ JobInv(job[p]) /\ job[a] \in JobType /\ JobInv(job[a])
      /\ job \in [Procs -> JobType] /\ TInv
  BY JobFacts DEF SInv, TInv, TypeOK
<1>2. ASSUME Call(a)
      PROVE  /\ Alone(p) /\ job'[p] = job[p] /\ UNCHANGED <<file, dir, content>>
             /\ ~(Busy(a) /\ Modifies(a))'
  <2>1. ASSUME NEW j \in JobType, Begin(a, j)
        PROVE  j.kind = "get" /\ Alone(p) /\ job'[p] = job[p] /\ job'[a].kind = "get"
    <3>1. job'[p] = [job[p] EXCEPT !.alone = @ /\ j.kind = "get"]
      BY <2>1 DEF Begin
    <3>2. job[p].alone /\ j.kind = "get"
      BY <1>1, <3>1 DEF Alone, JobType
    <3>3. job'[p] = job[p]
      BY <1>1, <3>1, <3>2 DEF JobType
    <3>4. job'[a] = [j EXCEPT !.alone = (Writers = {})]
      BY <2>1 DEF Begin
    <3> QED
      BY <3>2, <3>3, <3>4 DEF Alone, Busy, Modifies, At, JobType
  <2>2. PICK d \in Displays : Uninstall(a, d) \/ Get(a, d) \/ \E q \in Profiles : Install(a, d, q)
    BY <1>2 DEF Call
  <2>3. ~Uninstall(a, d)
    <3> DEFINE j == [NoJob EXCEPT !.pc = "open", !.kind = "uninstall", !.disp = d]
    <3>1. j \in JobType /\ j.kind # "get"
      BY NoJobTyped DEF NoJob, JobType, PcValues, Kinds
    <3> HIDE DEF j
    <3>2. Uninstall(a, d) => Begin(a, j)
      BY DEF Uninstall, j
    <3> QED
      BY <2>1, <3>1, <3>2
  <2>4. \A q \in Profiles : ~Install(a, d, q)
    <3> TAKE q \in Profiles
    <3> DEFINE j == [NoJob EXCEPT !.pc = "copy", !.kind = "install",
                                  !.disp = d, !.prof = q, !.linked = TRUE]
    <3>1. j \in JobType /\ j.kind # "get"
      BY NoJobTyped DEF NoJob, JobType, PcValues, Kinds
    <3> HIDE DEF j
    <3>2. Install(a, d, q) => Begin(a, j)
      BY DEF Install, j
    <3> QED
      BY <2>1, <3>1, <3>2
  <2>5. Get(a, d)
    BY <2>2, <2>3, <2>4
  <2> DEFINE j == [NoJob EXCEPT !.pc = "open", !.disp = d]
  <2>6. j \in JobType
    BY NoJobTyped DEF NoJob, JobType, PcValues, Kinds
  <2> HIDE DEF j
  <2>7. Begin(a, j) /\ UNCHANGED <<file, dir, content>>
    BY <2>5 DEF Get, j
  <2> QED
    BY <2>1, <2>6, <2>7 DEF Modifies
<1>3. ASSUME Step(a) \/ Kill(a)
      PROVE  /\ Alone(p) /\ job'[p] = job[p] /\ UNCHANGED <<file, dir>>
             /\ content' = content \/ content' = Kept(content)
             /\ ~(Busy(a) /\ Modifies(a))'
  <2>1. Busy(a)
    BY <1>3 DEF Step, Read, CopyProfile, CopyFails, Open, Create, LockBusy, LockGivesUp,
       ReadFails, ReadNothing, ReadProfile, EditInstall, EditUninstall, EditDies,
       UnlinkProfile, NothingToUnlink, UnlinkFails, WriteTemp, Rename, CloseFails, Replace,
       WriteFails, Leave, Kill, Parses, Locks, Busy, At
  <2>2. job[p].alone /\ Busy(p) /\ Modifies(p)
    <3>1. CASE UnlinkProfile(a)
      <4>1. job'[p] = job[p] \/ job'[p] = [job[p] EXCEPT !.linked = FALSE]
        BY <3>1 DEF UnlinkProfile
      <4>2. /\ job'[p].alone = job[p].alone /\ job'[p].pc = job[p].pc
            /\ job'[p].kind = job[p].kind
        BY <1>1, <4>1 DEF JobType
      <4> QED
        BY <4>2 DEF Alone, Busy, Modifies, At
    <3>2. CASE job'[p] = job[p]
      BY <3>2 DEF Alone, Busy, Modifies, At
    <3>3. ~UnlinkProfile(a) => job'[p] = job[p]
      BY <1>1, <1>3 DEF Step, Read, CopyProfile, CopyFails, Open, Create, LockBusy,
         LockGivesUp, ReadFails, ReadNothing, ReadProfile, EditInstall, EditUninstall,
         EditDies, NothingToUnlink, UnlinkFails, WriteTemp, Rename, CloseFails, Replace,
         WriteFails, Leave, Kill, Fail, Becomes, Go
    <3> QED
      BY <3>1, <3>2, <3>3
  <2>3. Alone(p) /\ ~Modifies(a) /\ job[a].kind = "get"
    BY <2>1, <2>2 DEF SInv, Alone, Sole, Modifies
  <2>4. job[a].pc \notin {"copy", "create", "unlink", "write", "rename"}
    BY <1>1, <2>3 DEF JobInv
  <2>5. \/ Open(a) \/ LockBusy(a) \/ LockGivesUp(a) \/ ReadFails(a) \/ ReadNothing(a)
        \/ ReadProfile(a) \/ Leave(a) \/ Kill(a) \/ WriteFails(a)
    BY <1>3, <2>3, <2>4 DEF Step, Read, CopyProfile, CopyFails, Create, EditInstall,
       EditUninstall, EditDies, UnlinkProfile, NothingToUnlink, UnlinkFails, WriteTemp,
       Rename, CloseFails, Replace, At
  <2>6. /\ job'[p] = job[p] /\ UNCHANGED <<file, dir>>
        /\ content' = content \/ content' = Kept(content)
    BY <1>1, <2>5 DEF Open, LockBusy, LockGivesUp, ReadFails, ReadNothing, ReadProfile,
       Leave, Kill, WriteFails, Fail, Becomes
  <2>7. job'[a].kind = "get"
    <3>1. NoJob.kind = "get" /\ Closed(job[a]).kind = "get"
      BY <1>1, <2>3 DEF NoJob, Closed, JobType
    <3>2. CASE ReadProfile(a)
      <4>1. job'[a] = [Closed(job[a]) EXCEPT !.prof = ProfileOf(Keys(a), job[a].disp)]
        BY <1>1, <3>2 DEF ReadProfile, Becomes
      <4>2. Closed(job[a]) \in JobType
        BY <1>1, <2>1, ClosedJob DEF Busy, At
      <4> QED
        BY <3>1, <4>1, <4>2 DEF JobType
    <3>3. CASE Open(a) \/ LockBusy(a)
      BY <1>1, <2>3, <3>1, <3>3 DEF Open, LockBusy, JobType
    <3>4. CASE LockGivesUp(a) \/ ReadFails(a) \/ ReadNothing(a) \/ Leave(a) \/ Kill(a)
               \/ WriteFails(a)
      BY <1>1, <3>1, <3>4 DEF LockGivesUp, ReadFails, ReadNothing, Leave, Kill, WriteFails,
         Fail, Becomes
    <3> QED
      BY <2>5, <3>2, <3>3, <3>4
  <2> QED
    BY <2>3, <2>6, <2>7 DEF Modifies
<1> QED
  BY <1>1, <1>2, <1>3, VisibleKept

\* A writer that begins while no other is at work
LEMMA BeginProgress ==
    ASSUME SInv, NEW p \in Procs, Call(p), Alone(p)'
    PROVE  Sole(p)' /\ Progress(job[p])'
<1>1. TInv /\ job \in [Procs -> JobType]
  BY DEF SInv, TInv, TypeOK
<1>2. ASSUME NEW j \in JobType, Begin(p, j)
      PROVE  /\ Sole(p)' /\ job'[p].pc = j.pc /\ job'[p].kind = j.kind
             /\ job'[p].linked = j.linked
  <2>1. job'[p] = [j EXCEPT !.alone = (Writers = {})]
    BY <1>2 DEF Begin
  <2>2. job'[p].alone = (Writers = {}) /\ job'[p].pc = j.pc /\ job'[p].kind = j.kind
        /\ job'[p].linked = j.linked
    BY <2>1 DEF JobType
  <2>3. Writers = {}
    BY <2>2 DEF Alone
  <2>4. ASSUME NEW q \in Procs \ {p}
        PROVE  ~(Busy(q) /\ Modifies(q))'
    <3>1. job'[q] = [job[q] EXCEPT !.alone = @ /\ j.kind = "get"] /\ job[q] \in JobType
      BY <1>1, <1>2 DEF Begin
    <3>2. job'[q].pc = job[q].pc /\ job'[q].kind = job[q].kind
      BY <3>1 DEF JobType
    <3>3. ~(Busy(q) /\ Modifies(q))
      BY <2>3 DEF Writers
    <3> QED
      BY <3>2, <3>3 DEF Busy, Modifies, At
  <2> QED
    BY <2>2, <2>4 DEF Sole
<1>3. PICK d \in Displays : Uninstall(p, d) \/ Get(p, d) \/ \E q \in Profiles : Install(p, d, q)
  BY DEF Call
<1>4. CASE Uninstall(p, d)
  <2> DEFINE j == [NoJob EXCEPT !.pc = "open", !.kind = "uninstall", !.disp = d]
  <2>1. j \in JobType /\ j.pc = "open" /\ j.kind = "uninstall"
    BY NoJobTyped DEF NoJob, JobType, PcValues, Kinds
  <2> HIDE DEF j
  <2>2. Begin(p, j)
    BY <1>4 DEF Uninstall, j
  <2> QED
    BY <1>2, <2>1, <2>2 DEF Progress
<1>5. CASE Get(p, d)
  <2> DEFINE j == [NoJob EXCEPT !.pc = "open", !.disp = d]
  <2>1. j \in JobType /\ j.kind = "get"
    BY NoJobTyped DEF NoJob, JobType, PcValues, Kinds
  <2> HIDE DEF j
  <2>2. Begin(p, j)
    BY <1>5 DEF Get, j
  <2> QED
    BY <1>2, <2>1, <2>2 DEF Alone, Modifies
<1>6. ASSUME NEW q \in Profiles, Install(p, d, q)
      PROVE  Sole(p)' /\ Progress(job[p])'
  <2> DEFINE j == [NoJob EXCEPT !.pc = "copy", !.kind = "install",
                                !.disp = d, !.prof = q, !.linked = TRUE]
  <2>1. j \in JobType /\ j.pc = "copy" /\ j.kind = "install" /\ j.linked = TRUE
    BY NoJobTyped DEF NoJob, JobType, PcValues, Kinds
  <2> HIDE DEF j
  <2>2. Begin(p, j)
    BY <1>6 DEF Install, j
  <2> QED
    BY <1>2, <2>1, <2>2 DEF Progress
<1> QED
  BY <1>3, <1>4, <1>5, <1>6

\* What a writer has renamed is what the next one to open the name reads
LEMMA RenamedVisible ==
    ASSUME TInv, NEW p \in Procs, Rename(p)
    PROVE  Visible' = job[p].keys
<1> DEFINE b == job[p]
<1>1. PICK i \in Fresh :
        /\ dir' = i
        /\ content' = Kept([content EXCEPT ![i] = [whole |-> b.tmp = "whole",
                                                   keys  |-> b.keys]])
  BY DEF Rename, Replace
<1>2. i \in Inodes /\ i # NoInode
  BY NoneAssumption DEF Fresh, Unused
<1> DEFINE c == [content EXCEPT ![i] = [whole |-> b.tmp = "whole", keys  |-> b.keys]]
<1>3. c[i].keys = b.keys
  BY <1>2 DEF TInv, TypeOK
<1> HIDE DEF c
<1>4. content' = Kept(c)
  BY <1>1 DEF c
<1>5. content'[i] = c[i]
  BY <1>1, <1>2, <1>4 DEF Kept
<1> QED
  BY <1>1, <1>2, <1>3, <1>5 DEF Visible

\* A step changes at most one flag of the other jobs
LEMMA OnlyLinked ==
    ASSUME TInv, NEW a \in Procs, NEW q \in Procs \ {a}, Step(a) \/ Kill(a)
    PROVE  job'[q] = job[q] \/ job'[q] = [job[q] EXCEPT !.linked = FALSE]
<1>1. job \in [Procs -> JobType]
  BY DEF TInv, TypeOK
<1> QED
  BY <1>1 DEF Step, Read, CopyProfile, CopyFails, Open, Create, LockBusy,
     LockGivesUp, ReadFails, ReadNothing, ReadProfile, EditInstall, EditUninstall,
     EditDies, UnlinkProfile, NothingToUnlink, UnlinkFails, WriteTemp, Rename, CloseFails,
     Replace, WriteFails, Leave, Kill, Fail, Becomes, Go

\* A writer's own step
LEMMA OwnProgress ==
    ASSUME SInv, NEW p \in Procs, Step(p) \/ Kill(p), Alone(p)'
    PROVE  Sole(p)' /\ Progress(job[p])'
<1> DEFINE b == job[p]
<1>0. /\ TInv /\ job \in [Procs -> JobType] /\ b \in JobType /\ JobInv(b)
      /\ file \in [Profiles -> {"no", "part", "whole"}]
  BY JobFacts DEF SInv, TInv, TypeOK
<1>1. ~(NoJob.pc # "idle")
  BY DEF NoJob
<1>2. job'[p] # NoJob
  BY <1>1 DEF Alone, Busy, At
<1>3. \/ CopyProfile(p) \/ Open(p) \/ Create(p) \/ LockBusy(p) \/ ReadProfile(p)
      \/ EditInstall(p) \/ EditUninstall(p) \/ UnlinkProfile(p) \/ NothingToUnlink(p)
      \/ WriteTemp(p) \/ Rename(p)
  BY <1>0, <1>2 DEF Step, Read, Kill, CopyFails, LockGivesUp, ReadFails, ReadNothing, EditDies,
     UnlinkFails, CloseFails, Replace, WriteFails, Leave, Fail, Becomes
<1>opened. ASSUME Open(p) \/ Create(p)
       PROVE  /\ job'[p].pc \in {"create", "lock"} /\ job'[p].prof = b.prof
              /\ job'[p].alone = b.alone /\ job'[p].kind = b.kind /\ job'[p].disp = b.disp
              /\ b.pc # "copy" /\ UNCHANGED file
  <2>0. b.pc # "copy" /\ UNCHANGED file
    BY <1>opened DEF Open, Create, At
  <2>1. \/ job'[p] = [[b EXCEPT !.fp = dir'] EXCEPT !.pc = "lock"]
        \/ job'[p] = [b EXCEPT !.pc = "create"]
    BY <1>0, <1>2, <1>opened DEF Open, Create
  <2> QED
    BY <1>0, <2>0, <2>1 DEF JobType
<1>4. /\ job'[p].alone = b.alone /\ job'[p].kind = b.kind
      /\ job'[p].disp = b.disp
  <2>1. CASE ReadProfile(p)
    <3>1. job'[p] = [Closed(b) EXCEPT !.prof = ProfileOf(Keys(p), b.disp)]
      BY <1>0, <2>1 DEF ReadProfile, Becomes
    <3>2. Closed(b).alone = b.alone /\ Closed(b).kind = b.kind /\ Closed(b).disp = b.disp
      BY <1>0 DEF Closed, JobType
    <3>3. Closed(b) \in JobType
      BY <1>0, <2>1, ClosedJob DEF ReadProfile, Parses, Locks, At
    <3> QED
      BY <3>1, <3>2, <3>3 DEF JobType
  <2>2. CASE Rename(p)
    <3>1. job'[p] = Closed(b)
      BY <1>0, <2>2 DEF Rename, Replace
    <3> QED
      BY <1>0, <3>1 DEF Closed, JobType
  <2>3. CASE CopyProfile(p)
    BY <1>0, <2>3 DEF CopyProfile, Go, JobType
  <2>busy. CASE LockBusy(p)
    BY <1>0, <2>busy DEF LockBusy, JobType
  <2>4. CASE EditInstall(p) \/ EditUninstall(p)
    BY <1>0, <2>4 DEF EditInstall, EditUninstall, JobType
  <2>5. CASE UnlinkProfile(p) \/ NothingToUnlink(p)
    <3>1. job'[p] = [[b EXCEPT !.pc = "write"] EXCEPT !.tmp = "part"]
      BY <1>0, <2>5 DEF UnlinkProfile, NothingToUnlink
    <3> QED
      BY <1>0, <3>1 DEF JobType
  <2>6. CASE WriteTemp(p)
    BY <1>0, <2>6 DEF WriteTemp, JobType
  <2> QED
    BY <1>3, <1>opened, <2>1, <2>2, <2>3, <2>busy, <2>4, <2>5, <2>6
<1>5. Alone(p)
  <2>1. Busy(p)
    BY <1>3 DEF CopyProfile, Open, Create, LockBusy, ReadProfile, EditInstall, EditUninstall,
       UnlinkProfile, NothingToUnlink, WriteTemp, Rename, Replace, Parses, Locks, Busy, At
  <2> QED
    BY <1>4, <2>1 DEF Alone, Modifies
<1>6. Sole(p) /\ Progress(b) /\ b.kind \in {"install", "uninstall"} /\ b.disp \in Displays
      /\ (b.kind = "install" => b.prof \in Profiles)
  BY <1>0, <1>5 DEF SInv, Alone, Modifies, JobType, Kinds, JobInv, Busy, At
<1>7. Sole(p)'
  <2> SUFFICES ASSUME NEW q \in Procs \ {p}
               PROVE  ~(Busy(q) /\ Modifies(q))'
    BY DEF Sole
  <2>1. job'[q] = job[q] \/ job'[q] = [job[q] EXCEPT !.linked = FALSE]
    BY <1>0, <1>3 DEF CopyProfile, Open, Create, LockBusy, ReadProfile, EditInstall,
       EditUninstall, UnlinkProfile, NothingToUnlink, WriteTemp, Rename, Replace, Becomes, Go
  <2>2. job'[q].pc = job[q].pc /\ job'[q].kind = job[q].kind
    BY <1>0, <2>1 DEF JobType
  <2>3. ~(Busy(q) /\ Modifies(q))
    BY <1>6 DEF Sole
  <2> QED
    BY <2>2, <2>3 DEF Busy, Modifies, At
<1> DEFINE j == job'[p]
<1>8. CASE CopyProfile(p)
  <2>1. j = [b EXCEPT !.pc = "open"] /\ b.pc = "copy"
    BY <1>0, <1>8 DEF CopyProfile, Go, At
  <2>2. j.pc = "open" /\ j.kind = "install" /\ j.prof = b.prof /\ b.prof \in Profiles
    BY <1>0, <1>6, <2>1 DEF JobType, JobInv
  <2>3. file'[b.prof] = "whole"
    BY <1>0, <1>6, <1>8, <2>1, <2>2 DEF CopyProfile, Progress
  <2> QED
    BY <1>7, <2>2, <2>3 DEF Progress
<1>9. CASE Open(p) \/ Create(p) \/ LockBusy(p)
  <2>1. j.pc \in {"create", "lock"} /\ j.prof = b.prof /\ b.pc # "copy" /\ UNCHANGED file
    <3>1. CASE LockBusy(p)
      BY <1>0, <3>1 DEF LockBusy, At, JobType
    <3> QED
      BY <1>9, <1>opened, <3>1
  <2> QED
    BY <1>4, <1>6, <1>7, <2>1 DEF Progress
<1>10. CASE EditInstall(p)
  <2>1. /\ j.pc = "unlink" /\ j.prof = b.prof /\ b.pc = "lock" /\ UNCHANGED file
        /\ j.keys = SetKeys(Keys(p), b.disp, b.prof) /\ b.kind = "install"
    BY <1>0, <1>10 DEF EditInstall, Parses, Locks, At, JobType
  <2>2. Keys(p) \in Seq(Records) /\ Unique(Keys(p))
    BY <1>0, <2>1, OpenFacts DEF At
  <2>3. Has(j.keys, b.disp) /\ ProfileOf(j.keys, b.disp) = b.prof
    BY <1>6, <2>1, <2>2, SetKeysSound
  <2> QED
    BY <1>4, <1>6, <1>7, <2>1, <2>3 DEF Progress, Achieved
<1>11. CASE EditUninstall(p)
  <2>1. /\ j.pc = "unlink" /\ b.pc = "lock" /\ b.kind = "uninstall"
        /\ j.keys = DeleteKeys(Keys(p), b.disp) /\ Has(Keys(p), b.disp)
        /\ j.xprofile = ProfileOf(Keys(p), b.disp)
    BY <1>0, <1>11 DEF EditUninstall, Parses, Locks, At, JobType
  <2>2. Keys(p) \in Seq(Records) /\ Unique(Keys(p))
    BY <1>0, <2>1, OpenFacts DEF At
  <2>3. ~Has(j.keys, b.disp) /\ j.xprofile \in Profiles
    BY <1>6, <2>1, <2>2, DeleteKeysSound, ProfileIsOne
  <2> QED
    BY <1>4, <1>7, <2>1, <2>3 DEF Progress, Achieved
<1>12. CASE UnlinkProfile(p)
  <2>1. /\ j.pc = "write" /\ j.prof = b.prof /\ j.keys = b.keys /\ j.xprofile = b.xprofile
        /\ b.pc = "unlink" /\ file' = [file EXCEPT ![b.xprofile] = "no"]
        /\ b.xprofile \notin Named(b.keys)
    BY <1>0, <1>12 DEF UnlinkProfile, Unneeded, At, JobType
  <2>2. Achieved(b, b.keys)
    BY <1>6, <2>1 DEF Progress
  <2>3. b.kind = "install" => b.prof # b.xprofile
    BY <2>1, <2>2, PlaceIs DEF Achieved, ProfileOf, Named
  <2>4. b.kind = "install" => file'[b.prof] = "whole"
    BY <1>0, <1>6, <2>1, <2>3 DEF Progress
  <2>5. b.kind = "uninstall" => b.xprofile \in Profiles /\ file'[b.xprofile] = "no"
    BY <1>0, <1>6, <2>1 DEF Progress
  <2> QED
    BY <1>4, <1>7, <2>1, <2>2, <2>4, <2>5 DEF Progress, Achieved, Cleared
<1>13. CASE NothingToUnlink(p)
  <2>1. /\ j.pc = "write" /\ j.prof = b.prof /\ j.keys = b.keys /\ j.xprofile = b.xprofile
        /\ b.pc = "unlink" /\ UNCHANGED file
    BY <1>0, <1>13 DEF NothingToUnlink, At, JobType
  <2>2. b.kind = "uninstall" => b.xprofile \in Named(b.keys)
    BY <1>6, <1>13, <2>1, NoneAssumption DEF NothingToUnlink, Unneeded, Progress
  <2> QED
    BY <1>4, <1>6, <1>7, <2>1, <2>2 DEF Progress, Achieved, Cleared
<1>14. CASE WriteTemp(p)
  <2>1. /\ j.pc = "rename" /\ j.prof = b.prof /\ j.keys = b.keys /\ j.xprofile = b.xprofile
        /\ b.pc = "write" /\ UNCHANGED file
    BY <1>0, <1>14 DEF WriteTemp, At, JobType
  <2> QED
    BY <1>4, <1>6, <1>7, <2>1 DEF Progress, Achieved, Cleared
<1>15. CASE Rename(p)
  <2>1. j = Closed(b) /\ b.pc = "rename" /\ UNCHANGED file
    BY <1>0, <1>15 DEF Rename, Replace, At
  <2>2. j.pc = "ok" /\ j.prof = b.prof /\ j.xprofile = b.xprofile
    BY <1>0, <2>1 DEF Closed, JobType
  <2>3. Visible' = b.keys
    BY <1>0, <1>15, RenamedVisible
  <2>4. Achieved(b, b.keys) /\ Cleared(b, b.keys)
    BY <1>6, <2>1 DEF Progress
  <2> QED
    BY <1>4, <1>6, <1>7, <2>1, <2>2, <2>3, <2>4 DEF Progress, Achieved, Cleared
<1>16. CASE ReadProfile(p)
  BY <1>6, <1>16 DEF ReadProfile
<1> QED
  BY <1>3, <1>8, <1>9, <1>10, <1>11, <1>12, <1>13, <1>14, <1>15, <1>16

\* No process moves another on
LEMMA OtherJobs ==
    ASSUME TInv, NEW a \in Procs, NEW q \in Procs \ {a}, Call(a) \/ Step(a) \/ Kill(a)
    PROVE  job'[q].pc = job[q].pc /\ job'[q].kind = job[q].kind
<1>1. job \in [Procs -> JobType] /\ job[q] \in JobType
  BY DEF TInv, TypeOK
<1>2. CASE Call(a)
  <2>1. \E g \in BOOLEAN : job'[q] = [job[q] EXCEPT !.alone = @ /\ g]
    BY <1>2 DEF Call, Uninstall, Get, Install, Begin
  <2> QED
    BY <1>1, <2>1 DEF JobType
<1>3. CASE Step(a) \/ Kill(a)
  <2>1. job'[q] = job[q] \/ job'[q] = [job[q] EXCEPT !.linked = FALSE]
    BY <1>3, OnlyLinked
  <2> QED
    BY <1>1, <2>1 DEF JobType
<1> QED
  BY <1>2, <1>3

\* It starts with no writer.
LEMMA InitSInv == Init => SInv
<1>1. Init => \A p \in Procs : ~Busy(p)
  BY DEF Init, NoJob, Busy, At
<1> QED
  BY <1>1, InitTInv DEF SInv, Alone

\* Steps of a sole writer keep to its progress, those of others do not reach it.
LEMMA NextSInv == SInv /\ [Next]_vars => SInv'
<1> SUFFICES ASSUME SInv, [Next]_vars PROVE SInv'
  OBVIOUS
<1>1. TInv /\ TInv'
  BY NextTInv DEF SInv
<1>2. CASE UNCHANGED vars
  BY <1>1, <1>2 DEF vars, SInv, Alone, Sole, Progress, Achieved, Cleared, Visible, Busy,
     Modifies, At
<1>3. ASSUME NEW a \in Procs, Call(a) \/ Step(a) \/ Kill(a), NEW p \in Procs, Alone(p)'
      PROVE  Sole(p)' /\ Progress(job[p])'
  <2>1. CASE p = a
    BY <1>3, <2>1, BeginProgress, OwnProgress
  <2>2. CASE p # a
    <3>1. /\ Alone(p) /\ job'[p] = job[p] /\ UNCHANGED file /\ Visible' = Visible
          /\ ~(Busy(a) /\ Modifies(a))'
      BY <1>3, <2>2, OthersHarmless
    <3>2. Sole(p) /\ Progress(job[p])
      BY <3>1 DEF SInv
    <3>3. Progress(job[p])'
      BY <3>1, <3>2 DEF Progress, Achieved, Cleared
    <3>4. ASSUME NEW q \in Procs \ {p}
          PROVE  ~(Busy(q) /\ Modifies(q))'
      <4>1. CASE q = a
        BY <3>1, <4>1
      <4>2. CASE q # a
        <5>1. job'[q].pc = job[q].pc /\ job'[q].kind = job[q].kind
          BY <1>1, <1>3, <4>2, OtherJobs
        <5>2. ~(Busy(q) /\ Modifies(q))
          BY <3>2 DEF Sole
        <5> QED
          BY <5>1, <5>2 DEF Busy, Modifies, At
      <4> QED
        BY <4>1, <4>2
    <3> QED
      BY <3>3, <3>4 DEF Sole
  <2> QED
    BY <2>1, <2>2
<1> QED
  BY <1>1, <1>2, <1>3 DEF SInv, Next

\* An install that met no other writer has the display associated with its
\* profile, and the profile whole, when it returns ucmm_ok
\* (ucmm_install_monitor_profile), whatever was killed or failed before.
THEOREM InstallAlwaysSound == Spec => []InstallSound
<1>1. SInv => InstallSound
  BY DEF SInv, InstallSound, Alone, Progress, Achieved, Busy, Modifies, At
<1> QED
  BY InitSInv, NextSInv, <1>1, PTL DEF Spec

\* An uninstall that met no other writer has removed the association, and the
\* profile unless another display has it (ucmm_uninstall_monitor_profile).
THEOREM UninstallAlwaysSound == Spec => []UninstallSound
<1>1. SInv => UninstallSound
  BY DEF SInv, UninstallSound, Alone, Progress, Achieved, Cleared, Busy, Modifies, At
<1> QED
  BY InitSInv, NextSInv, <1>1, PTL DEF Spec

(***************************************************************************)
(* The profile files and the configuration that names them                 *)
(***************************************************************************)

\* A profile is there, and whole, exactly if keys name it
Matches(keys, q) == file[q] = IF q \in Named(keys) THEN "whole" ELSE "no"

\* How far the files match while a writer that met no other is at work: all but
\* the profile being copied, or the one about to be unlinked
MatchAt(j) ==
    /\ j.pc \in {"copy", "open", "create", "lock", "ok"} =>
           \A q \in Profiles : \/ Matches(Visible, q)
                               \/ j.kind = "install" /\ j.pc # "ok" /\ q = j.prof
    /\ j.pc = "create" => dir = NoInode
    /\ j.pc = "lock" => j.fp = dir
    /\ j.pc = "unlink" =>
           \A q \in Profiles : \/ Matches(j.keys, q)
                               \/ q = j.xprofile /\ q \notin Named(j.keys)
    /\ j.pc \in {"write", "rename"} => \A q \in Profiles : Matches(j.keys, q)

Writes(p) == Busy(p) /\ Modifies(p)
Reads(p)  == Busy(p) /\ ~Modifies(p)

WritersMatch == ~marred => \A p \in Procs : Writes(p) => job[p].alone /\ MatchAt(job[p])

RestMatch == ~marred /\ Writers = {} => \A q \in Profiles : Matches(Visible, q)

\* A reader that met no writer has read the configuration that is there
ReadersMatch ==
    \A p \in Procs : Reads(p) /\ job[p].alone =>
        /\ Writers = {}
        /\ At(p, "lock") => job[p].fp = dir
        /\ At(p, "ok") => /\ Has(Visible, job[p].disp)
                          /\ ProfileOf(Visible, job[p].disp) = job[p].prof

FInv == SInv /\ WritersMatch /\ RestMatch /\ ReadersMatch

\* A reader's step reaches nothing that is shared
LEMMA ReaderStep ==
    ASSUME TInv, NEW a \in Procs, Step(a) \/ Kill(a), Reads(a)
    PROVE  /\ \A q \in Procs \ {a} : job'[q] = job[q]
           /\ UNCHANGED <<file, dir>> /\ Visible' = Visible /\ ~Writes(a)'
           /\ marred' = marred
<1>1. /\ job[a] \in JobType /\ JobInv(job[a]) /\ job \in [Procs -> JobType]
      /\ Busy(a) /\ job[a].kind = "get" /\ ~Modifies(a)
  BY JobFacts DEF Reads, Modifies, TInv, TypeOK
<1>2. job[a].pc \notin {"copy", "create", "unlink", "write", "rename"}
  BY <1>1 DEF JobInv
<1>3. \/ Open(a) \/ LockBusy(a) \/ LockGivesUp(a) \/ ReadFails(a) \/ ReadNothing(a)
      \/ ReadProfile(a) \/ Leave(a) \/ Kill(a)
  BY <1>1, <1>2 DEF Step, Read, CopyProfile, CopyFails, Create, EditInstall,
     EditUninstall, EditDies, UnlinkProfile, NothingToUnlink, UnlinkFails, WriteTemp,
     Rename, CloseFails, Replace, WriteFails, At
<1>4. /\ \A q \in Procs \ {a} : job'[q] = job[q]
      /\ UNCHANGED <<file, dir>>
      /\ content' = content \/ content' = Kept(content)
      /\ marred' = marred
  <2>1. marred \in BOOLEAN
    BY DEF TInv, TypeOK
  <2> QED
    BY <1>1, <1>3, <2>1 DEF Open, LockBusy, LockGivesUp, ReadFails, ReadNothing, ReadProfile,
       Leave, Kill, Fail, Becomes
<1>5. job'[a].kind = "get"
  <2>1. NoJob.kind = "get" /\ Closed(job[a]).kind = "get"
    BY <1>1 DEF NoJob, Closed, JobType
  <2>2. CASE ReadProfile(a)
    <3>1. job'[a] = [Closed(job[a]) EXCEPT !.prof = ProfileOf(Keys(a), job[a].disp)]
      BY <1>1, <2>2 DEF ReadProfile, Becomes
    <3>2. Closed(job[a]) \in JobType
      BY <1>1, ClosedJob DEF Busy, At
    <3> QED
      BY <2>1, <3>1, <3>2 DEF JobType
  <2>3. CASE Open(a) \/ LockBusy(a)
    BY <1>1, <2>1, <2>3 DEF Open, LockBusy, JobType
  <2>4. CASE LockGivesUp(a) \/ ReadFails(a) \/ ReadNothing(a) \/ Leave(a) \/ Kill(a)
    BY <1>1, <2>1, <2>4 DEF LockGivesUp, ReadFails, ReadNothing, Leave, Kill, Fail, Becomes
  <2> QED
    BY <1>3, <2>2, <2>3, <2>4
<1> QED
  BY <1>4, <1>5, VisibleKept DEF Writes, Modifies

\* What an operation that begins does to the others
LEMMA Begins ==
    ASSUME TInv, NEW a \in Procs, Call(a)
    PROVE  /\ ~Busy(a) /\ Busy(a)' /\ job'[a].alone = (Writers = {})
           /\ UNCHANGED <<dir, content>> /\ job'[a].pc \in {"copy", "open"}
           /\ \A q \in Procs \ {a} : /\ job'[q].alone => job[q].alone /\ ~Writes(a)'
                                     /\ ~Writes(a)' => job'[q] = job[q]
                                     /\ job'[q] = [job[q] EXCEPT !.alone = job'[q].alone]
           /\ marred' = (marred \/ (Writes(a)' /\ Writers # {}))
           /\ job'[a].pc = "copy" => job'[a].kind = "install" /\ job'[a].prof \in Profiles
                                     /\ file' = [file EXCEPT ![job'[a].prof] = "part"]
           /\ job'[a].pc # "copy" => UNCHANGED file
<1>1. job \in [Procs -> JobType] /\ marred \in BOOLEAN
  BY DEF TInv, TypeOK
<1>2. ASSUME NEW j \in JobType, Begin(a, j), j.pc \in {"copy", "open"}
      PROVE  /\ ~Busy(a) /\ Busy(a)' /\ job'[a].alone = (Writers = {})
             /\ job'[a].pc = j.pc /\ job'[a].kind = j.kind /\ job'[a].prof = j.prof
             /\ \A q \in Procs \ {a} : /\ job'[q].alone => job[q].alone /\ ~Writes(a)'
                                       /\ ~Writes(a)' => job'[q] = job[q]
                                       /\ job'[q] = [job[q] EXCEPT !.alone = job'[q].alone]
             /\ marred' = (marred \/ (Writes(a)' /\ Writers # {}))
  <2>1. job'[a] = [j EXCEPT !.alone = (Writers = {})]
    BY <1>2 DEF Begin
  <2>2. /\ job'[a].alone = (Writers = {}) /\ job'[a].pc = j.pc /\ job'[a].kind = j.kind
        /\ job'[a].prof = j.prof
    BY <2>1 DEF JobType
  <2>3. Busy(a)' /\ (Writes(a)' <=> j.kind # "get") /\ ~Busy(a)
    BY <1>2, <2>2 DEF Busy, Writes, Modifies, At, Begin
  <2>4. ASSUME NEW q \in Procs \ {a}
        PROVE  /\ job'[q].alone => job[q].alone /\ ~Writes(a)'
               /\ ~Writes(a)' => job'[q] = job[q]
               /\ job'[q] = [job[q] EXCEPT !.alone = job'[q].alone]
    <3>1. job'[q] = [job[q] EXCEPT !.alone = @ /\ j.kind = "get"] /\ job[q] \in JobType
      BY <1>1, <1>2 DEF Begin
    <3>2. job'[q].alone = (job[q].alone /\ j.kind = "get")
      BY <3>1 DEF JobType
    <3>3. j.kind = "get" => job'[q] = job[q]
      BY <3>1 DEF JobType
    <3> QED
      BY <2>3, <3>1, <3>2, <3>3
  <2>5. marred' = (marred \/ (Writes(a)' /\ Writers # {}))
    BY <1>1, <1>2, <2>3 DEF Begin
  <2> QED
    BY <2>2, <2>3, <2>4, <2>5
<1>3. PICK d \in Displays : Uninstall(a, d) \/ Get(a, d) \/ \E q \in Profiles : Install(a, d, q)
  BY DEF Call
<1>4. CASE Uninstall(a, d)
  <2> DEFINE j == [NoJob EXCEPT !.pc = "open", !.kind = "uninstall", !.disp = d]
  <2>1. j \in JobType /\ j.pc = "open"
    BY NoJobTyped DEF NoJob, JobType, PcValues, Kinds
  <2> HIDE DEF j
  <2>2. Begin(a, j) /\ UNCHANGED <<dir, content, file>>
    BY <1>4 DEF Uninstall, j
  <2> QED
    BY <1>2, <2>1, <2>2
<1>5. CASE Get(a, d)
  <2> DEFINE j == [NoJob EXCEPT !.pc = "open", !.disp = d]
  <2>1. j \in JobType /\ j.pc = "open"
    BY NoJobTyped DEF NoJob, JobType, PcValues, Kinds
  <2> HIDE DEF j
  <2>2. Begin(a, j) /\ UNCHANGED <<dir, content, file>>
    BY <1>5 DEF Get, j
  <2> QED
    BY <1>2, <2>1, <2>2
<1>6. ASSUME NEW q \in Profiles, Install(a, d, q)
      PROVE  /\ ~Busy(a) /\ Busy(a)' /\ job'[a].alone = (Writers = {})
             /\ UNCHANGED <<dir, content>> /\ job'[a].pc = "copy" /\ job'[a].kind = "install"
             /\ job'[a].prof = q
             /\ \A o \in Procs \ {a} : /\ job'[o].alone => job[o].alone /\ ~Writes(a)'
                                       /\ ~Writes(a)' => job'[o] = job[o]
                                       /\ job'[o] = [job[o] EXCEPT !.alone = job'[o].alone]
             /\ marred' = (marred \/ (Writes(a)' /\ Writers # {}))
             /\ file' = [file EXCEPT ![q] = "part"]
  <2> DEFINE j == [NoJob EXCEPT !.pc = "copy", !.kind = "install",
                                !.disp = d, !.prof = q, !.linked = TRUE]
  <2>1. j \in JobType /\ j.pc = "copy" /\ j.kind = "install" /\ j.prof = q
    BY NoJobTyped DEF NoJob, JobType, PcValues, Kinds
  <2> HIDE DEF j
  <2>2. Begin(a, j) /\ UNCHANGED <<dir, content>> /\ file' = [file EXCEPT ![q] = "part"]
    BY <1>6 DEF Install, j
  <2> QED
    BY <1>2, <2>1, <2>2
<1> QED
  BY <1>3, <1>4, <1>5, <1>6

\* Who else writes does not change with a step of a
LEMMA OtherWriters ==
    ASSUME TInv, NEW a \in Procs, Call(a) \/ Step(a) \/ Kill(a)
    PROVE  /\ \A q \in Procs \ {a} : Writes(q)' <=> Writes(q)
           /\ Writers' = {} <=> ~Writes(a)' /\ \A q \in Procs \ {a} : ~Writes(q)
<1>1. \A q \in Procs \ {a} : Writes(q)' <=> Writes(q)
  BY OtherJobs DEF Writes, Busy, Modifies, At
<1>2. Writers' = {} <=> \A q \in Procs : ~Writes(q)'
  BY DEF Writers, Writes
<1> QED
  BY <1>1, <1>2

\* A call and a return leave the files matching,
LEMMA CallMatch ==
    ASSUME FInv, NEW a \in Procs, Call(a)
    PROVE  WritersMatch' /\ RestMatch' /\ ReadersMatch'
<1>1. TInv /\ job \in [Procs -> JobType] /\ file \in [Profiles -> {"no", "part", "whole"}]
  BY DEF FInv, SInv, TInv, TypeOK
<1>2. /\ ~Busy(a) /\ Busy(a)' /\ job'[a].alone = (Writers = {})
      /\ UNCHANGED <<dir, content>> /\ job'[a].pc \in {"copy", "open"}
      /\ \A q \in Procs \ {a} : /\ job'[q].alone => job[q].alone /\ ~Writes(a)'
                                /\ ~Writes(a)' => job'[q] = job[q]
      /\ marred' = (marred \/ (Writes(a)' /\ Writers # {}))
      /\ job'[a].pc = "copy" => job'[a].kind = "install" /\ job'[a].prof \in Profiles
                                /\ file' = [file EXCEPT ![job'[a].prof] = "part"]
      /\ job'[a].pc # "copy" => UNCHANGED file
  BY <1>1, Begins
<1>3. /\ \A q \in Procs \ {a} : Writes(q)' <=> Writes(q)
      /\ Writers' = {} <=> ~Writes(a)' /\ \A q \in Procs \ {a} : ~Writes(q)
      /\ Writers = {} <=> \A q \in Procs \ {a} : ~Writes(q)
  BY <1>1, <1>2, OtherWriters DEF Writers, Writes
<1>4. Visible' = Visible
  BY <1>2 DEF Visible
<1>5. ~Writes(a)' => UNCHANGED file
  BY <1>2 DEF Writes, Modifies
<1>6. ASSUME NEW p \in Procs, ~marred', Writes(p)'
      PROVE  job'[p].alone /\ MatchAt(job[p])'
  <2>1. CASE p = a
    <3>1. Writers = {} /\ ~marred
      BY <1>2, <1>6, <2>1
    <3>2. \A q \in Profiles : Matches(Visible, q)
      BY <3>1 DEF FInv, RestMatch
    <3>3. \A q \in Profiles : Matches(Visible, q)' \/ (job'[a].pc = "copy" /\ q = job'[a].prof)
      BY <1>1, <1>2, <1>4, <3>2 DEF Matches
    <3> QED
      BY <1>2, <2>1, <3>1, <3>3 DEF MatchAt
  <2>2. CASE p # a
    <3>1. Writes(p) /\ ~Writes(a)' /\ ~marred
      BY <1>2, <1>3, <1>6, <2>2
    <3>2. job'[p] = job[p] /\ UNCHANGED <<file, dir>>
      BY <1>2, <1>5, <2>2, <3>1
    <3>3. job[p].alone /\ MatchAt(job[p])
      BY <3>1 DEF FInv, WritersMatch
    <3> QED
      BY <1>4, <3>2, <3>3 DEF MatchAt, Matches
  <2> QED
    BY <2>1, <2>2
<1>7. RestMatch'
  <2> SUFFICES ASSUME ~marred', Writers' = {}
               PROVE  \A q \in Profiles : Matches(Visible, q)'
    BY DEF RestMatch
  <2>1. UNCHANGED file /\ Writers = {} /\ ~marred
    BY <1>2, <1>3, <1>5
  <2> QED
    BY <1>4, <2>1 DEF FInv, RestMatch, Matches
<1>8. ASSUME NEW p \in Procs, Reads(p)', job'[p].alone
      PROVE  /\ Writers' = {}
             /\ At(p, "lock")' => job'[p].fp = dir'
             /\ At(p, "ok")' => Has(Visible', job'[p].disp)
                                /\ ProfileOf(Visible', job'[p].disp) = job'[p].prof
  <2>1. CASE p = a
    BY <1>2, <1>3, <1>8, <2>1 DEF Reads, Writes, At
  <2>2. CASE p # a
    <3>1. job[p].alone /\ ~Writes(a)' /\ job'[p] = job[p]
      BY <1>2, <1>8, <2>2
    <3>2. Reads(p)
      BY <1>8, <3>1 DEF Reads, Busy, Modifies, At
    <3>3. /\ Writers = {}
          /\ At(p, "lock") => job[p].fp = dir
          /\ At(p, "ok") => Has(Visible, job[p].disp)
                            /\ ProfileOf(Visible, job[p].disp) = job[p].prof
      BY <3>1, <3>2 DEF FInv, ReadersMatch
    <3>4. Writers' = {}
      BY <1>3, <3>1, <3>3
    <3> QED
      BY <1>2, <1>4, <3>1, <3>3, <3>4 DEF At
  <2> QED
    BY <2>1, <2>2
<1> QED
  BY <1>6, <1>7, <1>8 DEF WritersMatch, ReadersMatch

\* A reader's own step: it reads the file that has the name
LEMMA ReaderMatch ==
    ASSUME FInv, NEW a \in Procs, Step(a) \/ Kill(a), Reads(a), Reads(a)', job'[a].alone
    PROVE  /\ job[a].alone
           /\ At(a, "lock")' => job'[a].fp = dir'
           /\ At(a, "ok")' => /\ Has(Visible', job'[a].disp)
                              /\ ProfileOf(Visible', job'[a].disp) = job'[a].prof
<1> DEFINE b == job[a]
<1>1. /\ TInv /\ b \in JobType /\ JobInv(b) /\ job \in [Procs -> JobType]
      /\ Busy(a) /\ b.kind = "get" /\ ~Modifies(a)
  BY JobFacts DEF Reads, Modifies, FInv, SInv, TInv, TypeOK
<1>2. b.pc \notin {"copy", "create", "unlink", "write", "rename"}
  BY <1>1 DEF JobInv
<1>3. job'[a] # NoJob
  BY DEF Reads, Busy, At, NoJob
<1>4. Open(a) \/ LockBusy(a) \/ ReadProfile(a)
  BY <1>1, <1>2, <1>3 DEF Step, Read, CopyProfile, CopyFails, Create, EditInstall,
     EditUninstall, EditDies, UnlinkProfile, NothingToUnlink, UnlinkFails, WriteTemp,
     Rename, CloseFails, Replace, WriteFails, At, LockGivesUp, ReadFails, ReadNothing,
     Leave, Kill, Fail, Becomes
<1>5. Visible' = Visible /\ dir' = dir
  BY <1>1, ReaderStep
<1>6. CASE Open(a)
  <2>1. job'[a] = [[b EXCEPT !.fp = dir] EXCEPT !.pc = "lock"]
    BY <1>1, <1>3, <1>6 DEF Open
  <2>2. job'[a].pc = "lock" /\ job'[a].fp = dir /\ job'[a].alone = b.alone
    BY <1>1, <2>1 DEF JobType
  <2> QED
    BY <1>5, <2>2 DEF At
<1>7. CASE LockBusy(a)
  <2>1. /\ b.pc = "lock" /\ job'[a].pc = "lock" /\ job'[a].fp = b.fp
        /\ job'[a].alone = b.alone
    BY <1>1, <1>7 DEF LockBusy, At, JobType
  <2>2. b.fp = dir
    BY <2>1 DEF FInv, ReadersMatch, At
  <2> QED
    BY <1>5, <2>1, <2>2 DEF At
<1>8. CASE ReadProfile(a)
  <2> DEFINE j == Closed(b)
             x == ProfileOf(Keys(a), b.disp)
  <2>1. /\ job'[a] = [j EXCEPT !.prof = x] /\ Has(Keys(a), b.disp) /\ b.pc = "lock"
    BY <1>1, <1>8 DEF ReadProfile, Becomes, Parses, Locks, At
  <2>2. /\ j \in JobType /\ j.disp = b.disp /\ j.alone = b.alone /\ j.pc = "ok"
    <3>1. j.alone = b.alone /\ j.pc = "ok"
      BY <1>1 DEF Closed, JobType
    <3> QED
      BY <1>1, <2>1, <3>1, ClosedJob
  <2> HIDE DEF j, x
  <2>3. /\ job'[a].pc = "ok" /\ job'[a].disp = b.disp /\ job'[a].alone = b.alone
        /\ job'[a].prof = x
    BY <2>1, <2>2 DEF JobType
  <2>4. b.fp = dir /\ b.fp \in Inodes
    BY <1>1, <2>1, <2>3, OpenFacts DEF FInv, ReadersMatch, At
  <2>5. Keys(a) = Visible
    BY <2>4, NoneAssumption DEF Keys, Visible
  <2> QED
    BY <1>5, <2>1, <2>3, <2>5 DEF x, At
<1> QED
  BY <1>4, <1>6, <1>7, <1>8

\* A writer's own step keeps the files matching, as far as it has come
LEMMA WriterMatch ==
    ASSUME FInv, NEW a \in Procs, Step(a) \/ Kill(a), Writes(a), ~marred'
    PROVE  /\ ~marred
           /\ Writes(a)' => job'[a].alone /\ MatchAt(job[a])'
           /\ ~Writes(a)' => \A q \in Profiles : Matches(Visible, q)'
<1> DEFINE b == job[a]
           j == job'[a]
           All(keys) == \A q \in Profiles : Matches(keys, q)
<1>0. /\ TInv /\ TInv' /\ job \in [Procs -> JobType] /\ b \in JobType /\ JobInv(b)
      /\ file \in [Profiles -> {"no", "part", "whole"}] /\ marred \in BOOLEAN
      /\ Modifies(a) /\ b.kind \in {"install", "uninstall"} /\ dir \in Inodes \union {NoInode}
  BY JobFacts, NextTInv DEF FInv, SInv, TInv, TypeOK, Next, Writes, Modifies, JobType, Kinds
<1>1. \/ CopyProfile(a) \/ Open(a) \/ Create(a) \/ LockBusy(a) \/ ReadNothing(a)
      \/ EditInstall(a) \/ EditUninstall(a) \/ EditDies(a) \/ UnlinkProfile(a)
      \/ NothingToUnlink(a) \/ WriteTemp(a) \/ Rename(a) \/ Leave(a)
  BY <1>0 DEF Step, Read, Kill, CopyFails, LockGivesUp, ReadFails, UnlinkFails, CloseFails,
     WriteFails, Fail, ReadProfile, Modifies
<1>2. ~marred
  BY <1>1 DEF CopyProfile, Open, Create, LockBusy, ReadNothing, EditInstall, EditUninstall,
     EditDies, UnlinkProfile, NothingToUnlink, WriteTemp, Rename, Leave
<1>3. b.alone /\ MatchAt(b) /\ Progress(b)
  BY <1>0, <1>2 DEF FInv, SInv, WritersMatch, Alone, Writes
<1>4. CASE CopyProfile(a)
  <2>1. /\ j = [b EXCEPT !.pc = "open"] /\ b.pc = "copy" /\ b.linked /\ UNCHANGED <<dir, content>>
        /\ file' = [file EXCEPT ![b.prof] = "whole"]
    BY <1>0, <1>3, <1>4 DEF CopyProfile, Go, At, Progress
  <2>2. j.pc = "open" /\ j.kind = "install" /\ j.prof = b.prof /\ j.alone /\ b.kind = "install"
    BY <1>0, <1>3, <2>1 DEF JobType, JobInv
  <2>3. Visible' = Visible
    BY <2>1 DEF Visible
  <2>4. \A q \in Profiles : Matches(Visible, q)' \/ q = j.prof
    BY <1>0, <1>3, <2>1, <2>2, <2>3 DEF MatchAt, Matches
  <2>5. Writes(a)'
    BY <2>2 DEF Writes, Busy, Modifies, At
  <2> QED
    BY <1>2, <2>2, <2>4, <2>5 DEF MatchAt
<1>5. CASE Open(a) \/ Create(a) \/ LockBusy(a)
  <2>1. /\ b.pc \in {"open", "create", "lock"} /\ UNCHANGED file
        /\ \/ j = [[b EXCEPT !.fp = dir'] EXCEPT !.pc = "lock"]
           \/ b.pc = "open" /\ dir' = NoInode /\ j = [b EXCEPT !.pc = "create"]
           \/ b.pc = "lock" /\ dir' = dir /\ j = [b EXCEPT !.tries = @ + 1]
    BY <1>0, <1>5 DEF Open, Create, LockBusy, At
  <2>2. /\ j.kind = b.kind /\ j.prof = b.prof /\ j.alone
        /\ \/ j.pc = "lock" /\ j.fp = dir'
           \/ j.pc = "create" /\ dir' = NoInode
    <3>1. CASE j = [[b EXCEPT !.fp = dir'] EXCEPT !.pc = "lock"]
      BY <1>0, <1>3, <3>1 DEF JobType
    <3>2. CASE dir' = NoInode /\ j = [b EXCEPT !.pc = "create"]
      BY <1>0, <1>3, <3>2 DEF JobType
    <3>3. CASE b.pc = "lock" /\ dir' = dir /\ j = [b EXCEPT !.tries = @ + 1]
      <4>1. b.fp = dir
        BY <1>3, <3>3 DEF MatchAt
      <4> QED
        BY <1>0, <1>3, <3>3, <4>1 DEF JobType
    <3> QED
      BY <2>1, <3>1, <3>2, <3>3
  <2>3. Visible' = Visible
    <3>1. CASE Create(a)
      <4>1. b.pc = "create" /\ dir = NoInode
        BY <1>3, <3>1 DEF Create, At, MatchAt
      <4>2. dir' \in Inodes /\ dir' # NoInode /\ content'[dir'] = Empty
        BY <1>0, <3>1, <4>1, NoneAssumption DEF Create, Fresh, Unused, TInv, TypeOK
      <4> QED
        BY <4>1, <4>2 DEF Visible, Empty
    <3>2. CASE Open(a) \/ LockBusy(a)
      BY <3>2 DEF Open, LockBusy, Visible
    <3> QED
      BY <1>5, <3>1, <3>2
  <2>4. \A q \in Profiles : Matches(Visible, q)' \/ (j.kind = "install" /\ q = j.prof)
    BY <1>3, <2>1, <2>2, <2>3 DEF MatchAt, Matches
  <2>5. Writes(a)'
    BY <1>0, <2>2 DEF Writes, Busy, Modifies, At
  <2> QED
    BY <1>2, <2>2, <2>4, <2>5 DEF MatchAt
<1>6. CASE ReadNothing(a) \/ EditDies(a) \/ Leave(a)
  <2>1. /\ b.pc \in {"lock", "ok"} /\ (b.pc = "lock" => b.kind # "install")
        /\ j = NoJob /\ UNCHANGED <<file, dir>>
        /\ content' = content \/ content' = Kept(content)
    BY <1>0, <1>6 DEF ReadNothing, EditDies, Leave, Parses, Locks, At, Becomes
  <2>2. Visible' = Visible
    BY <1>0, <2>1, VisibleKept
  <2>3. ~Writes(a)'
    BY <2>1 DEF Writes, Busy, At, NoJob
  <2> QED
    BY <1>2, <1>3, <2>1, <2>2, <2>3 DEF MatchAt, Matches
<1>7. ASSUME At(a, "lock")
      PROVE  /\ Keys(a) = Visible /\ Keys(a) \in Seq(Records) /\ Unique(Keys(a))
             /\ b.disp \in Displays
  <2>1. b.fp = dir /\ b.fp \in Inodes
    BY <1>0, <1>3, <1>7, OpenFacts DEF MatchAt, At
  <2>2. Keys(a) = Visible
    BY <2>1, NoneAssumption DEF Keys, Visible
  <2> QED
    BY <1>0, <1>7, <2>2, OpenFacts DEF JobInv, At
<1>8. CASE EditInstall(a)
  <2>1. /\ j.pc = "unlink" /\ j.prof = b.prof /\ b.pc = "lock" /\ UNCHANGED file
        /\ j.keys = SetKeys(Keys(a), b.disp, b.prof) /\ b.kind = "install" /\ j.alone
        /\ j.xprofile = OldProfile(Keys(a), b.disp) /\ j.kind = b.kind
    BY <1>0, <1>3, <1>8 DEF EditInstall, Parses, Locks, At, JobType
  <2>2. Keys(a) = Visible /\ Keys(a) \in Seq(Records) /\ Unique(Keys(a)) /\ b.disp \in Displays
        /\ b.prof \in Profiles /\ file[b.prof] = "whole"
    BY <1>0, <1>3, <1>7, <2>1 DEF At, JobInv, Progress
  <2>3. /\ Named(Visible) \ {j.xprofile} \subseteq Named(j.keys)
        /\ Named(j.keys) \subseteq Named(Visible) \union {b.prof}
        /\ b.prof \in Named(j.keys)
    <3>1. /\ Named(Visible) \ {OldProfile(Visible, b.disp)} \subseteq Named(SetKeys(Visible, b.disp, b.prof))
          /\ Named(SetKeys(Visible, b.disp, b.prof)) \subseteq Named(Visible) \union {b.prof}
      BY <2>2, SetKeysNamed
    <3>2. b.prof \in Named(SetKeys(Visible, b.disp, b.prof))
      BY <2>2, SetKeysSound
    <3> QED
      BY <2>1, <2>2, <3>1, <3>2
  <2>4. \A q \in Profiles : Matches(Visible, q) \/ q = b.prof
    BY <1>3, <2>1 DEF MatchAt
  <2>5. \A q \in Profiles : Matches(j.keys, q) \/ (q = j.xprofile /\ q \notin Named(j.keys))
    <3> DEFINE n == Named(j.keys)
               v == Named(Visible)
    <3> HIDE DEF n, v
    <3>1. v \ {j.xprofile} \subseteq n /\ n \subseteq v \union {b.prof} /\ b.prof \in n
      BY <2>3 DEF n, v
    <3>2. \A q \in Profiles : file[q] = (IF q \in v THEN "whole" ELSE "no") \/ q = b.prof
      BY <2>4 DEF Matches, v
    <3>3. \A q \in Profiles : \/ file[q] = IF q \in n THEN "whole" ELSE "no"
                              \/ q = j.xprofile /\ q \notin n
      BY <2>2, <3>1, <3>2
    <3> QED
      BY <3>3 DEF Matches, n
  <2>6. Writes(a)' /\ MatchAt(b)'
    BY <2>1, <2>5 DEF Writes, Busy, Modifies, At, MatchAt, Matches
  <2> QED
    BY <1>2, <2>1, <2>6
<1>9. CASE EditUninstall(a)
  <2>1. /\ j.pc = "unlink" /\ b.pc = "lock" /\ UNCHANGED file /\ Has(Keys(a), b.disp)
        /\ j.keys = DeleteKeys(Keys(a), b.disp) /\ b.kind = "uninstall" /\ j.alone
        /\ j.xprofile = ProfileOf(Keys(a), b.disp) /\ j.kind = b.kind
    BY <1>0, <1>3, <1>9 DEF EditUninstall, Parses, Locks, At, JobType
  <2>2. Keys(a) = Visible /\ Keys(a) \in Seq(Records) /\ b.disp \in Displays
    BY <1>7, <2>1 DEF At
  <2>3. /\ Named(Visible) \ {j.xprofile} \subseteq Named(j.keys)
        /\ Named(j.keys) \subseteq Named(Visible)
    <3>1. /\ Named(Visible) \ {ProfileOf(Visible, b.disp)} \subseteq Named(DeleteKeys(Visible, b.disp))
          /\ Named(DeleteKeys(Visible, b.disp)) \subseteq Named(Visible)
      BY <2>1, <2>2, DeleteKeysNamed
    <3> QED
      BY <2>1, <2>2, <3>1
  <2>4. \A q \in Profiles : Matches(Visible, q)
    BY <1>3, <2>1 DEF MatchAt
  <2>5. \A q \in Profiles : Matches(j.keys, q) \/ (q = j.xprofile /\ q \notin Named(j.keys))
    <3> DEFINE n == Named(j.keys)
               v == Named(Visible)
    <3> HIDE DEF n, v
    <3>1. v \ {j.xprofile} \subseteq n /\ n \subseteq v
      BY <2>3 DEF n, v
    <3>2. \A q \in Profiles : file[q] = IF q \in v THEN "whole" ELSE "no"
      BY <2>4 DEF Matches, v
    <3>3. \A q \in Profiles : \/ file[q] = IF q \in n THEN "whole" ELSE "no"
                              \/ q = j.xprofile /\ q \notin n
      BY <3>1, <3>2
    <3> QED
      BY <3>3 DEF Matches, n
  <2>6. Writes(a)' /\ MatchAt(b)'
    BY <2>1, <2>5 DEF Writes, Busy, Modifies, At, MatchAt, Matches
  <2> QED
    BY <1>2, <2>1, <2>6
<1>10. CASE UnlinkProfile(a) \/ NothingToUnlink(a)
  <2>1. /\ j.pc = "write" /\ j.keys = b.keys /\ b.pc = "unlink" /\ j.alone /\ j.kind = b.kind
    <3>1. j = [[b EXCEPT !.pc = "write"] EXCEPT !.tmp = "part"] /\ b.pc = "unlink"
      BY <1>0, <1>10 DEF UnlinkProfile, NothingToUnlink, At
    <3> QED
      BY <1>0, <1>3, <3>1 DEF JobType
  <2>2. \A q \in Profiles : Matches(b.keys, q) \/ (q = b.xprofile /\ q \notin Named(b.keys))
    BY <1>3, <2>1 DEF MatchAt
  <2>3. \A q \in Profiles : Matches(b.keys, q)'
    <3>1. CASE UnlinkProfile(a)
      <4>1. file' = [file EXCEPT ![b.xprofile] = "no"] /\ b.xprofile \notin Named(b.keys)
        BY <3>1 DEF UnlinkProfile, Unneeded
      <4>2. \A q \in Profiles : file'[q] = IF q = b.xprofile THEN "no" ELSE file[q]
        BY <1>0, <4>1
      <4>3. \A q \in Profiles : file'[q] = IF q \in Named(b.keys) THEN "whole" ELSE "no"
        BY <2>2, <4>1, <4>2 DEF Matches
      <4>4. Named(b.keys)' = Named(b.keys)
        BY <2>1 DEF Named
      <4> QED
        BY <4>3, <2>1 DEF Matches
    <3>2. CASE NothingToUnlink(a)
      <4>1. UNCHANGED file
            /\ (b.xprofile # NoProfile /\ b.xprofile \notin Named(b.keys) => file[b.xprofile] = "no")
        BY <3>2 DEF NothingToUnlink, Unneeded
      <4>2. \A q \in Profiles : Matches(b.keys, q)
        BY <2>2, <4>1, NoneAssumption DEF Matches
      <4> QED
        BY <2>1, <4>1, <4>2 DEF Matches
    <3> QED
      BY <1>10, <3>1, <3>2
  <2>4. Writes(a)' /\ MatchAt(b)'
    BY <1>0, <2>1, <2>3 DEF Writes, Busy, Modifies, At, MatchAt, Matches
  <2> QED
    BY <1>2, <2>1, <2>4
<1>11. CASE WriteTemp(a)
  <2>1. /\ j.pc = "rename" /\ j.keys = b.keys /\ b.pc = "write" /\ j.alone /\ j.kind = b.kind
        /\ UNCHANGED file
    BY <1>0, <1>3, <1>11 DEF WriteTemp, At, JobType
  <2>2. Writes(a)' /\ MatchAt(b)'
    BY <1>0, <1>3, <2>1 DEF Writes, Busy, Modifies, At, MatchAt, Matches
  <2> QED
    BY <1>2, <2>1, <2>2
<1>12. CASE Rename(a)
  <2>1. j = Closed(b) /\ b.pc = "rename" /\ UNCHANGED file
    BY <1>0, <1>12 DEF Rename, Replace, At
  <2>2. j.pc = "ok" /\ j.kind = b.kind /\ j.alone
    BY <1>0, <1>3, <2>1 DEF Closed, JobType
  <2>3. Visible' = b.keys
    BY <1>0, <1>12, RenamedVisible
  <2>4. \A q \in Profiles : Matches(Visible, q)'
    BY <1>3, <2>1, <2>3 DEF MatchAt, Matches
  <2>5. Writes(a)' /\ MatchAt(b)'
    BY <1>0, <2>2, <2>4 DEF Writes, Busy, Modifies, At, MatchAt
  <2> QED
    BY <1>2, <2>2, <2>5
<1> QED
  BY <1>1, <1>4, <1>5, <1>6, <1>8, <1>9, <1>10, <1>11, <1>12

\* A writer that goes on is a writer still
LEMMA WriterStays ==
    ASSUME TInv, NEW a \in Procs, Step(a) \/ Kill(a), Writes(a)
    PROVE  ~Reads(a)'
<1> DEFINE b == job[a]
<1>1. /\ job \in [Procs -> JobType] /\ b \in JobType /\ JobInv(b) /\ b.kind # "get"
  BY JobFacts DEF TInv, TypeOK, Writes, Modifies
<1>2. SUFFICES ASSUME job'[a].pc # "idle"
               PROVE  job'[a].kind # "get"
  BY DEF Reads, Busy, At, Modifies
<1>3. job'[a] # NoJob
  BY <1>2 DEF NoJob
<1>4. \/ CopyProfile(a) \/ Open(a) \/ Create(a) \/ LockBusy(a) \/ EditInstall(a)
      \/ EditUninstall(a) \/ UnlinkProfile(a) \/ NothingToUnlink(a) \/ WriteTemp(a) \/ Rename(a)
  BY <1>1, <1>3 DEF Step, Read, Kill, CopyFails, LockGivesUp, ReadFails, ReadNothing, EditDies,
     UnlinkFails, CloseFails, Replace, WriteFails, Leave, Fail, Becomes, ReadProfile
<1>5. CASE Rename(a)
  <2>1. job'[a] = Closed(b)
    BY <1>1, <1>5 DEF Rename, Replace
  <2> QED
    BY <1>1, <2>1 DEF Closed, JobType
<1>6. CASE Open(a) \/ Create(a)
  <2>1. \/ job'[a] = [[b EXCEPT !.fp = dir'] EXCEPT !.pc = "lock"]
        \/ job'[a] = [b EXCEPT !.pc = "create"]
    BY <1>1, <1>3, <1>6 DEF Open, Create
  <2> QED
    BY <1>1, <2>1 DEF JobType
<1>7. CASE CopyProfile(a) \/ LockBusy(a) \/ EditInstall(a) \/ EditUninstall(a) \/ WriteTemp(a)
  BY <1>1, <1>7 DEF CopyProfile, LockBusy, EditInstall, EditUninstall, WriteTemp, Go, JobType
<1>8. CASE UnlinkProfile(a) \/ NothingToUnlink(a)
  <2>1. job'[a] = [[b EXCEPT !.pc = "write"] EXCEPT !.tmp = "part"]
    BY <1>1, <1>8 DEF UnlinkProfile, NothingToUnlink
  <2> QED
    BY <1>1, <2>1 DEF JobType
<1> QED
  BY <1>4, <1>5, <1>6, <1>7, <1>8

\* and so does a step of the operations: of a writer as far as MatchAt says.
LEMMA StepMatch ==
    ASSUME FInv, NEW a \in Procs, Step(a) \/ Kill(a)
    PROVE  WritersMatch' /\ RestMatch' /\ ReadersMatch'
<1>1. TInv /\ job \in [Procs -> JobType]
  BY DEF FInv, SInv, TInv, TypeOK
<1>2. Busy(a)
  BY DEF Step, Read, CopyProfile, CopyFails, Open, Create, LockBusy, LockGivesUp,
     ReadFails, ReadNothing, ReadProfile, EditInstall, EditUninstall, EditDies,
     UnlinkProfile, NothingToUnlink, UnlinkFails, WriteTemp, Rename, CloseFails, Replace,
     WriteFails, Leave, Kill, Parses, Locks, Busy, At
<1>3. /\ \A q \in Procs \ {a} : Writes(q)' <=> Writes(q)
      /\ Writers' = {} <=> ~Writes(a)' /\ \A q \in Procs \ {a} : ~Writes(q)
      /\ Writers = {} <=> \A q \in Procs : ~Writes(q)
  BY <1>1, OtherWriters DEF Writers, Writes
<1>4. CASE Reads(a)
  <2>1. /\ \A q \in Procs \ {a} : job'[q] = job[q]
        /\ UNCHANGED <<file, dir>> /\ Visible' = Visible /\ ~Writes(a)' /\ ~Writes(a)
        /\ marred' = marred
    BY <1>1, <1>4, ReaderStep DEF Reads, Writes
  <2>2. ASSUME NEW p \in Procs, ~marred', Writes(p)'
        PROVE  job'[p].alone /\ MatchAt(job[p])'
    <3>1. Writes(p) /\ job'[p] = job[p]
      BY <1>3, <2>1, <2>2
    <3>2. job[p].alone /\ MatchAt(job[p])
      BY <2>1, <2>2, <3>1 DEF FInv, WritersMatch
    <3> QED
      BY <2>1, <3>1, <3>2 DEF MatchAt, Matches
  <2>3. RestMatch'
    BY <1>3, <2>1 DEF FInv, RestMatch, Matches
  <2>4. ASSUME NEW p \in Procs, Reads(p)', job'[p].alone
        PROVE  /\ Writers' = {}
               /\ At(p, "lock")' => job'[p].fp = dir'
               /\ At(p, "ok")' => Has(Visible', job'[p].disp)
                                  /\ ProfileOf(Visible', job'[p].disp) = job'[p].prof
    <3>1. CASE p = a
      <4>1. /\ job[a].alone
            /\ At(a, "lock")' => job'[a].fp = dir'
            /\ At(a, "ok")' => Has(Visible', job'[a].disp)
                               /\ ProfileOf(Visible', job'[a].disp) = job'[a].prof
        BY <1>4, <2>4, <3>1, ReaderMatch
      <4>2. Writers = {}
        BY <1>4, <4>1 DEF FInv, ReadersMatch
      <4> QED
        BY <1>3, <2>1, <3>1, <4>1, <4>2
    <3>2. CASE p # a
      <4>1. job'[p] = job[p] /\ Reads(p)
        BY <2>1, <2>4, <3>2 DEF Reads, Busy, Modifies, At
      <4>2. /\ Writers = {}
            /\ At(p, "lock") => job[p].fp = dir
            /\ At(p, "ok") => Has(Visible, job[p].disp)
                              /\ ProfileOf(Visible, job[p].disp) = job[p].prof
        BY <2>4, <4>1 DEF FInv, ReadersMatch
      <4> QED
        BY <1>3, <2>1, <4>1, <4>2 DEF At
    <3> QED
      BY <3>1, <3>2
  <2> QED
    BY <2>2, <2>3, <2>4 DEF WritersMatch, ReadersMatch
<1>5. CASE Writes(a)
  <2>1. ASSUME NEW p \in Procs \ {a}, ~marred
        PROVE  ~Writes(p)
    BY <1>5, <2>1 DEF FInv, SInv, WritersMatch, Alone, Sole, Writes
  <2>2. ~marred' => /\ ~marred
                    /\ Writes(a)' => job'[a].alone /\ MatchAt(job[a])'
                    /\ ~Writes(a)' => \A q \in Profiles : Matches(Visible, q)'
    BY <1>5, WriterMatch
  <2>3. WritersMatch'
    BY <1>3, <2>1, <2>2 DEF WritersMatch
  <2>4. RestMatch'
    BY <1>3, <2>2 DEF RestMatch
  <2>5. ASSUME NEW p \in Procs, Reads(p)', job'[p].alone
        PROVE  FALSE
    <3>1. Writers # {}
      BY <1>3, <1>5
    <3>2. CASE p # a
      <4>1. job'[p] = job[p] \/ job'[p] = [job[p] EXCEPT !.linked = FALSE]
        BY <1>1, <3>2, OnlyLinked
      <4>2. job'[p].pc = job[p].pc /\ job'[p].kind = job[p].kind /\ job'[p].alone = job[p].alone
        BY <1>1, <4>1 DEF JobType
      <4>3. Reads(p) /\ job[p].alone
        BY <2>5, <4>2 DEF Reads, Busy, Modifies, At
      <4> QED
        BY <3>1, <4>3 DEF FInv, ReadersMatch
    <3>3. CASE p = a
      BY <1>1, <1>5, <2>5, <3>3, WriterStays
    <3> QED
      BY <3>2, <3>3
  <2> QED
    BY <2>3, <2>4, <2>5 DEF ReadersMatch
<1> QED
  BY <1>2, <1>4, <1>5 DEF Reads, Writes

\* It starts with no profile and none named.
LEMMA InitFInv == Init => FInv
<1> SUFFICES ASSUME Init PROVE FInv
  OBVIOUS
<1>1. SInv /\ \A p \in Procs : ~Busy(p)
  BY InitSInv DEF Init, NoJob, Busy, At
<1>2. Visible = <<>> /\ Named(Visible) = {}
  BY DEF Init, Visible, Named
<1> QED
  BY <1>1, <1>2
  DEF Init, FInv, WritersMatch, RestMatch, ReadersMatch, Writes, Reads, Matches

\* Every step keeps the files matching, or mars them.
LEMMA NextFInv == FInv /\ [Next]_vars => FInv'
<1> SUFFICES ASSUME FInv, [Next]_vars PROVE FInv'
  OBVIOUS
<1>1. SInv'
  BY NextSInv DEF FInv
<1>2. CASE UNCHANGED vars
  <2>1. UNCHANGED <<dir, content, file, job, marred>>
    BY <1>2 DEF vars
  <2>2. Visible' = Visible /\ Writers' = Writers
    BY <2>1 DEF Visible, Writers, Busy, Modifies, At
  <2>3. WritersMatch'
    BY <2>1, <2>2 DEF FInv, WritersMatch, Writes, Busy, Modifies, At, MatchAt, Matches
  <2>4. RestMatch'
    BY <2>1, <2>2 DEF FInv, RestMatch, Matches
  <2>5. ReadersMatch'
    BY <2>1, <2>2 DEF FInv, ReadersMatch, Reads, Busy, Modifies, At
  <2> QED
    BY <1>1, <2>3, <2>4, <2>5 DEF FInv
<1>3. ASSUME NEW a \in Procs, Call(a) \/ Step(a) \/ Kill(a)
      PROVE  WritersMatch' /\ RestMatch' /\ ReadersMatch'
  BY <1>3, CallMatch, StepMatch
<1> QED
  BY <1>1, <1>2, <1>3 DEF FInv, Next

\* As long as nothing was killed, failed or met another writer, every profile the
\* configuration names is there and whole, and a get that met no writer returns
\* the profile the display has (ucmm_get_monitor_profile): for any number of
\* processes, displays and profiles, however displays share them.
THEOREM ProfilesMatch == Spec => []FilesMatch
<1>1. FInv => FilesMatch
  <2> SUFFICES ASSUME FInv PROVE FilesMatch
    OBVIOUS
  <2>1. ~marred /\ Writers = {} => \A q \in Profiles : Matches(Visible, q)
    BY DEF FInv, RestMatch
  <2>2. ASSUME NEW p \in Procs, At(p, "ok"), job[p].kind = "get", job[p].alone
        PROVE  /\ Has(Visible, job[p].disp) /\ ProfileOf(Visible, job[p].disp) = job[p].prof
               /\ ~marred => file[job[p].prof] = "whole"
    <3>1. /\ Writers = {} /\ Has(Visible, job[p].disp)
          /\ ProfileOf(Visible, job[p].disp) = job[p].prof
      BY <2>2 DEF FInv, ReadersMatch, Reads, Busy, Modifies, At
    <3>2. Visible \in Seq(Records)
      BY DEF FInv, SInv, TInv, TypeOK, Visible, Contents
    <3>3. job[p].prof \in Profiles /\ job[p].prof \in Named(Visible)
      BY <3>1, <3>2, ProfileIsOne, PlaceIs DEF ProfileOf, Named
    <3> QED
      BY <2>1, <3>1, <3>3 DEF Matches
  <2> QED
    <3>1. Named(Visible) \subseteq Profiles
      <4>1. Visible \in Seq(Records)
        BY DEF FInv, SInv, TInv, TypeOK, Visible, Contents
      <4>2. \A k \in DOMAIN Visible : Visible[k] \in Records
        BY <4>1
      <4> QED
        BY <4>2 DEF Named, Records
    <3> QED
      BY <2>1, <2>2, <3>1 DEF FilesMatch, Matches
<1> QED
  BY InitFInv, NextFInv, <1>1, PTL DEF Spec
=============================================================================
