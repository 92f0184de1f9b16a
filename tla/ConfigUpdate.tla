---------------------------- MODULE ConfigUpdate ----------------------------
(***************************************************************************)
(* Installing, removing and looking up display profiles: src/ucmm/ucmm.c   *)
(* over the JSON configuration file of src/jcnf/jcnf.c.                    *)
(*                                                                         *)
(* Several processes share one directory: the configuration file, which    *)
(* lists a profile for each display, and the profile files it names.  A    *)
(* process that changes the configuration opens it, locks it, reads it     *)
(* into memory, changes the keys, writes a temporary file and renames that *)
(* over the name.  The lock is on the file that was opened (the inode),    *)
(* not on the name.  Profiles are copied in before the lock is taken, and  *)
(* a profile no display needs is unlinked before the file is written.      *)
(*                                                                         *)
(* A profile is the path of its file in the data directory.  The keys are  *)
(* the records of the displays in the order of the file; a temporary file  *)
(* is private to its process until it is renamed.  One scope (user or      *)
(* local system) is modelled.  A process may be killed at any step: its    *)
(* locks go, what it did to the file system stays.                         *)
(***************************************************************************)
EXTENDS Integers, Sequences, SequencesExt, FiniteSets

CONSTANTS
    Procs,            \* processes that may run an operation
    Displays,         \* displays, by their EDID or X11 name
    Profiles,         \* paths in the data directory
    Inodes,           \* identities of configuration files
    NoDisplay, NoProfile, NoInode,
    LockRetries,      \* tries to lock before giving up (5 in the code)
    Faults            \* which of "kill", "io" happen

ASSUME NoneAssumption ==
    /\ NoDisplay \notin Displays /\ NoProfile \notin Profiles /\ NoInode \notin Inodes
ASSUME RetriesAssumption == LockRetries \in Nat \ {0}
ASSUME FaultsAssumption  == Faults \subseteq {"kill", "io"}

VARIABLES
    dir,      \* the file that has the configuration's name, NoInode if none
    content,  \* what each configuration file holds
    file,     \* each profile file of the data directory
    job,      \* what each process is doing
    marred    \* history: an operation was killed, failed, or met another one

vars == <<dir, content, file, job, marred>>

Records  == [disp : Displays, prof : Profiles]
Empty    == [whole |-> TRUE, keys |-> <<>>]
Contents == [whole : BOOLEAN, keys : Seq(Records)]
Kinds    == {"install", "uninstall", "get"}
\* "ok" is about to return ucmm_ok; the error returns go straight to "idle"
PcValues == {"idle", "copy", "open", "create", "lock", "unlink", "write", "rename", "ok"}

NoJob == [pc |-> "idle", kind |-> "get", disp |-> NoDisplay, prof |-> NoProfile,
          fp |-> NoInode, locked |-> FALSE, tries |-> 0, keys |-> <<>>,
          xprofile |-> NoProfile, tmp |-> "no", linked |-> FALSE, alone |-> FALSE]

Init ==
    /\ dir = NoInode /\ content = [i \in Inodes |-> Empty]
    /\ file = [q \in Profiles |-> "no"]
    /\ job = [p \in Procs |-> NoJob] /\ marred = FALSE

At(p, place)  == job[p].pc = place
Busy(p)       == ~At(p, "idle")
Modifies(p)   == job[p].kind # "get"
Writers       == {p \in Procs : Busy(p) /\ Modifies(p)}

\* the displays keys associates with a profile, and the profiles it names
Has(keys, d)    == \E k \in DOMAIN keys : keys[k].disp = d
Place(keys, d)  == CHOOSE k \in DOMAIN keys : keys[k].disp = d
ProfileOf(keys, d) == keys[Place(keys, d)].prof
Named(keys)     == {keys[k].prof : k \in DOMAIN keys}
Visible         == IF dir = NoInode THEN <<>> ELSE content[dir].keys

\* a file is gone when it has neither the name nor a process that has it open
Kept(c) == [i \in Inodes |->
              IF i = dir' \/ \E p \in Procs : job'[p].fp = i THEN c[i] ELSE Empty]
Unused  == {i \in Inodes : i # dir /\ \A p \in Procs : job[p].fp # i}
Fresh   == {i \in Unused : i = CHOOSE u \in Unused : TRUE}   \* any one will do

Go(p, place)    == job' = [job EXCEPT ![p].pc = place]
\* jcnf_del: closing the file releases the lock
Closed(j)     == [j EXCEPT !.pc = "ok", !.fp = NoInode, !.locked = FALSE,
                           !.tmp = "no", !.keys = <<>>]
Becomes(p, j) == /\ UNCHANGED <<dir, file>>
                 /\ job' = [job EXCEPT ![p] = j]
                 /\ content' = Kept(content)
Fail(p)       == Becomes(p, NoJob) /\ marred' = (marred \/ Modifies(p))
-----------------------------------------------------------------------------
(* The operations *)

\* A writer that starts spoils what the others at work can promise, and two
\* writers at once are a mishap.
Begin(p, j) ==
    /\ ~Busy(p)
    /\ job' = [q \in Procs |->
                 IF q = p THEN [j EXCEPT !.alone = (Writers = {})]
                 ELSE [job[q] EXCEPT !.alone = @ /\ j.kind = "get"]]
    /\ marred' = (marred \/ (j.kind # "get" /\ Writers # {}))

\* ucmm_install_monitor_profile creates or truncates the copy of the profile.
Install(p, d, q) ==
    /\ Begin(p, [NoJob EXCEPT !.pc = "copy", !.kind = "install",
                              !.disp = d, !.prof = q, !.linked = TRUE])
    /\ file' = [file EXCEPT ![q] = "part"]
    /\ UNCHANGED <<dir, content>>

Uninstall(p, d) ==
    /\ Begin(p, [NoJob EXCEPT !.pc = "open", !.kind = "uninstall", !.disp = d])
    /\ UNCHANGED <<dir, content, file>>

Get(p, d) ==
    /\ Begin(p, [NoJob EXCEPT !.pc = "open", !.disp = d])
    /\ UNCHANGED <<dir, content, file>>

\* The copy is written; it is lost if its name was unlinked in the meantime.
CopyProfile(p) ==
    /\ At(p, "copy")
    /\ file' = IF job[p].linked THEN [file EXCEPT ![job[p].prof] = "whole"] ELSE file
    /\ Go(p, "open")
    /\ UNCHANGED <<dir, content, marred>>

CopyFails(p) ==
    /\ "io" \in Faults /\ At(p, "copy")
    /\ Fail(p)

\* jcnf_read: fopen "r+" or "r"; a reader makes do without a file.
Open(p) ==
    /\ At(p, "open")
    /\ IF dir # NoInode
       THEN job' = [job EXCEPT ![p].fp = dir, ![p].pc = "lock"]
       ELSE job' = [job EXCEPT ![p] = IF Modifies(p) THEN [@ EXCEPT !.pc = "create"]
                                      ELSE NoJob]
    /\ UNCHANGED <<dir, content, file, marred>>

\* There was no file: fopen "w" creates one, or truncates one created since.
Create(p) ==
    /\ At(p, "create")
    /\ IF dir = NoInode
       THEN \E i \in Fresh :
               /\ dir' = i
               /\ job' = [job EXCEPT ![p].fp = i, ![p].pc = "lock"]
       ELSE /\ job' = [job EXCEPT ![p].fp = dir, ![p].pc = "lock"]
            /\ UNCHANGED dir
    /\ content' = [content EXCEPT ![dir'] = Empty]
    /\ UNCHANGED <<file, marred>>

LockFree(p) == \A q \in Procs \ {p} : ~(job[q].locked /\ job[q].fp = job[p].fp)

Bug_OneTryMore(p) ==
    /\ At(p, "lock") /\ ~LockFree(p)
    /\ job[p].tries < LockRetries
    /\ job' = [job EXCEPT ![p].tries = @ + 1]
    /\ UNCHANGED <<dir, content, file, marred>>

\* jcnf_lock_file: LOCK_RETRIES tries, a second apart.
LockBusy(p) ==
    /\ At(p, "lock") /\ ~LockFree(p)
    /\ job[p].tries + 1 < LockRetries
    /\ job' = [job EXCEPT ![p].tries = @ + 1]
    /\ UNCHANGED <<dir, content, file, marred>>

LockGivesUp(p) ==
    /\ At(p, "lock") /\ ~LockFree(p)
    /\ job[p].tries + 1 >= LockRetries
    /\ Fail(p)

\* The lock is taken and the open file is read; one that is not whole does not
\* parse.  A reader closes at once, so only writers are seen to hold a lock.
Keys(p)   == content[job[p].fp].keys
Locks(p)  == At(p, "lock") /\ LockFree(p)
Parses(p) == Locks(p) /\ content[job[p].fp].whole

ReadFails(p) ==
    /\ Locks(p) /\ (Parses(p) => "io" \in Faults)
    /\ Fail(p)

\* The display has no record: nothing to return, or to uninstall.
ReadNothing(p) ==
    /\ Parses(p)
    /\ job[p].kind # "install" /\ ~Has(Keys(p), job[p].disp)
    /\ Becomes(p, NoJob)
    /\ UNCHANGED marred

ReadProfile(p) ==
    /\ Parses(p)
    /\ job[p].kind = "get" /\ Has(Keys(p), job[p].disp)
    /\ Becomes(p, [Closed(job[p]) EXCEPT !.prof = ProfileOf(Keys(p), job[p].disp)])
    /\ UNCHANGED marred

Bug_AlwaysAdds(keys, d, q) == Append(keys, [disp |-> d, prof |-> q])

\* set_key twice: the record of the display is replaced where it is, or added.
SetKeys(keys, d, q) ==
    LET r == [disp |-> d, prof |-> q]
    IN  IF Has(keys, d) THEN [keys EXCEPT ![Place(keys, d)] = r] ELSE Append(keys, r)

OldProfile(keys, d) == IF Has(keys, d) THEN ProfileOf(keys, d) ELSE NoProfile

EditInstall(p) ==
    /\ Parses(p) /\ job[p].kind = "install"
    /\ job' = [job EXCEPT ![p].keys = SetKeys(Keys(p), job[p].disp, job[p].prof),
                          ![p].xprofile = OldProfile(Keys(p), job[p].disp),
                          ![p].locked = TRUE, ![p].tries = 0, ![p].pc = "unlink"]
    /\ UNCHANGED <<dir, content, file, marred>>

Bug_DeletesLast(keys, d) == RemoveAt(keys, Len(keys))

DeleteKeys(keys, d) == RemoveAt(keys, Place(keys, d))

EditUninstall(p) ==
    /\ Parses(p)
    /\ job[p].kind = "uninstall" /\ Has(Keys(p), job[p].disp)
    /\ job' = [job EXCEPT ![p].keys = DeleteKeys(Keys(p), job[p].disp),
                          ![p].xprofile = ProfileOf(Keys(p), job[p].disp),
                          ![p].locked = TRUE, ![p].tries = 0, ![p].pc = "unlink"]
    /\ UNCHANGED <<dir, content, file, marred>>

\* jcnf_delete_key moves sizeof(jc_key *) * nkeys-ix-1 bytes: unless the record
\* is the last, it then frees a pointer from beyond the keys, and may die of it.
EditDies(p) ==
    /\ Parses(p)
    /\ job[p].kind = "uninstall" /\ Has(Keys(p), job[p].disp)
    /\ Place(Keys(p), job[p].disp) # Len(Keys(p))
    /\ Becomes(p, NoJob)
    /\ UNCHANGED marred

Bug_NoReferenceCheck(p) == job[p].xprofile # NoProfile

\* The profile the display had is deleted unless the new keys name it.
Unneeded(p) ==
    job[p].xprofile # NoProfile /\ job[p].xprofile \notin Named(job[p].keys)

\* A copy in progress loses its name with the file.
UnlinkProfile(p) ==
    /\ At(p, "unlink") /\ Unneeded(p) /\ file[job[p].xprofile] # "no"
    /\ file' = [file EXCEPT ![job[p].xprofile] = "no"]
    /\ job' = [q \in Procs |->
                 IF q = p THEN [job[q] EXCEPT !.pc = "write", !.tmp = "part"]
                 ELSE IF At(q, "copy") /\ job[q].prof = job[p].xprofile
                      THEN [job[q] EXCEPT !.linked = FALSE] ELSE job[q]]
    /\ UNCHANGED <<dir, content, marred>>

NothingToUnlink(p) ==
    /\ At(p, "unlink")
    /\ Unneeded(p) => file[job[p].xprofile] = "no" /\ job[p].kind = "install"
    /\ job' = [job EXCEPT ![p].pc = "write", ![p].tmp = "part"]
    /\ UNCHANGED <<dir, content, file, marred>>

\* uninstall gives up, before its update, when there is no file to unlink.
UnlinkFails(p) ==
    /\ At(p, "unlink") /\ Unneeded(p) /\ file[job[p].xprofile] = "no"
    /\ job[p].kind = "uninstall"
    /\ Fail(p)

Bug_NoFlush(p) ==
    /\ At(p, "write")
    /\ job' = [job EXCEPT ![p].pc = "rename"]
    /\ UNCHANGED <<dir, content, file, marred>>

\* jcnf_write: the keys are in the temporary file, flushed.
WriteTemp(p) ==
    /\ At(p, "write")
    /\ job' = [job EXCEPT ![p].tmp = "whole", ![p].pc = "rename"]
    /\ UNCHANGED <<dir, content, file, marred>>

\* It takes the name; then it and the file that was read are closed.
Replace(p, j) ==
    /\ At(p, "rename")
    /\ \E i \in Fresh :
         /\ dir' = i
         /\ job' = [job EXCEPT ![p] = j]
         /\ content' = Kept([content EXCEPT ![i] = [whole |-> job[p].tmp = "whole",
                                                    keys  |-> job[p].keys]])
    /\ UNCHANGED file

Rename(p) == Replace(p, Closed(job[p])) /\ UNCHANGED marred

\* The call fails although the configuration has been replaced.
CloseFails(p) ==
    /\ "io" \in Faults
    /\ Replace(p, NoJob) /\ marred' = TRUE

WriteFails(p) ==
    /\ "io" \in Faults /\ job[p].pc \in {"write", "rename"}
    /\ Fail(p)

Leave(p) ==
    /\ At(p, "ok")
    /\ job' = [job EXCEPT ![p] = NoJob]
    /\ UNCHANGED <<dir, content, file, marred>>

Kill(p) ==
    /\ "kill" \in Faults /\ Busy(p)
    /\ Becomes(p, NoJob)
    /\ marred' = (marred \/ Modifies(p))
-----------------------------------------------------------------------------
Call(p) == \E d \in Displays :
    \/ Uninstall(p, d) \/ Get(p, d)
    \/ \E q \in Profiles : Install(p, d, q)

Read(p) == ReadFails(p) \/ ReadNothing(p) \/ ReadProfile(p)
           \/ EditInstall(p) \/ EditUninstall(p) \/ EditDies(p)

Step(p) ==
    \/ CopyProfile(p) \/ CopyFails(p) \/ Open(p) \/ Create(p)
    \/ LockBusy(p) \/ LockGivesUp(p) \/ Read(p)
    \/ UnlinkProfile(p) \/ NothingToUnlink(p) \/ UnlinkFails(p)
    \/ WriteTemp(p) \/ Rename(p) \/ CloseFails(p) \/ WriteFails(p) \/ Leave(p)

Next == \E p \in Procs : Call(p) \/ Step(p) \/ Kill(p)

Spec == Init /\ [][Next]_vars
-----------------------------------------------------------------------------
(* Properties *)

JobType ==
    [pc : PcValues, kind : Kinds,
     disp : Displays \union {NoDisplay}, prof : Profiles \union {NoProfile},
     fp : Inodes \union {NoInode}, locked : BOOLEAN, tries : 0..LockRetries - 1,
     keys : Seq(Records), xprofile : Profiles \union {NoProfile},
     tmp : {"no", "part", "whole"}, linked : BOOLEAN, alone : BOOLEAN]

\* Every variable keeps its type (jcnf, and the locals of the ucmm functions).
TypeOK ==
    /\ dir \in Inodes \union {NoInode}
    /\ content \in [Inodes -> Contents]
    /\ file \in [Profiles -> {"no", "part", "whole"}]
    /\ job \in [Procs -> JobType]
    /\ marred \in BOOLEAN

\* Whoever opens the configuration finds a whole file, whatever was killed or
\* failed while writing it: jcnf_write flushes before it renames.
ConfigWhole == dir # NoInode => content[dir].whole

\* An install that met no other writer does what it promises, whatever earlier
\* operations left behind: a copy cut short, an association of a profile that is
\* gone, the wreck of a reinstall (ucmm_install_monitor_profile).
InstallSound == \A p \in Procs :
    At(p, "ok") /\ job[p].kind = "install" /\ job[p].alone =>
        /\ Has(Visible, job[p].disp) /\ ProfileOf(Visible, job[p].disp) = job[p].prof
        /\ file[job[p].prof] = "whole"

\* So does an uninstall: the display has no profile, and the one it had is gone
\* unless another display needs it (ucmm_uninstall_monitor_profile).
UninstallSound == \A p \in Procs :
    At(p, "ok") /\ job[p].kind = "uninstall" /\ job[p].alone =>
        /\ ~Has(Visible, job[p].disp)
        /\ job[p].xprofile \in Named(Visible) \/ file[job[p].xprofile] = "no"

\* As long as nothing was killed, failed or met another writer, every profile the
\* configuration names is in the data directory and whole: neither the install
\* nor the uninstall of one display takes the profile that another one shares.
\* What a get that met no writer returns (ucmm_get_monitor_profile) is what the
\* display has.
FilesMatch ==
    /\ ~marred /\ Writers = {} =>
          \A q \in Named(Visible) : file[q] = "whole"
    /\ \A p \in Procs : At(p, "ok") /\ job[p].kind = "get" /\ job[p].alone =>
          /\ Has(Visible, job[p].disp) /\ ProfileOf(Visible, job[p].disp) = job[p].prof
          /\ ~marred => file[job[p].prof] = "whole"

\* "Any existing association is overwritten. Installed profiles are not deleted."
\* (ucmm.h:58-59): a profile leaves the data directory by an uninstall only.
InstalledKept ==
    [][\A q \in Profiles : file[q] = "whole" /\ file'[q] = "no" =>
          \E p \in Procs : At(p, "unlink") /\ job[p].kind = "uninstall"]_vars

\* "Now atomicaly rename the file to replace the file we read" (jcnf.c:1052):
\* the file that loses its name is the one whose keys were read.
ReplacesWhatItRead ==
    [][\A p \in Procs : Rename(p) => job[p].fp = dir]_vars
=============================================================================
