# TLA+ models of ArgyllCMS

ArgyllCMS is a colour management system: command line programs that drive
colour instruments and displays, and make, link and inspect ICC profiles. Most
of it is sequential floating point arithmetic over files. What is hard to get
right by testing lies elsewhere: in the threads that talk to instruments and
to displays over USB, a serial line or the network, and in the caches and
reference counts that are kept by hand and shared by the long computations.
Those are the parts modelled here. All line numbers refer to `src/`.

## 1. Inventory

| part | code | state | operations | interacts with | status |
|---|---|---|---|---|---|
| USB transfer engine | `spectro/usbio_lx.c`, `usbio.h` | per port: open, shutdown, running, the list of requests; per request: URBs, count outstanding, cancelled, result | transaction, cancel, open, close, the reaper thread | kernel (usbfs), every USB driver, cancel tokens | `UsbTransfer` |
| common USB layer | `spectro/usbio.c` | cancel token: hcancel, condx, state; in_usb_rw | read, write, reinit/wait/cancel of a token | transfer engine, trigger threads | partly, in `UsbTransfer` and `InstTrigger` |
| reverse lookup cache | `rspl/rev.c` | per instance: cells, mru list, hash index, simplex index, memory in use and allowed; global: instances, memory available | make, invalidate, free, search, fetch/lock/unlock a cell, allocate | malloc, the other instances | `RevCache` |
| ChromeCast replies | `ccast/ccast.c` | reply list, wanted reply, stop/stopped | receive thread, get_a_reply_id, start, shutdown | receiver, packet layer, load_ccast | `CcastReply` |
| ChromeCast load | `ccast/ccast.c` | retry counters, the list for clean up at a signal | load_ccast, start/shutdown again | the above, signal handlers | planned |
| packets, messages, mDNS | `ccast/ccpacket.c`, `ccmes.c`, `ccmdns.c` | socket, TLS | send, receive | network | I/O, external |
| web window, ChromeCast window | `spectro/webwin.c`, `ccwin.c` | ncix, ccix, colour | set colour, answer a request | HTTP threads, browser | planned |
| display windows | `spectro/dispwin.c`, ... | video LUTs, windows in the signal list | set colour, LUT, restore at signal | window systems | not modelled |
| threads | `spectro/conv.c` | start and stop handshake, result | start, wait_stop, wait, terminate, del | pthreads | partly, in `InstTrigger`; the handshake planned |
| instrument drivers with threads | `i1pro_imp.c`, `munki_imp.c`, `i1pro3_imp.c`, `smcube.c`, `specbos.c`, `kleink10.c` | mode, calibration, th_term, port lock | switch and trigger threads, polling, commands | USB engine, tokens, callbacks | the i1 Pro in `InstTrigger`; polling planned |
| other instrument drivers | `i1d3.c`, `colorhug.c`, `spyd2.c`, `dtp*.c`, ... | command/answer | commands | ports | not modelled |
| measurement programs | `chartread.c`, `dispcal.c`, `spotread.c`, ... | the reading session | interactive loops | drivers | later |
| ICC library | `icc/icc.c`, `icc.h` | tag table, shared elements with a count, white point and chad flags | read, add, link, rename, delete, get_size, write | files, the programs | the tag table, in `IccTags` |
| configuration, profile installation | `jcnf/jcnf.c`, `ucmm/ucmm.c` | file, lock, keys | lock, update, rename, install | other processes | `ConfigUpdate` |
| CGATS | `cgats/` | tables | parse, edit, write | files | later |
| rspl forward, numlib, xicc, gamut, link, profile, target, scanin, imdi, render, plot | | matrices, grids, samples | numerics, batch | files | not modelled: floating point |
| tiff, jpeg, png, zlib, yajl, xml, mongoose, axTLS, Lzma | | | | | third party |

What is hard in each, and what makes it correct:

- **USB engine**: client threads, one reaper, cancelling threads and the kernel
  interleave freely; submissions fail in the middle of a transfer; URBs come
  back short, failed, cancelled or not at all; the device is unplugged, the
  port closed. The caller's buffers and the request are on the client's stack,
  so it must not return with a URB outstanding, and no thread may follow a
  request that has gone; every transaction, cancel and close must end.
- **Reverse lookup cache**: long sequences of fetch, lock, unlock, discard,
  reuse and grow with four hand-kept counts (refcount, nunlocked, simplex
  references, memory) that must agree with the structure, under a limit that
  changes and allocations that fail; a search must end and visit all its cells.
- **ChromeCast replies**: one thread puts messages in a list, one takes them
  out; the list is relinked during a walk; time outs, spurious wake ups, session
  end. No answer still wanted may be lost, nobody may wait for a thread that has
  gone, the list must stay a list.
- **Windows, threads, drivers**: counters used as a handshake, a reusable
  thread, a polling thread and commands on one port. Whoever waits is answered,
  one owner of the port at a time, a thread told to end has ended before what it
  uses is freed.
- **ICC**: tags that lie at one place of a file share one element, some read and
  some not; a write changes the profile it writes and puts it back. An element
  lives as long as a tag has it, sharing and loading do not show, and the
  white point survives its move into another tag.
- **Configuration**: an update is seen whole or not at all, also by another
  process and after a crash.
- **i1 Pro**: a measurement, the thread that triggers it, the thread that reads
  the switch and the reaper meet at two cancel tokens; any of the calls may fail
  half way and leave a token locked or a trigger on its way. No trigger before
  the read that collects it, no readings of another measurement, no thread left
  when the driver's memory goes.

The hazards, each at its line, are in `PROJECT.json`.

## 2. Modules

| module | what it is |
|---|---|
| `BufferLoan` | abstract: a caller lends pieces of a buffer for a transfer and has them all back when it ends |
| `UsbTransfer` | the USB engine; implements `BufferLoan` |
| `UsbTransfer_proofs` | type correctness, `BuffersReturned`, `ReferencesLive` |
| `UsbCancel_proofs` | `NoCancelUnasked`, over the invariant of `UsbTransfer_proofs` |
| `UsbLoan_proofs` | `ImplementsLoan`: the engine implements `BufferLoan`, over the same invariant |
| `RevCache` | the fxcell cache, its searches, the shared memory limit |
| `RevCache_proofs` | type correctness, `LocksCounted`, `LockedAreCurrent`, `HashSound`, `SimplexRefs`, `MemoryAccounted`, `LockedStay` |
| `CcastReply` | the receive thread, the reply list, `get_a_reply_id`, the session |
| `CcastReply_proofs` | type correctness, `NoOneStranded`, `ListSound`, `RepliesKept` |
| `ConfigUpdate` | processes that install, uninstall and look up display profiles in one directory |
| `ConfigUpdate_proofs` | type correctness, `ConfigWhole`, `InstallSound`, `UninstallSound`, `FilesMatch` |
| `InstTrigger` | the i1 Pro driver's threads and the cancel tokens they meet at |
| `InstTrigger_proofs` | type correctness, `TokenBalanced`, `TriggerAfterRead`, `OwnReading`, `ThreadsJoined` |
| `ProfileTags` | abstract: a profile is a set of groups, each a content and the names it is found under |
| `IccTags` | the tag table of an icc object; implements `ProfileTags` |
| `IccTags_proofs` | type correctness, `RefsCounted`, `ImplementsStore`, `WhiteKept` |
| `MCUsbTransfer`, `MCRevCache`, `MCCcastReply`, `MCConfigUpdate`, `MCInstTrigger`, `MCIccTags` | small instances for TLC |

The `Bug_...` operators in the modules are variants of a definition beside
them, as a plausible mistake would have it; each property is checked to fail
when its variant is put in. The specifications do not use them.

### UsbTransfer

One transfer is: `icoms_usb_rw` is called (`Begin`, or `Refuse` when the port is
not usable), `icoms_usb_transaction` links its request (`Link`), submits its
URBs one by one (`Submit`, `SubmitFails`), gives its token a handle
(`SetToken`), waits (`Wake`, `TimesOut`), cancels (`TimeoutCancels`,
`TimeoutCancelled`), drains, works out the result (`ComputeResult`), takes the
handle back and unlinks (`ClearToken`, `Return`). The reaper polls, reaps one
URB (`Reap`), takes it off the count (`ReaperLocks`, `ReaperDecrements`), and
signals or cancels the URBs behind a short or failed one; on failures or
shutdown it gives up (`ReaperGivesUp`), walks the requests
(`ReaperFailsRequest`) and exits. Another thread may cancel through the token
(`CancelIo`), or close the port and join the reaper (`ClosePort`,
`ClosePortJoined`).

| variables | code |
|---|---|
| `isOpen, closing, running, present, reqs` | is_open, shutdown, running, (the device), reqs of `usb_idevice` |
| `nurbs, nourbs, cancelled, reqrv, woken`, `pc, k, ctmp` | `usbio_req` and the client's place, loop index, and copy of nourbs in a register |
| `kern, stat` | where the kernel has each URB; urb.status |
| `rpc, cur, rtmp, rix, errc, todo` | the reaper's place, URB in hand, copy of nourbs, loop index, error count, requests still to walk |
| `hcancel, cix` | cancelt.hcancel; index of a cancel in progress, -1 for none (it holds cmtx meanwhile) |

Grain: what is done under one mutex without a system call in between is one
action. Where a lock is held from one action to the next the others test it
(`ReqLockFree`, `UsbdLockFree`, `CmtxFree`). Where the code touches shared data
without the lock the read and the write are two actions, which is how
`nourbs--` after a failed submission (line 866) and the submission loop appear.
Cancelling a list of URBs is one action per URB.

External, from how the code uses it: the kernel completes the URBs of one
transfer in order while the device is there, hands completed URBs out in turn,
completes a discarded one with the status the code tests for (-ECONNRESET),
completes all of them when the device goes away, and drops them when the file
is closed.

Left out: control message headers, in_usb_rw, claiming interfaces and the
retries of set_configuration, failures of calloc, and the failures of pthread
calls and of cancel_req after which a transaction stops waiting with its URBs
outstanding (896-901, 906-911, 915-921). `condx`
and `state` of the token are in `InstTrigger`, with the thread that waits for
them.

### RevCache

The library is sequential, so there is one `pc`. A caller makes, joins,
invalidates and frees instances (`MakeRev`, `InitRevaccell`, `Invalidate`,
`FreeRev`) and starts a search (`StartSearch`). A search fetches the cells of
its list (`GetCell`: throw out down to the limit with `Shed`, then `Hit`, or
`Miss` followed by `Grow` and perhaps `Resize`, or by `ReuseCell`/`ReuseFrees`,
then `Place`), has each turned down or kept (`SetSort`), and when the list ends
or there is no room (`NoRoom`) searches those it kept (`SearchCell`,
`ShareSimplex`, `NewSimplex`, `Compute`, `PassOver`), unlocking each, and goes
on with the rest (`NextChunk`). An allocation may fail (`MallocFails`): the
limit is lowered, all caches are shrunk, and it is tried once more.

| variables | code |
|---|---|
| `avail, insts, made, base, sz, maxSz` | g_avail_ram, g_rev_instances, the caches there are, what their other tables take, rev.sz, rev.max_sz |
| `mru, nunlocked, hsize, tab, sref` | mrubot..mrutop, nunlocked, cell_hash_size, the chains of hashtop, simplex reference counts |
| `ix, ref, sx, ready, data` | ix, refcount, sx, flags of a fxcell, and which cell its values were loaded for |
| `on, list, touched, stouched, lclist, cell, todo` | the search: instance, rest of its list, touch counts, cells kept, cell in hand, simplexes to set up |
| `back, retry` | which allocation has failed and is to be retried, whether this is the retry |

Which cell is chosen, turned down or passed over depends on floating point
values and is nondeterministic. The sub-simplex levels are searched as one,
their matrices are part of the simplex size, the simplex index is the table of
live simplexes (its growth is left out), touch counts are sets and do not roll
over, and g_test_ram, allocation failures while an instance is built and the
nnrev tables are left out.

### CcastReply

The thread `cc_rec_thread`: test `stop`, receive (nothing, an error, CLOSE, a
message), compare with the wanted reply without the lock, add under the lock
and signal, and at the end set `stopped` and wake the client. The client is in
`get_a_reply_id`: enter (lock, test stop), say what it wants (`SetWant`; w_rq
is set before the namespace and the id, and the thread may look in between),
then test, walk the list, wait, and leave. Around it requests are sent,
answers asked for, the session shut down, joined and started again.

| variables | code |
|---|---|
| stop, stopped | `ccast.stop`, `ccast.stopped` |
| w_rq and what is wanted | `w_rq, w_rqns, w_rqid` |
| the list: head and `next` of each node | `rmes`, `mes->next` |
| `tpc`, errors in a row | the thread |
| `cpc`, the walk, `rv`, `woken` | the client in get_a_reply_id |

Messages are numbered in the order of arrival in a session; content and
payload are left out, an answer is known by its request, and the channel by
the request. The receiver is external: it answers requests on their channel,
each once and in order when `Ordered`.

The comparison has two wildcards (157-158): a wanted channel of NULL, a wanted id
of 0. They matter once in the life of a program: the struct comes from calloc, so
that when the thread looks between `w_rq = 1` and the two assignments after it
(225-227) in the first call, any message is found, also a notice, which has no id
and otherwise never gets on the list (`ReceiveNotice`; message 0, on
`NoticeChannel`). A notice that is on the list is nobody's, so a later call on
another channel keeps it walk after walk, and since `nlist` is set once (209) the
second walk links it behind itself (241). The next walk goes round for ever with
rlock held, or meets and frees a node that was freed; so may `cleanup_ccast`
(`MayDie`, place `"dead"`).

Left out: PING and the notices nobody wants (both are `ReceiveNothing`), failures
of send, messages sent at shutdown, memory not freed.

### ConfigUpdate

Any number of processes run one of `ucmm_install_monitor_profile`,
`ucmm_uninstall_monitor_profile` and `ucmm_get_monitor_profile` (`Install`,
`Uninstall`, `Get`) in one directory. An install first copies the profile
(`CopyProfile`), outside any lock. Then the configuration is opened (`Open`) or
created (`Create`), locked with up to `LockRetries` tries (`LockBusy`,
`LockGivesUp`), read and edited in memory (`EditInstall`, `EditUninstall`, or
`ReadNothing`, `ReadProfile` and done), a profile nobody needs is unlinked
(`UnlinkProfile`), a temporary file is written (`WriteTemp`) and renamed over
the name (`Rename`). Every read and write may fail (`"io"`), and a process may
be killed anywhere (`"kill"`): what it locked is free, what it wrote stays.

| variables | code |
|---|---|
| `dir` | which file (inode) has the name of the configuration |
| `content` | the keys in each file, and whether it is all there |
| `file` | each profile in the data directory: not there, part of it, whole |
| `job` | per process: place, arguments, `jcnf.fp`, locked, tries of `jcnf_lock_file`, keys, xprofile, temporary file |
| `marred`, `job[p].alone` | history: an operation was killed, failed or met another; an operation has met no other writer |

Grain: a lock is on the inode, as flock and fcntl have it. Taking the lock and
reading the file is one step: writers rename and never write in place (but
`Create` truncates), so nothing changes under the lock. A temporary file is
private until it is renamed. `jcnf_delete_key` moves more bytes than there are;
what it reads from beyond the array is a pointer that is freed, so an uninstall
of a display that is not the last may die there (`EditDies`).

Left out: one scope only (user or local system) and not the fall back from one
to the other, returns for lack of memory, the parser's callbacks and the
generator (a file is whole or does not parse), and `jcnf_enable_modify`, which
nothing calls.

### InstTrigger

One caller of the driver measures (`Measure` to `Done`) and at the end deletes
it (`Delete` to `freed`). A measurement sets its parameters, locks `condx` of
`rd_sync` (`Reinit`), joins the trigger thread of the last one (`JoinTrigger`),
creates its own and reads: the transaction is submitted (`ReadStarts`), gets
its token, which unlocks `condx` (`SetToken`), and ends with the readings, too
many, or an error (`ReadGets`, `ReadFills`, `ReadFails`). The trigger thread
waits for `condx` (`WaitIo`) and sends the trigger. The switch thread reads
with `sw_cancel` for ten minutes at a time. The deletion sets `th_term`,
cancels that read, lingers for 250 msec, may try to terminate the thread, joins
it, destroys the tokens and joins the last trigger thread. Commands, thread
creation and reads may fail, and the reaper may die at any time.

| variables | code |
|---|---|
| `condx, state` | of the token rd_sync (`usb_cancelt`) |
| `hcancel, cancelled` | of the token sw_cancel |
| `running, pending, answer` | the port's reaper, the measurement's read with the kernel, and the readings the instrument has |
| `dpc, meas, got`, `trig, trig_thread`, `swpc` | the caller; the trigger threads and the one in `m->trig_thread`; the switch thread |
| `th_term, th_termed` | the same of `i1proimp` |
| `begun, left, kept, missed` | history: the last read started; a measurement returned between reinit and read; readings were kept without a read; the cancel came just before the switch read |

The read is what `UsbTransfer` models in detail, here in three steps; the
reaper that dies is its `ReaperGivesUp`. A measurement stands for its number.
The model has one i1 Pro (`"D"`) or i1 Pro 2 (`"E"`), which differ in that the
trigger of the second carries the parameters. The i1 Pro 3 and the ColorMunki
have the same two threads and tokens.

Left out: switch events, `hide_switch` and the waiting for the user to press
it, the kinds of error and `trig_rv`, calibration, and the parameters the
trigger thread copies.

### IccTags

A program makes an object (`New`) or reads a profile (`Open`: the table, then
'arts' and 'chad'), reads tags on demand (`Read`), and once all are loaded adds,
fills in, links, renames and deletes tags (`Add`, `SetContent`, `Link`,
`Rename`, `Delete`), asks for the size (`Size`), writes (`Write`) and deletes the
object (`Close`). Each operation is a function of the object, built as the code
is from the ones it calls: `Write` is `AddAutoTags`, `GetSize` (with its own
`AddAutoTags` and `RemTempTags`), the file, and `RemTempTags`.

| model | code |
|---|---|
| `p.tab` | data: for each sig its offset and objp |
| `p.ref`, `p.val` | refcount and contents of each element there is memory for |
| `p.useArts, wrDChad, natural, mxValid, chadmx, tempChad, tempWP` | useArts, wrDChad, naturalChad, chadmxValid, chadmx, tempChad, tempWP of `struct _icc` |
| `p.err` | e.c |
| `p.created` | what the program knows: it made the profile and did not read it |
| `disk` | the file: whether it can be read, where each tag lies and what is there |

A chad matrix stands for the white point it maps to D50. What the programs are
taken to do, from their sources: they load every tag before they change or write
any (`Editable`: iccrw.c:110, applycal.c:187, dispwin.c:2028), rename to a free
signature after deleting its tag (applycal.c:326), set the white point while they
create a profile (xmatrix.c:1807), leave 'chad' to the library, and stop after an
error. Any creation of an element can fail, when the elements there is memory for
are in use; any write can fail, also at its last flush (icc.c:10105), which
restores nothing. A written profile is read back by the next `Open`, which may
have wrDChad set or not.

Left out: the order of the table and duplicate signatures, sizes and types (a
place stands for offset and size), format and version checks, the output class
and the black point, linking or renaming 'chad' and 'wtpt', unread and dump, the
dummy write for the MD5 of a version 4 profile, read errors, and the patches
that are compiled into iccrw.

## 3. Runs

| run | instance | shows |
|---|---|---|
| `usb_split` | 1 client, transfers with a token and without, 2 URBs, all results and faults, fair | types, buffers back and pointers live, `ImplementsLoan`; no transfer reports a cancel it was not asked for; a close ends, and a transfer that is not lost track of ends with its deadline, a cancel or its time out |
| `usb_miscount` | 1 client, 2 URBs, submit | **violated**: the count stays above what is outstanding |
| `rev_pair` | 2 instances, row of 2 cells, 3 addresses, other tables of 9 bytes against a limit of 24, cells and simplexes fail | locks, chains, references and memory agree, also across instances; the shares keep to the limit; a locked cell stays |
| `rev_live` | 1 instance, row of 4, other tables of 0 or 12 bytes against a limit of 11, fair | a search ends, never for want of a cell, and visits every cell, also when the rest is over the limit |
| `rev_exact` | 1 instance, limit of exactly two cells | **violated**: a forced fetch finds no cell |
| `ccast_session` | 5 requests, 4 messages a session, a notice, errors, closing, spurious wake ups, fair | list sound, answers kept, nobody stranded; waits and shutdowns end |
| `ccast_missed` | 2 requests, no fault | **violated**: the client waits with its answer in the list |
| `config_shared` | 2 processes, 2 displays, 2 profiles, killed or failed anywhere | the configuration is always whole; an operation that meets no other writer does what it promises; undisturbed, every profile the configuration names is there, whole |
| `config_deleted` | 1 process, 2 displays, 2 profiles, no fault | **violated**: an install takes an installed profile off the directory |
| `config_replaced` | 2 processes, no fault | **violated**: a file is replaced that is not the one that was read |
| `inst_session` | 4 measurements and a deletion, all faults, fair | token balanced, trigger after read, readings its own, threads joined; measurements and the deletion end |
| `icc_session` | 2 plain tags beside wtpt, chad and arts, 2 contents, 2 white points, 4 elements | elements counted as their tags; tags behave as `ProfileTags` says; the white point is kept |

Bounds and why they are enough. USB: two URBs are the least for which a submission
fails, or the reaper cancels, while another is in flight. The run has one client,
whose transfers follow one another; several at one reaper are covered by the
proofs, in which every safety property of the run holds for any number of clients
and URBs. The liveness properties are checked for one client only. `MaxErrc` is 5 in the code and 1 in the runs: the first
failure is counted, the next one shuts the reaper down. RevCache: a limit that
holds two or three cells of a row of four makes a search hit, evict, reuse,
refuse and go on in chunks; hash sizes 1 and 2, or 2 and 3, with a fill ratio of
1 make chains collide and the index grow (the code has 367, 853, ... and 3);
sizes of 2, 1 and 1 keep a cell, a simplex and a hash entry apart. CcastReply:
a window of two requests behind the newest that may still be asked for (as
load_ccast does) gives a message too old, the wanted one and one to keep at the
same time; five requests and four messages take the program past its first call
with a notice in the list; `MaxErrc` is 20 in the code and 1 in the runs. The
notice of the run is on the media channel, so that calls on the receiver channel
keep it and calls on the media channel throw it away.
ConfigUpdate: two processes are the least that race, and hold at most two files
open beside the one with the name, so three inodes never run out; `LockRetries`
is 5 in the code and 2 in the runs, one failed try and the last. Two displays
and two profiles give a profile shared and not shared, and a key that is last
and one that is not. Displays, profiles, processes and inodes are symmetric;
only safety is checked there. InstTrigger: four measurements give the one whose
trigger is late, its successor that must not see it, and one on either side.
IccTags: two plain tags are shared, unshared, shared but half loaded, renamed and
linked again; four elements for five tags make memory run out in every operation
that takes some; two white points and the D50 that stands in for them tell a kept
white point from a lost one. The file is absent, written by the model, or `Given`:
a profile of another maker with two tags at one place, a 'chad' and no 'arts'.

Deadlock is not checked in the ChromeCast runs, where the requests are bounded
and the model stops, nor in those of the i1 Pro, where a session ends with the
driver freed or crashed, and where the code can deadlock (below), which
`MeasureEnds` and `DeleteEnds` are about.

Fairness. Every thread that can run does (weak fairness per thread). In
UsbTransfer strong fairness is given to reaping each URB, since the kernel
hands out completed URBs in turn, and to taking cmtx, since a mutex that is
released over and over is obtained. `FairSpec` has no fairness of the deadlines:
`TransactionReturns` has it as its hypothesis `DeadlineFairness`, and `CancelEnds`
does without. Nothing makes the device answer. In CcastReply a wait that nothing
disturbs ends at its time out, and no more is assumed (weak fairness of
`TimesOut`): acond_timedwait_imp (conv.c:782-790) takes its deadline from the time
of each call, so that a wake up for nothing gives the wait its whole time again.
`GetReturns` therefore excepts a client that is woken for nothing for ever, which
POSIX does not exclude, and one that walks a ring tied by a notice.
In InstTrigger a measurement's read ends, by its time out if by nothing else; a
switch read is only sure to end when it has been cancelled or the reaper is
dead, since its own time out is ten minutes; and nothing makes the driver's
patience in `Linger` run out before the thread ends. RevCache is one thread, and
ConfigUpdate and IccTags claim no liveness.

The liveness properties of `UsbTransfer` are about the transfers the code keeps
track of. `LostTrack` names the three windows in which it does not, and
`KeptTrack` is that none of them is entered:

- the reaper cancels the URBs behind a short or failed one (722-731) while the
  client is still submitting: the request is marked cancelled with a URB in
  flight, which its time out then does not cancel again;
- the decrement of line 866 crosses the reaper's (`usb_miscount`);
- the reaper gives up between the client's test of `running` (799) and its
  linking of the request (856), which then is in the list of a dead reaper.

After each of them the client may wait without a deadline. Taking a disjunct
out of `LostTrack` makes `TransactionReturns` fail. In the same way `left`,
`Overtaken` and `missed` name the windows of InstTrigger.

What the violated runs show:

- `usb_miscount`: `nourbs--` at line 866 of `usbio_lx.c` is done without the
  lock under which the reaper decrements (719). One decrement can be lost, the
  count never gets to zero, and after its time out the client waits for ever.
- `rev_exact`: with `sz == max_sz` `cache_fxcell` neither evicts (`>`) nor grows
  (`<`), and the reuse loop frees the only unlocked cell and then finds none;
  search_list stops the program with an error that "should never happen".
- `ccast_missed`: the thread decides before it takes the lock whether the
  message is the wanted one (156); one that comes while the client sets up its
  request is put in the list without a signal, and a client that times out does
  not look again.
- `config_deleted`: an install over the association of a display unlinks the
  profile the display had when no other display names it (ucmm.c:526-531), though
  ucmm.h:58-59 and ucmm.c:148-149 say "Any existing association is overwritten.
  Installed profiles are not deleted."
- `config_replaced`: the lock is on the file that was opened, and the update
  gives the name to another. A process that waits for the lock gets it on the
  file that has been replaced, reads the keys of before, and renames over the
  first one's update; both calls return ucmm_ok and one association is lost.

The models also reach these:

- with `"table"` in `Fails` a failed allocation of the larger cell index frees
  the cell `increase_revcache` is about to return (rev.c:6053);
- an allocation that fails is to lower the limit: rev_reduce_cache sets it to
  what all instances hold now, less the size asked for (rev.c:297-310). Nothing
  keeps that below the old limit: an instance may be over its share by its other
  tables, and then the limit is raised. make_rev sets it back to the machine's
  (12366) whatever has failed before, while the shares of the others stay, and
  `MemoryAccounted` says so;
- with a receiver that answers twice (`Ordered = FALSE`), with `"calloc"` and
  `"spurious"` together, or after a notice let in by the first call (section 2), a
  message of the other channel stays in the list over two walks of one call, and
  is linked behind itself because `nlist` is set once, at ccast.c:209. `"calloc"`
  is therefore not among the faults of `ccast_session`; the sessions with a notice
  are, and are the exception of `ListSound` and of `GetReturns`;
- a process that found no configuration creates one with `fopen "w"`, and so
  truncates the one another has made since; an uninstall on no configuration
  leaves an empty one behind;
- an install that is killed between unlinking the profile the display had
  (`config_deleted`) and the rename leaves an association of a file that is gone, which no uninstall can
  take away (it fails on the missing file) and only another install puts right;
- a profile is copied in outside the lock, so that another process may unlink it
  before it is in the configuration (`marred` and `alone` exclude both);
- when closing the replaced file fails, the call fails although the
  configuration has been replaced;
- a measurement that returns between `usb_reinit_cancel` and the start of its
  read (no thread, i1pro_imp.c:11414, or a dead reaper on an i1 Pro 2) leaves
  `condx` locked (`left`), against usbio.h:203 "reinit & usb_transaction's must
  balance!": the next measurement blocks in its reinit holding cmtx, and a
  deletion in its join;
- the next measurement locks `condx` (6138) before it joins the trigger thread
  (11407): if that thread has not passed its wait, because the read failed
  first, they wait for each other (`Overtaken`);
- `rd_sync` is destroyed (405) before the trigger thread that uses it is joined
  (410); `i1pro3_imp.c:442-447` has the other order;
- a cancel of the switch read that comes just before the read has its handle
  finds nothing to cancel (`missed`), and the deletion waits for the read's ten
  minutes, or forces the thread;
- that force is a call of `terminate` (i1pro_imp.c:396), which conv.h:200
  promises and new_athread_reusable does not set on UNIX (conv.c:1138-1141; the
  NT version does, 552): `Terminate` goes to `crashed`. It is reached with the
  switch thread merely slow, since `th_termed` is not looked at again after the
  fifth sleep;
- icc_add_tag_imp sets naturalChad for every 'chad' (icc.c:10702), also for the
  one icc_add_auto_tags adds, so that icc_rem_temp_tags, which tests
  !naturalChad, never takes it away and never restores the white point, against
  icc.c:9570 "will be remove once the write is complete" and icc.h:2503 (tempChad
  is set "inside ->get_size() or ->write() calls"). The absolute white point is
  kept all the same, by chadmx; and were it not so, the get_size inside write
  (9995) would undo the change before the file is written;
- for the same reason a get_size before the first write, as in icctest.c:336,
  leaves a 'chad' of zeroes that counts as natural, and the write then writes it
  as it is. `WhiteKept` excepts this with `HollowChad`; without the exception it
  fails. It also excepts an object for whose 'chad' there was no memory when it
  was opened: `icc_read` then fails, with the white point that is in 'wtpt', D50.

## 4. Proofs

`UsbTransfer_proofs`, for any number of clients and URBs:
`UsbTypeCorrect` (`TypeOK`), `UsbBuffersReturned`, `UsbReferencesLive`. Neither
of the last two is inductive. The invariant `IInv` adds where each thread can
be (`ReaperPhase`, `ClientPhase`) and, while the reaper runs, `Placed` and
`Counted`: the count `nourbs`, the client's copy of it and the reaper's copy
are each at least the number of URBs outstanding. The copies are needed
because a lost update writes one of them back; the proof shows that losing a
decrement can only make the count too high, which delays the client
(`ZeroWhenDone` fails) but never lets it return too early
(`BuffersReturned` holds). When the count is at most zero nothing is
outstanding, and the client may leave.

`UsbLoan_proofs`, for the same constants: `UsbImplementsLoan`, that every step of
every thread is a step of `BufferLoan` or none. The mapping takes a client for
busy when it is not in `idle`, a piece for lent when its URB is with the kernel or
in the reaper's hand, and the loan for served while the reaper is running. What
`IInv` gives is that a client goes back to `idle` with nothing lent, that a URB
is submitted in a transfer and not twice, and that the port is opened again only
when every client is out. Cancelling is no step of the loan: a discarded URB is
still the kernel's (`DiscardKeeps`).

`UsbCancel_proofs`, for the same constants: `UsbNoCancelUnasked`, that only
`ComputeResult` sets the result of a cancel, and only while hcancel is set
(`CancelledByToken`). A transfer
without a token may well have cancelled URBs, those behind a short or failed
one, so what is invariant is an order (`CInv`): as long as nothing asked for the
end of the transfer, every URB that is or will come back cancelled lies behind
one that is back and ended it (`EndedBy`), and the result is taken from the
first such URB. After a time out the result is already set.

`RevCache_proofs`, for any number of instances, addresses and simplexes, any
candidate lists, sizes and limits, and for cells and simplexes refused at any
time: `TypeCorrect`, `LocksBalance`, `LockedCellsCurrent`, `ChainsSound`,
`SimplexesCounted`, `MemoryWithinLimits` and `LockedCellsStay`. The properties
need one another and are proved as one invariant, `IInv`. To them it adds that
the lists of the instances have no cell in common and none twice (`ListsOK`),
that cells in no list have no lock (`CellsOK`), which cells are hashed, also in
the middle of an allocation of a larger index (`TableOK`), what a fetch knows of
the cell in hand between its miss and its lock (`PhaseOK`: the index wanted
is not hashed, the cell taken for it is clear and in no chain), and how far each step of a fetch
may be above the share (`FetchLimit`). Each part has a lemma for its step, and a
frame lemma that says which actions reach it. That the counters stay natural
numbers is a result and not an assumption: nunlocked is decremented where there
is an unlocked cell, sz where there is the memory given back. The memory count
rests on cardinalities (`Accounted`; `FreedSimplexes` says which simplexes go with
a cell), and a lowered limit on the sum of what the instances hold, a fold over a
set whose meaning `SumsAgree` and `SumsExist` settle by minimal subsets. All seven
have the hypothesis `"table" \notin Fails`, and need it: when the larger index is
refused, `increase_revcache` goes on with a cell it may have freed (rev.c:6053,
above); with `"table"` TLC finds `HashSound` violated, and behaviours in which the
cell to be locked is in no list, for which the next step has no meaning. No run
has `"table"` among its faults.

`CcastReply_proofs`, for any number of requests and messages: `CcastTypeCorrect`
(with the calls' and the pointers' phases in `TInv`) and `CcastNoOneStranded`,
whose invariant `SInv` says that a thread past its loop has set `stopped`, that
a client in the wait has set `w_rq`, and that a client walking the list has
kept the thread from taking the lock for its last signal.

For a receiver that answers in order, and messages that are not dropped for want
of memory: `CcastListSound` and `CcastRepliesKept`, from `LInv`. The list is a
chain: there is a rank that falls along `next`, so that it ends, and its nodes
are the given ones (`IsChain`); during the walk it is two of them, those kept and
those still to be looked at (`ListInv`). What the walk keeps is for later
requests, what it throws away for earlier ones (`GoneInv`), since one channel is
in use at a time (`Phase`) and answers come once each (`OrderInv`). That
following `next` from the head gives the nodes of the chain is shown by taking
the least place where it does not (`ChainFollow`), there being no induction. Both
hypotheses are needed: without one of them a call can walk the list twice with a
message in it, and nlist, set once (ccast.c:209), still points at what the first
walk kept (section 3). A notice has the same effect, so the chain is claimed for
sessions without one (`Noticed`); that no answer still to be asked for is thrown
away is claimed and proved for all.

`ConfigUpdate_proofs`, for any processes, displays, profiles, inodes, retries
and faults. `ConfigTypeCorrect` and `ConfigAlwaysWhole` rest on `TInv`: every
configuration file is whole and has at most one record of a display, a process
has the arguments its place needs, and what it renames it has written to the
end. That records are unique is needed for types too: `Place` picks the record
of a display, and after a delete there must be none. `InstallAlwaysSound` and
`UninstallAlwaysSound` rest on `SInv`: a writer that met no other is the only
one (`Sole`), and has come as far as its place says (`Progress`): copied what it
installs, put it in the keys it will write, left no profile nobody needs. The
lemmas `SetKeysSound` and `DeleteKeysSound` say what the edits do to any keys;
`OthersHarmless` that readers do not reach a sole writer, `OwnProgress` and
`BeginProgress` that its own steps keep to it. `ProfilesMatch` (`FilesMatch`) rests
on `FInv`, which is stronger: it says how far the files are those the configuration
names while the one writer is at its place (`MatchAt`: all but the profile it is
copying or has still to unlink), that they are when there is none, and that a reader which met no
writer holds the file that has the name. `OneJob`, `ReaderStep` and `StepMatch`
take apart the steps of a reader, of the writer, and of one that ends in a fault,
after which nothing is claimed.

`InstTrigger_proofs`, for any number of measurements, both kinds and all faults:
`InstTypeCorrect`, `InstTokenBalanced`, `InstTriggerAfterRead`, `InstOwnReading`
and `InstThreadsJoined`. Their common invariant `IInv` has a part for each
(`TokenInv`, `TriggerInv`, `ReadingInv`, `JoinInv`) and `ThreadInv`: the one
trigger thread that has not finished is the one the driver holds, and that of an
earlier measurement until it has been joined. From it follows that a thread that
finds `condx` unlocked finds a read started for it (`TriggerInv`), and that
readings on their way are those of the read that waits (`ReadingInv`).

`IccTags_proofs`, for any tags, contents and white points, any number of elements
and any given file: `IccTypeCorrect` and `IccRefsCounted`. Both rest on `Inv`.
`TypeOK` alone is not inductive: that an unread tag is in the file must hold over
a write that fails and leaves no file, which it does because a program writes
only with every tag loaded, and no operation unloads one. That a count does not
fall below zero needs the counting, so both are proved together: `Fits(tab, ref)`
says that each count is the number of its tags, and `Good(r)` adds that a
temporary 'chad' is a natural one, by which `NothingRemoved` shows that
`RemTempTags` has no effect. The table changes in four ways, a tag
more, a tag less, a tag renamed, all tags laid out anew, each with its lemma on
cardinalities (`Gain`, `Lose`, `Move`, `Replace`); then each operation of the
library has one lemma, and each action is one or a few of those.

For any `Given` with `FileApart(Given)`, that is a file in which no tag of the
programs lies at the place of a tag of icclib's own (wtpt, chad, arts) and whose
tags of the programs have contents in `Contents`: `IccImplementsStore` and
`IccWhiteKept`. In a file that shares such a place a program that sets the one
tag does set the other, here as in the code. `FullInv` adds to `Inv` that this
stays so for the object and for the file it writes, that before everything has
been read each element is what lies at its place and two tags have one element
just when they have one place (`AsRead`), and that each tag of the programs has a
content (`Filled`). From it the groups the programs see are those of the abstract
store (`GroupsIn`). What the library does on its own keeps their `View`
(`ReadMine`, `LayoutAside`, ...), an edit takes one group out and puts its
successor in (`Regroup`, `Renamed`), a write that succeeds saves the groups
(`FileAside`), and one that fails leaves no file. For `WhiteKept` the invariant
`White` says where the white point is: with a natural 'chad' it is in `chadmx`,
and 'chad' holds that or zeroes; without an error, 'chad' is there just when it is
natural. Every operation but setting it leaves wtpt, chad and their flags alone
(`SameWhite`), except the first get_size or write with wrDChad set, in which the
white point moves into `chadmx` (`SizeWhite`, `WriteWhite`), and opening, in
which it is read (`OpenWhite`).

The assumptions are the named ASSUMEs on the constants in each module; TLC
evaluates them in the runs.

Every type invariant, safety invariant, action property and refinement that a
passing run checks is a theorem. Only model-checked are the liveness properties,
`CloseEnds`, `TransactionReturns`, `CancelEnds`, `SearchEnds`,
`CandidatesVisited`, `GetReturns`, `ShutdownEnds`, `MeasureEnds` and `DeleteEnds`:
fairness and ENABLED are out of the prover's reach. So is induction over data,
which the proofs go around with ranks, well-founded sets and least
counterexamples.

## 5. Plan

Done: `UsbTransfer` with `BufferLoan`, `RevCache`, `CcastReply`, `ConfigUpdate`,
`InstTrigger`, which has the tokens of the USB layer in it, and `IccTags` with
`ProfileTags`; their safety properties and refinements are proved. Left, in this
order:

1. The safety facts the liveness properties rest on, as theorems: that a transfer
   that is kept track of has a URB outstanding while its client waits, that a
   forced fetch finds a cell unless `sz` is exactly `max_sz`.
2. `WebWin`: ncix and ccix between HTTP threads and the caller (also
   `ccwin.c`). Abstract: a colour set is a colour shown.
3. `CcastSession`: load_ccast's retries and NACKs and the clean-up list, over
   the abstract reply service that `CcastReply` implements.
4. `AThread` (the handshake of reusable threads), and over it `InstPoll`
   (smcube, specbos, kleink10).
5. The output class and the black point in `IccTags`.
6. Strip reading of `chartread`, CGATS tables.

Theorems worth proving: for `AThread` that nothing waits for a thread that has
gone.

## 6. Not modelled

Numerics, file formats, window systems and the serial and other platforms'
ports, as listed with reasons in `PROJECT.json`. Most of the code is of these
kinds: floating point arithmetic over matrices, spectra and grids in one thread,
and the reading and writing of files, where a model would restate the program
and TLC could only enumerate toy values. Of the modelled parts, what each
section above names as left out.
