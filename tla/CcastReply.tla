----------------------------- MODULE CcastReply -----------------------------
(***************************************************************************)
(* The reply list of a ChromeCast session, src/ccast/ccast.c.              *)
(*                                                                         *)
(* A receive thread (cc_rec_thread) links every numbered message it gets   *)
(* into a list and signals the client when it is the one the client waits  *)
(* for; the client (get_a_reply_id) walks the list for the answer to a     *)
(* request, keeps what it does not want, and waits when there is none.     *)
(* start_ccast starts the thread, cleanup_ccast stops and joins it.        *)
(*                                                                         *)
(* rlock is held by the client from one action to the next while it looks  *)
(* at the list; the thread's two locked sections are one action each.  The *)
(* thread reads the request (w_rq, w_rqns, w_rqid) without the lock.       *)
(*                                                                         *)
(* A message is a node of the list, numbered in the order of arrival       *)
(* within the session; the receiver answers a request on the channel it    *)
(* was made on, so a message is the id of the request it answers, or 0 for *)
(* a notice, which answers none and comes on a channel of its own.         *)
(***************************************************************************)
EXTENDS Integers, Sequences, FiniteSets

CONSTANTS
    Receiver, Media,  \* the two channels replies are waited for on
    NoticeChannel,    \* the channel of the notices
    NoChannel,        \* w_rqns is NULL
    MaxReq,           \* bound on the request ids of the program's life
    MaxMsgs,          \* bound on the messages of one session
    Window,           \* requests that may be outstanding (2 in load_ccast)
    MaxErrc,          \* receive failures in a row tolerated (20 in the code)
    Ordered,          \* the receiver answers each request once, in order
    Faults            \* which of "calloc", "close", "error", "spurious" happen

ASSUME ChannelsAssumption ==
    Receiver # Media /\ NoChannel \notin {Receiver, Media, NoticeChannel}
ASSUME BoundsAssumption   ==
    /\ MaxReq \in Nat \ {0} /\ MaxMsgs \in Nat \ {0}
    /\ Window \in Nat \ {0} /\ MaxErrc \in Nat
ASSUME OrderedAssumption  == Ordered \in BOOLEAN
ASSUME FaultsAssumption   == Faults \subseteq {"calloc", "close", "error", "spurious"}

VARIABLES
    (* struct _ccast: the flags, the request of the waiting client, the list *)
    stop, stopped, wrq, wns, wid, head, next,
    (* the nodes: the request each one answers, and those off the list for good *)
    mes, gone,
    (* the receive thread: place, message in hand, found, errc *)
    tpc, got, found, errc,
    (* the client: place, requests, locals of get_a_reply_id, the wait *)
    cpc, chan, first, launched, walk, nlist, fmes, rv, woken,
    (* the receiver: requests it may still answer *)
    pending

flagVars   == <<stop, stopped>>
wantVars   == <<wrq, wns, wid>>
listVars   == <<head, next>>
nodeVars   == <<mes, gone>>
threadVars == <<tpc, got, found, errc>>
reqVars    == <<chan, first, launched>>
walkVars   == <<walk, nlist, fmes>>
vars == <<flagVars, wantVars, listVars, nodeVars, threadVars, cpc, reqVars,
          walkVars, rv, woken, pending>>

Nil      == 0
Nodes    == 1..MaxMsgs
Ids      == 1..MaxReq
Channels == {Receiver, Media}
\* where the client is: outside get_a_reply_id, or inside it
Inside   == {"enter", "want", "test", "walk", "wait", "leave", "return"}
ClientPc == {"down", "idle", "join", "dead"} \union Inside
ThreadPc == {"none", "test", "receive", "add", "stopped", "release"}

lastId == Len(chan)

\* mes->namespace
ChannelOf(i) == IF i = 0 THEN NoticeChannel ELSE chan[i]

\* rlock: held by the client while it sets up its request and walks the list
RlockFree == cpc \notin {"want", "test", "walk", "leave", "dead"}

\* The walk meets again a node that was freed, or the list has one or does not
\* end when it is freed: the program may not survive it
MayDie(c, bad) == cpc' \in {c} \union (IF bad THEN {"dead"} ELSE {})

Stopping == stop \/ stopped

Init ==
    /\ stop = FALSE /\ stopped = FALSE
    /\ wrq = FALSE /\ wns = NoChannel /\ wid = 0
    /\ head = Nil /\ next = [n \in Nodes |-> Nil]
    /\ mes = <<>> /\ gone = {}
    /\ tpc = "none" /\ got = 0 /\ found = FALSE /\ errc = 0
    /\ cpc = "down" /\ chan = <<>> /\ first = 1 /\ launched = FALSE
    /\ walk = Nil /\ nlist = Nil /\ fmes = Nil /\ rv = 0 /\ woken = FALSE
    /\ pending = {}

(***************************************************************************)
(* The receive thread, cc_rec_thread                                       *)
(***************************************************************************)

\* (bug variant: a loop that does not look at the stop flag)
Bug_NeverStops == FALSE

\* The condition of the loop
MustStop == stop

ThreadTest ==
    /\ tpc = "test"
    /\ tpc' = IF MustStop THEN "stopped" ELSE "receive"
    /\ UNCHANGED <<got, found, errc>>
    /\ UNCHANGED <<flagVars, wantVars, listVars, nodeVars, cpc, reqVars, walkVars,
                   rv, woken, pending>>

\* receive timed out, or got a PING or a notice that is not wanted
ReceiveNothing ==
    /\ tpc = "receive"
    /\ errc' \in {errc, 0}
    /\ tpc' = "test"
    /\ UNCHANGED <<got, found>>
    /\ UNCHANGED <<flagVars, wantVars, listVars, nodeVars, cpc, reqVars, walkVars,
                   rv, woken, pending>>

\* (bug variant: the thread never gives up)
Bug_NoLimit == FALSE

\* errc++ > 20
TooManyErrors == errc > MaxErrc

\* receive failed
ReceiveError ==
    /\ tpc = "receive" /\ "error" \in Faults
    /\ errc' = IF errc > MaxErrc + 1 THEN errc ELSE errc + 1
    /\ tpc' = IF TooManyErrors THEN "stopped" ELSE "test"
    /\ UNCHANGED <<got, found>>
    /\ UNCHANGED <<flagVars, wantVars, listVars, nodeVars, cpc, reqVars, walkVars,
                   rv, woken, pending>>

ReceiveClose ==
    /\ tpc = "receive" /\ "close" \in Faults
    /\ errc' = 0
    /\ tpc' = "stopped"
    /\ UNCHANGED <<got, found>>
    /\ UNCHANGED <<flagVars, wantVars, listVars, nodeVars, cpc, reqVars, walkVars,
                   rv, woken, pending>>

\* The requests the receiver may answer now: external
Answerable ==
    IF Ordered THEN {i \in pending : \A j \in pending : i <= j} ELSE pending

\* The thread looks at the request without the lock: while the client is setting
\* it up it sees the old or the new value of each of its two fields
SeenNs == {wns} \union (IF cpc = "want" THEN {chan[first]} ELSE {})
SeenId == {wid} \union (IF cpc = "want" THEN {first} ELSE {})

\* What the thread may find: that the client waits for this message, on any
\* channel and for any id while the program has never asked for one, or not
Wanted(i) ==
    {b \in BOOLEAN : \E x \in SeenNs, y \in SeenId :
        b <=> wrq /\ x \in {NoChannel, ChannelOf(i)} /\ y \in {0, i}}

\* nmes is allocated for message i, or calloc fails and the message is dropped
Accept(i) ==
    /\ got' = i
    /\ tpc' \in {"add"} \union (IF "calloc" \in Faults THEN {"test"} ELSE {})
    /\ errc' = 0
    /\ UNCHANGED <<flagVars, wantVars, listVars, nodeVars, cpc, reqVars, walkVars,
                   rv, woken>>

\* A reply: it goes on the list whether it is wanted now or not
ReceiveReply ==
    /\ tpc = "receive" /\ Len(mes) < MaxMsgs
    /\ \E i \in Answerable :
        /\ pending' = IF Ordered THEN pending \ {i} ELSE pending
        /\ found' \in Wanted(i)
        /\ Accept(i)

\* A notice: it goes on the list only when it is found to be wanted
ReceiveNotice ==
    /\ tpc = "receive" /\ Len(mes) < MaxMsgs
    /\ TRUE \in Wanted(0) /\ found' = TRUE
    /\ Accept(0)
    /\ UNCHANGED pending

\* (bug variant: p->rmes is set before nmes->next is)
Bug_SelfLink(n, h) == [next EXCEPT ![n] = n]

\* nmes->next = p->rmes
LinkedBefore(n, h) == [next EXCEPT ![n] = h]

\* Under rlock: put the message at the head and signal the client if found
ThreadAdd ==
    /\ tpc = "add" /\ RlockFree
    /\ LET n == Len(mes) + 1 IN
        /\ mes' = Append(mes, got)
        /\ next' = LinkedBefore(n, head)
        /\ head' = n
    /\ woken' = (woken \/ (found /\ cpc = "wait"))
    /\ tpc' = "test"
    /\ UNCHANGED <<got, found, errc>>
    /\ UNCHANGED <<flagVars, wantVars, gone, cpc, reqVars, walkVars, rv, pending>>

\* p->stopped = 1, without the lock
ThreadStopped ==
    /\ tpc = "stopped"
    /\ stopped' = TRUE
    /\ tpc' = "release"
    /\ UNCHANGED <<got, found, errc, stop>>
    /\ UNCHANGED <<wantVars, listVars, nodeVars, cpc, reqVars, walkVars, rv, woken, pending>>

\* (bug variant: releasing the client only when it is told to stop)
Bug_OnlyOnStop == wrq /\ stop

\* The client is to be released when the thread goes
Release == wrq

ThreadRelease ==
    /\ tpc = "release" /\ RlockFree
    /\ woken' = (woken \/ (Release /\ cpc = "wait"))
    /\ tpc' = "none"
    /\ UNCHANGED <<got, found, errc>>
    /\ UNCHANGED <<flagVars, wantVars, listVars, nodeVars, cpc, reqVars, walkVars,
                   rv, pending>>

Thread ==
    \/ ThreadTest \/ ReceiveNothing \/ ReceiveError \/ ReceiveClose
    \/ ReceiveReply \/ ReceiveNotice \/ ThreadAdd \/ ThreadStopped \/ ThreadRelease

(***************************************************************************)
(* The client: its session                                                 *)
(***************************************************************************)

\* start_ccast: a new connection and a new thread.  The list is empty; the
\* request ids go on from the last session
Start ==
    /\ cpc = "down" /\ lastId < MaxReq
    /\ stop' = FALSE /\ stopped' = FALSE
    /\ tpc' = "test" /\ errc' = 0
    /\ cpc' = "idle" /\ first' = lastId + 1 /\ launched' = FALSE
    /\ UNCHANGED <<wantVars, listVars, nodeVars, got, found, chan, walkVars, rv,
                   woken, pending>>

\* LAUNCH on the receiver channel until it is answered, LOADs on the media
\* channel afterwards; a LAUNCH is waited for before anything else is sent
Send ==
    /\ cpc = "idle" /\ lastId < MaxReq
    /\ lastId - first + 1 < (IF launched THEN Window ELSE 1)
    /\ chan' = Append(chan, IF launched THEN Media ELSE Receiver)
    /\ pending' = pending \union {lastId + 1}
    /\ UNCHANGED <<flagVars, wantVars, listVars, nodeVars, threadVars, cpc, first,
                   launched, walkVars, rv, woken>>

\* Wait for the answer to the oldest request
Get ==
    /\ cpc = "idle" /\ first <= lastId
    /\ cpc' = "enter"
    /\ UNCHANGED <<flagVars, wantVars, listVars, nodeVars, threadVars, reqVars,
                   walkVars, rv, woken, pending>>

\* shutdown_ccast and cleanup_ccast up to the wait for the thread
Shutdown ==
    /\ cpc = "idle"
    /\ stop' = TRUE
    /\ cpc' = "join"
    /\ UNCHANGED <<stopped, wantVars, listVars, nodeVars, threadVars, reqVars,
                   walkVars, rv, woken, pending>>

\* Following the list from p->rmes for one step more than there are nodes
Follow[k \in 0..MaxMsgs + 1] ==
    IF k = 0 THEN head ELSE IF Follow[k-1] = Nil THEN Nil ELSE next[Follow[k-1]]
Listed == {Follow[k] : k \in 0..MaxMsgs + 1} \ {Nil}

Endless == Follow[MaxMsgs + 1] # Nil

\* The thread has set stopped and been joined: free the list
Joined ==
    /\ cpc = "join" /\ stopped /\ tpc = "none"
    /\ MayDie("down", Endless \/ Listed \intersect gone # {})
    /\ head' = Nil /\ next' = [n \in Nodes |-> Nil]
    /\ mes' = <<>> /\ gone' = {}
    /\ pending' = {}
    /\ UNCHANGED <<flagVars, wantVars, threadVars, reqVars, walkVars, rv, woken>>

(***************************************************************************)
(* The client: get_a_reply_id                                              *)
(***************************************************************************)

\* Take rlock; go no further when the thread is stopping
Enter ==
    /\ cpc = "enter"
    /\ walk' = Nil /\ nlist' = Nil /\ fmes' = Nil
    /\ IF Stopping
       THEN cpc' = "return" /\ UNCHANGED wrq
       ELSE cpc' = "want" /\ wrq' = TRUE
    /\ rv' = 0
    /\ UNCHANGED <<flagVars, wns, wid, listVars, nodeVars, threadVars, reqVars,
                   woken, pending>>

\* w_rq is set before the channel and the id, and the thread may look between
SetWant ==
    /\ cpc = "want"
    /\ wns' = chan[first] /\ wid' = first
    /\ cpc' = "test"
    /\ UNCHANGED <<flagVars, wrq, listVars, nodeVars, threadVars, reqVars, walkVars,
                   rv, woken, pending>>

\* The condition of the loop, and the start of a walk of the list.  nlist is
\* not reset
Test ==
    /\ cpc = "test"
    /\ IF Stopping
       THEN cpc' = "leave" /\ UNCHANGED walk
       ELSE cpc' = "walk" /\ walk' = head
    /\ UNCHANGED <<flagVars, wantVars, listVars, nodeVars, threadVars, reqVars,
                   nlist, fmes, rv, woken, pending>>

SameChannel(n) == ChannelOf(mes[n]) = chan[first]

\* (bug variant: every other answer of the channel is thrown away)
Bug_NotOurs(n) == SameChannel(n) /\ mes[n] # first

TooOld(n)      == SameChannel(n) /\ mes[n] < first
Ours(n)        == SameChannel(n) /\ mes[n] = first

\* One node: throw it away, take it, or keep it in the list
WalkNode ==
    /\ cpc = "walk" /\ walk # Nil
    /\ walk' = next[walk]
    /\ MayDie("walk", TooOld(walk) /\ walk \in gone)
    /\ \/ /\ TooOld(walk)
          /\ gone' = gone \union {walk}
          /\ UNCHANGED <<fmes, next, nlist>>
       \/ /\ Ours(walk)
          /\ fmes' = walk
          /\ gone' = gone \union {walk}
          /\ UNCHANGED <<next, nlist>>
       \/ /\ ~TooOld(walk) /\ ~Ours(walk)
          /\ next' = [next EXCEPT ![walk] = nlist]
          /\ nlist' = walk
          /\ UNCHANGED <<fmes, gone>>
    /\ UNCHANGED <<flagVars, wantVars, head, mes, threadVars, reqVars, rv, woken, pending>>

\* (bug variant: the kept messages are not put back)
Bug_KeepHead == head

\* p->rmes = nlist
PutBack == nlist

\* The end of the walk: got it, or let go of rlock and wait
WalkEnds ==
    /\ cpc = "walk" /\ walk = Nil
    /\ head' = PutBack
    /\ cpc' = IF fmes # Nil THEN "leave" ELSE "wait"
    /\ woken' = FALSE
    /\ UNCHANGED <<flagVars, wantVars, next, nodeVars, threadVars, reqVars, walkVars,
                   rv, pending>>

\* acond_timedwait returns 0: signalled
WakeUp ==
    /\ cpc = "wait" /\ woken
    /\ cpc' = "test"
    /\ UNCHANGED <<flagVars, wantVars, listVars, nodeVars, threadVars, reqVars,
                   walkVars, rv, woken, pending>>

\* acond_timedwait returns 0 without a signal, which POSIX allows
StrayWake ==
    /\ cpc = "wait" /\ ~woken /\ "spurious" \in Faults
    /\ cpc' = "test"
    /\ UNCHANGED <<flagVars, wantVars, listVars, nodeVars, threadVars, reqVars,
                   walkVars, rv, woken, pending>>

\* acond_timedwait returns ETIMEDOUT
TimesOut ==
    /\ cpc = "wait"
    /\ rv' = 2
    /\ cpc' = "leave"
    /\ UNCHANGED <<flagVars, wantVars, listVars, nodeVars, threadVars, reqVars,
                   walkVars, woken, pending>>

\* p->w_rq = 0 and let go of rlock
Leave ==
    /\ cpc = "leave"
    /\ wrq' = FALSE
    /\ cpc' = "return"
    /\ UNCHANGED <<flagVars, wns, wid, listVars, nodeVars, threadVars, reqVars,
                   walkVars, rv, woken, pending>>

\* The result.  It is an error when the thread is stopping, even if the message
\* was found.  After an error the callers shut the session down, or leave it as
\* it is when they have tried often enough, and never ask for these answers
\* again (a LAUNCH that failed always shuts it down).  A reply to the LAUNCH
\* launches the application, or has the client ask for another one
Return ==
    /\ cpc = "return"
    /\ walk' = Nil /\ nlist' = Nil /\ fmes' = Nil /\ rv' = 0
    /\ LET failed == Stopping \/ rv # 0 IN
        \/ /\ failed
           /\ stop' = TRUE /\ cpc' = "join"
           /\ UNCHANGED <<first, launched>>
        \/ /\ failed /\ launched
           /\ first' = lastId + 1 /\ cpc' = "idle"
           /\ UNCHANGED <<stop, launched>>
        \/ /\ ~failed
           /\ first' = first + 1 /\ cpc' = "idle"
           /\ launched' \in {TRUE, launched}
           /\ UNCHANGED stop
    /\ UNCHANGED <<stopped, wantVars, listVars, nodeVars, threadVars, chan, woken, pending>>

Client ==
    \/ Enter \/ SetWant \/ Test \/ WalkNode \/ WalkEnds \/ WakeUp \/ Leave \/ Return

Session == Start \/ Send \/ Get \/ Shutdown \/ Joined

Next == Thread \/ Client \/ StrayWake \/ TimesOut \/ Session

Spec == Init /\ [][Next]_vars

\* Every thread goes on, receive returns at its own time out, a wait that is not
\* disturbed ends at its deadline (each call of acond_timedwait takes a new one),
\* and the thread is joined when it ends
FairSpec ==
    /\ Spec
    /\ WF_vars(Thread) /\ WF_vars(Client) /\ WF_vars(TimesOut) /\ WF_vars(Joined)

(***************************************************************************)
(* Properties                                                              *)
(***************************************************************************)

FlagTypes ==
    /\ stop \in BOOLEAN /\ stopped \in BOOLEAN
    /\ wrq \in BOOLEAN /\ wns \in Channels \union {NoChannel} /\ wid \in Ids \union {0}
ListTypes ==
    /\ head \in Nodes \union {Nil} /\ next \in [Nodes -> Nodes \union {Nil}]
    /\ mes \in Seq(Ids \union {0}) /\ Len(mes) <= MaxMsgs /\ gone \subseteq 1..Len(mes)
ThreadTypes ==
    /\ tpc \in ThreadPc /\ got \in Ids \union {0} /\ found \in BOOLEAN
    /\ errc \in 0..MaxErrc + 2 /\ (tpc = "test" => errc <= MaxErrc + 1)
RequestTypes ==
    /\ cpc \in ClientPc /\ chan \in Seq(Channels) /\ Len(chan) <= MaxReq
    /\ first \in 1..MaxReq + 1 /\ launched \in BOOLEAN
    /\ pending \subseteq 1..Len(chan)
WalkTypes ==
    /\ walk \in Nodes \union {Nil} /\ nlist \in Nodes \union {Nil}
    /\ fmes \in Nodes \union {Nil}
    /\ rv \in {0, 2} /\ woken \in BOOLEAN

\* Types, and: the thread goes round its loop only while the failures of receive
\* are within the limit (errc++ > 20 in cc_rec_thread)
TypeOK == FlagTypes /\ ListTypes /\ ThreadTypes /\ RequestTypes /\ WalkTypes

\* A notice has been put on the list of this session
Noticed == \E n \in 1..Len(mes) : mes[n] = 0

\* Whenever the client is not in the middle of its walk, the list ends, and
\* holds exactly the messages that were put in it and neither thrown away nor
\* taken (get_a_reply_id relinks the list, the thread pushes at its head).  A
\* notice, which only the first call of the program can let in, is kept over two
\* walks of a later call and then linked behind itself: such sessions are left
\* out here
ListSound ==
    cpc # "walk" /\ ~Noticed =>
        /\ ~Endless
        /\ Listed = (1..Len(mes)) \ gone

\* No answer to a request that has still to be asked for is lost: the client
\* throws away what is older than the request it waits for, and nothing else
RepliesKept ==
    ~Stopping => \A n \in gone : mes[n] < first \/ n = fmes

\* The client never waits, unsignalled, for a thread that has gone: stopped is
\* set without the lock, and the signal is sent with it
NoOneStranded ==
    cpc = "wait" /\ tpc = "none" => woken

\* "Until we've got our message, we time out, or the thread is being stopped"
\* (ccast.c:229): the client does not wait, unsignalled, for a message that is
\* in the list
NotMissed ==
    cpc = "wait" /\ ~woken => \A n \in Listed : ~Ours(n)

\* get_a_reply_id returns, whatever the receiver does, unless its waits are woken
\* for nothing again and again: each wake up gives the wait the whole time out
\* anew (acond_timedwait_imp takes its deadline from the time of the call), or a
\* notice has tied the list into a ring, which the walk goes round
GetReturns ==
    \/ []<><<StrayWake>>_vars
    \/ (cpc = "enter") ~> (cpc \in {"idle", "join"} \/ (Noticed /\ Endless))

\* cleanup_ccast comes to an end: the thread sees stop, sets stopped and is joined
ShutdownEnds == (cpc = "join") ~> (cpc \in {"down", "dead"})
=============================================================================
