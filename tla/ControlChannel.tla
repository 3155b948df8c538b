-------------------------- MODULE ControlChannel --------------------------
(***************************************************************************)
(* MtlWorkerProcessControlChannel: a socket pair to a worker process that  *)
(* is started by the first transaction, a reader thread that files the     *)
(* answers by request id, and a teardown that closes the socket, joins the *)
(* reader and kills the process.  Any number of threads may transact on    *)
(* one channel while another one tears it down.                            *)
(*                                                                         *)
(* thr[t] is the calling thread t: the transaction it is in (chan, req,    *)
(* resp, ret: the label to return to), the teardown it is in (chan, cret), *)
(* and the locals of its callers, which the modules above this one use.    *)
(***************************************************************************)
EXTENDS WorkerProcess, Sequences, FiniteSetsExt

CONSTANTS
    Channels,   \* channel slots, 1..n; a slot is used again once nobody refers to it
    Ids,        \* request ids, 1..n; an id is used again once no trace of it is left
    Exit,       \* the thread that runs the manager's destructor
    MaxFaults   \* crashes, hangs, failed sessions, slow answers and refusals

Threads == Graphs \cup {Exit}

VARIABLES
    chan,       \* [Channels -> the Impl of a channel]
    toWorker,   \* [Channels -> Seq of requests]   the socket, towards the worker
    toClient,   \* [Channels -> Seq of events]     the socket, towards the reader
    proc,       \* [Channels -> the worker process behind the socket]
    thr,        \* [Threads -> thread state]
    faults,     \* faults so far
    aborted     \* std::terminate was called in the client process

NoChannel == 0
NoRequest == [kind |-> "none", id |-> 0, by |-> "none", graph |-> NoGraph, runtime |-> NoRuntime]
NoEvent   == [kind |-> "none", id |-> 0, by |-> "none", graph |-> NoGraph, arg |-> "none"]
Failed    == [NoEvent EXCEPT !.kind = "failed"]

NewChannel == [fd |-> FALSE, pid |-> FALSE, reader |-> "none", failed |-> FALSE,
               shutdown |-> FALSE, responses |-> {}, handlers |-> {}]

ChannelInit ==
    /\ chan = [c \in Channels |-> NewChannel]
    /\ toWorker = [c \in Channels |-> <<>>]
    /\ toClient = [c \in Channels |-> <<>>]
    /\ proc = [c \in Channels |-> NoWorker]
    /\ faults = 0
    /\ aborted = FALSE

Healthy(c) == ~chan[c].shutdown /\ ~chan[c].failed /\ chan[c].pid /\ chan[c].fd
WorkerStarted(c) == chan[c].pid /\ chan[c].fd

MayFault == faults < MaxFaults
Fault == MayFault /\ faults' = faults + 1

-----------------------------------------------------------------------------
\* Request ids.  The clients and the manager count separately, so a request
\* of one may carry the id of a request of the other; two requests of the
\* same counter never share one.

IdsInUse(by, cs) ==
    LET onTheWay == UNION {Range(toWorker[c]) \cup Range(toClient[c]) \cup chan[c].responses : c \in cs}
        pending  == {thr[t].req : t \in {u \in Threads : thr[u].chan \in cs}}
    IN {e.id : e \in {x \in onTheWay \cup pending : x.by = by}}

OtherCounter(by) == IF by = "client" THEN "manager" ELSE "client"

NextIds(by, c) ==
    LET unused == Ids \ (IdsInUse("client", Channels) \cup IdsInUse("manager", Channels)) IN
    {i \in unused : \A j \in unused : i <= j}
    \cup (IdsInUse(OtherCounter(by), {c}) \ IdsInUse(by, Channels))

-----------------------------------------------------------------------------
\* transact_with_fds, run by thread t on channel thr[t].chan.

\* Thread t (with other fields set by the caller) enters a transaction.
Calling(th, c, r, ret) == [th EXCEPT !.pc = "ensure", !.chan = c, !.req = r, !.ret = ret]

Request(t, th, kind, by, id) ==
    [kind |-> kind, id |-> id, by |-> by,
     graph |-> IF kind \in {"StartSessions", "StopSessions", "Stats"} THEN t ELSE NoGraph,
     runtime |-> IF kind \in {"ConfigHandshake", "StartSessions"} THEN th.rt ELSE NoRuntime]

Return(t, ev) == thr' = [thr EXCEPT ![t].pc = thr[t].ret, ![t].resp = ev, ![t].req = NoRequest,
                                   ![t].ret = "idle"]

\* mark_channel_failed_no_lock
MarkedFailed(ch) == [ch EXCEPT !.failed = TRUE]

\* ensure_worker_started, the part under state_mutex.
EnsureChecked(t) ==
    LET c == thr[t].chan IN
    /\ thr[t].pc = "ensure"
    /\ IF chan[c].shutdown \/ chan[c].failed
       THEN Return(t, Failed)
       ELSE thr' = [thr EXCEPT ![t].pc = "start"]
    /\ UNCHANGED <<chan, toWorker, toClient, proc, faults, aborted>>

\* ensure_worker_started, the part without a lock, and the write under
\* write_mutex; a write that fails fails the channel.
Send(t) ==
    LET c == thr[t].chan IN
    /\ thr[t].pc = "start"
    /\ WorkerStarted(c)
    /\ IF proc[c].alive
       THEN /\ toWorker' = [toWorker EXCEPT ![c] = Append(@, thr[t].req)]
            /\ thr' = [thr EXCEPT ![t].pc = "wait"]
            /\ UNCHANGED chan
       ELSE /\ chan' = [chan EXCEPT ![c] = MarkedFailed(@)]
            /\ Return(t, Failed)
            /\ UNCHANGED toWorker
    /\ UNCHANGED <<toClient, proc, faults, aborted>>

\* The first transaction starts the worker.  A channel that another thread
\* closes after the check above no longer counts as started either, so its
\* worker is started again; assigning the reader thread while the old one
\* has not been joined is std::terminate.
StartWorkerAndSend(t) ==
    LET c == thr[t].chan IN
    /\ thr[t].pc = "start"
    /\ ~WorkerStarted(c)
    /\ IF chan[c].reader # "none"
       THEN /\ aborted' = TRUE
            /\ UNCHANGED <<chan, toWorker, toClient, proc, thr>>
       ELSE /\ chan' = [chan EXCEPT ![c].fd = TRUE, ![c].pid = TRUE, ![c].reader = "running"]
            /\ proc' = [proc EXCEPT ![c] = NewWorker]
            /\ toWorker' = [toWorker EXCEPT ![c] = <<thr[t].req>>]
            /\ toClient' = [toClient EXCEPT ![c] = <<>>]
            /\ thr' = [thr EXCEPT ![t].pc = "wait"]
            /\ UNCHANGED aborted
    /\ UNCHANGED faults

\* The executable is gone, or socketpair or fork fails.
StartWorkerFails(t) ==
    /\ thr[t].pc = "start"
    /\ ~WorkerStarted(thr[t].chan)
    /\ Fault
    /\ Return(t, Failed)
    /\ UNCHANGED <<chan, toWorker, toClient, proc, aborted>>

ResponsesFor(t) == {e \in chan[thr[t].chan].responses : e.id = thr[t].req.id}

\* wait_for_response: an answer that is there wins over a failure.
WaitEnds(t) ==
    LET c == thr[t].chan IN
    /\ thr[t].pc = "wait"
    /\ \/ \E e \in ResponsesFor(t) :
            /\ Return(t, e)
            /\ chan' = [chan EXCEPT ![c].responses = @ \ {e}]
       \/ /\ ResponsesFor(t) = {}
          /\ chan[c].failed \/ chan[c].shutdown
          /\ Return(t, Failed)
          /\ UNCHANGED chan
    /\ UNCHANGED <<toWorker, toClient, proc, faults, aborted>>

\* The time-out fails the channel for everybody.  It fires because the
\* worker hangs, or (a fault) because it is slow.
WaitTimesOut(t) ==
    LET c == thr[t].chan IN
    /\ thr[t].pc = "wait"
    /\ ResponsesFor(t) = {}
    /\ ~chan[c].failed /\ ~chan[c].shutdown
    /\ IF proc[c].hung THEN UNCHANGED faults ELSE Fault
    /\ chan' = [chan EXCEPT ![c] = MarkedFailed(@)]
    /\ Return(t, Failed)
    /\ UNCHANGED <<toWorker, toClient, proc, aborted>>

-----------------------------------------------------------------------------
\* shutdown_noexcept, run by thread t on channel thr[t].chan.

Closing(th, c, cret) ==
    [th EXCEPT !.pc = "close", !.chan = c, !.cret = cret, !.resp = NoEvent]

CloseSocket(t) ==
    LET c == thr[t].chan IN
    /\ thr[t].pc = "close"
    /\ chan' = [chan EXCEPT ![c].shutdown = TRUE, ![c].fd = FALSE]
    /\ thr' = [thr EXCEPT ![t].pc = "join"]
    /\ UNCHANGED <<toWorker, toClient, proc, faults, aborted>>

JoinReader(t) ==
    LET c == thr[t].chan IN
    /\ thr[t].pc = "join"
    /\ chan[c].reader # "running"
    /\ chan' = [chan EXCEPT ![c].reader = "none"]
    /\ thr' = [thr EXCEPT ![t].pc = "terminate"]
    /\ UNCHANGED <<toWorker, toClient, proc, faults, aborted>>

\* The last step kills the process and clears the maps.
TerminateProcess(t, after) ==
    LET c == thr[t].chan IN
    /\ thr[t].pc = "terminate"
    /\ proc' = [proc EXCEPT ![c] = NoWorker]
    /\ toWorker' = [toWorker EXCEPT ![c] = <<>>]
    /\ toClient' = [toClient EXCEPT ![c] = <<>>]
    /\ chan' = [chan EXCEPT ![c] = after]
    /\ UNCHANGED <<faults, aborted>>

\* The channel after it, with whatever another thread started meanwhile.
Terminated(ch) ==
    [ch EXCEPT !.pid = FALSE, !.responses = {}, !.handlers = {}, !.failed = TRUE]

-----------------------------------------------------------------------------
\* The reader thread of channel c.

\* insert_or_assign by request id; nothing is filed on a failed channel, and
\* the thread ends.
ReaderFiles(c) ==
    /\ chan[c].reader = "running"
    /\ toClient[c] # <<>>
    /\ toClient' = [toClient EXCEPT ![c] = Tail(@)]
    /\ chan' = [chan EXCEPT ![c] =
         IF chan[c].shutdown \/ chan[c].failed
         THEN [@ EXCEPT !.reader = "ended"]
         ELSE [@ EXCEPT !.responses = {e \in chan[c].responses : e.id # Head(toClient[c]).id}
                                      \cup {Head(toClient[c])}]]
    /\ UNCHANGED <<toWorker, proc, thr, faults, aborted>>

\* Mutant: the reader ends at end of file without failing the channel.
ReaderFails_Silent(c) ==
    /\ chan[c].reader = "running"
    /\ toClient[c] = <<>>
    /\ ~chan[c].fd \/ ~proc[c].alive
    /\ chan' = [chan EXCEPT ![c].reader = "ended"]
    /\ UNCHANGED <<toWorker, toClient, proc, thr, faults, aborted>>

\* End of file or a socket closed under the read: notify_reader_failed.
ReaderFails(c) ==
    /\ chan[c].reader = "running"
    /\ toClient[c] = <<>>
    /\ ~chan[c].fd \/ ~proc[c].alive
    /\ chan' = [chan EXCEPT ![c] = [MarkedFailed(@) EXCEPT !.reader = "ended"]]
    /\ UNCHANGED <<toWorker, toClient, proc, thr, faults, aborted>>

-----------------------------------------------------------------------------
\* The main loop of the worker process behind channel c.

\* Handle one request and write its event; a write to a closed socket and a
\* Shutdown both end the process.
WorkerHandles(c) ==
    /\ proc[c].alive /\ ~proc[c].hung
    /\ toWorker[c] # <<>>
    /\ \E o \in Handle(proc[c], Head(toWorker[c])) :
         /\ IF o.fault THEN Fault ELSE UNCHANGED faults
         /\ proc' = [proc EXCEPT ![c] = IF chan[c].fd /\ ~o.w.shutdown THEN o.w ELSE NoWorker]
         /\ toClient' = [toClient EXCEPT ![c] = IF chan[c].fd THEN Append(@, o.ev) ELSE @]
    /\ toWorker' = [toWorker EXCEPT ![c] = Tail(@)]
    /\ UNCHANGED <<chan, thr, aborted>>

\* Reading from a closed socket ends the process.
WorkerReadsEof(c) ==
    /\ proc[c].alive /\ ~proc[c].hung
    /\ toWorker[c] = <<>>
    /\ ~chan[c].fd
    /\ proc' = [proc EXCEPT ![c] = NoWorker]
    /\ UNCHANGED <<chan, toWorker, toClient, thr, faults, aborted>>

\* Faults of a worker whose channel is being torn down are not visible.
WorkerCrashes(c) ==
    /\ proc[c].alive /\ ~chan[c].shutdown
    /\ Fault
    /\ proc' = [proc EXCEPT ![c] = NoWorker]
    /\ toWorker' = [toWorker EXCEPT ![c] = <<>>]
    /\ UNCHANGED <<chan, toClient, thr, aborted>>

WorkerHangs(c) ==
    /\ proc[c].alive /\ ~proc[c].hung /\ ~chan[c].shutdown
    /\ Fault
    /\ proc' = [proc EXCEPT ![c].hung = TRUE]
    /\ UNCHANGED <<chan, toWorker, toClient, thr, aborted>>

\* A receive session of graph g marks itself unhealthy.
SessionFails(c, g) ==
    /\ proc[c].alive /\ g \in proc[c].graphs \ proc[c].sick
    /\ Fault
    /\ proc' = [proc EXCEPT ![c].sick = @ \cup {g}]
    /\ UNCHANGED <<chan, toWorker, toClient, thr, aborted>>
=============================================================================
