--------------------------- MODULE WorkerManager ---------------------------
(***************************************************************************)
(* MtlWorkerManager: the process-wide cache of workers, one record per     *)
(* worker with the graphs that use it.  Its operations run on the threads  *)
(* of the graph clients (module GraphClient); here is what each of their   *)
(* lock sections does to the records, and when the shared ownership of a   *)
(* channel ends.                                                           *)
(*                                                                         *)
(* A record's state is Healthy from its insertion to its removal (Stopping *)
(* and Unhealthy are only set on a record about to be erased), so records  *)
(* carry none.  worker_id is the channel of the record: a lease with       *)
(* worker_id 0 is never handed out.                                        *)
(***************************************************************************)
EXTENDS ControlChannel

VARIABLE workers   \* set of [chan, runtime, active]

RecordOf(c) == {r \in workers : r.chan = c}

\* worker_matches_runtime
Matching(rs, runtime) == {r \in rs : Healthy(r.chan) /\ r.runtime = runtime}

\* Mutant: every worker of another runtime is retired, idle or not.
Retirable_InUse(runtime) == {r \in workers : ~Healthy(r.chan) \/ r.runtime # runtime}

\* collect_retirable_workers_no_lock
Retirable(runtime) ==
    {r \in workers : ~Healthy(r.chan) \/ (r.active = {} /\ r.runtime # runtime)}

WithGraph(rs, r, g) == (rs \ {r}) \cup {[r EXCEPT !.active = @ \cup {g}]}

\* Second lock section of acquire: the records and the leases to shut down
\* after unusable workers were removed, before a match is looked for.  The
\* vector of records is a set here, so the leases come in any order.
Kept(runtime) == workers \ Retirable(runtime)
WorkersToShutdown(rs) ==
    LET cs == {r.chan : r \in rs}
    IN {s \in [1 .. Cardinality(cs) -> cs] : \A c \in cs : \E i \in DOMAIN s : s[i] = c}

\* Third lock section: a compatible worker may have appeared during the
\* handshake and is preferred to the new process.
Rivals(runtime) == Matching(workers, runtime)
NewRecord(c, runtime, g) == [chan |-> c, runtime |-> runtime, active |-> {g}]

\* interpret_config_handshake_event
HandshakeAccepted(ev) == ev.kind = "Health" /\ ev.arg = "healthy"

\* Mutant: the graph stays counted.
Released_Counted(c, g) == workers

\* release_graph_noexcept: an idle worker stays cached unless a healthy
\* worker of another runtime exists.  The Shutdown request of a worker
\* retired here is behind the function's return and never sent: its process
\* ends with the last reference to its channel.
Released(c, g) ==
    LET mine   == RecordOf(c)
        others == {r \in workers \ mine : Healthy(r.chan)}
    IN (workers \ mine) \cup
       {[r EXCEPT !.active = @ \ {g}]
        : r \in {m \in mine : m.active \ {g} # {} \/ \A o \in others : o.runtime = m.runtime}}

\* invalidate_worker_noexcept
Invalidated(c) == workers \ RecordOf(c)

-----------------------------------------------------------------------------
\* Channels are shared_ptr: the record, the leases of the clients and the
\* locals of their threads refer to them.

References(t) ==
    {thr[t].lease, thr[t].spawned} \cup Range(thr[t].retire)
    \cup (IF thr[t].pc \in {"close", "join", "terminate"} THEN {thr[t].chan} ELSE {})

\* With records rs, somebody other than thread t refers to c.
SharedWithOthers(t, c, rs) ==
    \/ \E r \in rs : r.chan = c
    \/ \E u \in Threads \ {t} : c \in References(u)

Open(c) == chan[c].fd \/ chan[c].pid \/ chan[c].reader # "none"

Free(c) ==
    /\ RecordOf(c) = {}
    /\ \A t \in Threads : c \notin References(t)
    /\ ~Open(c)
=============================================================================
