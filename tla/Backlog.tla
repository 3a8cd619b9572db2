------------------------------- MODULE Backlog -------------------------------
(***************************************************************************)
(* How many events wait for the relay, as the gunicorn workers tell a      *)
(* dashboard: the gauge of events/metrics.py and the hooks of              *)
(* config/gunicorn.py.  Each worker counts the rows on its own and writes  *)
(* the figure to a file of its own in PROMETHEUS_MULTIPROC_DIR; a scrape   *)
(* takes the maximum over the files.  Workers die and are replaced, counts *)
(* fail, the master starts again.                                          *)
(***************************************************************************)
EXTENDS Integers, FiniteSets, FiniteSetsExt

CONSTANTS Pids,        \* process ids a worker may have, used again in the end
          Workers,     \* GUNICORN_WORKERS
          MaxBacklog,  \* bound on the rows that wait
          MaxFaults,   \* bound on deaths of workers, of the master, and failed counts
          None         \* no figure read, no file

ASSUME BacklogAssumption ==
  /\ Workers \in 1..Cardinality(Pids)
  /\ MaxBacklog \in Nat /\ MaxFaults \in Nat
  /\ None \notin 0..MaxBacklog

Figures == 0..MaxBacklog

VARIABLES unpublished,  \* committed outbox_event rows with no published_at
          master,       \* gunicorn's arbiter: "down", "up"
          worker,       \* per pid: "gone", "loading", "waiting", "counted", "dead" (not
                        \* yet reaped), "ended" (its thread has: nothing here does that)
          count,        \* per pid: the count(*) its thread has read
          file,         \* per pid: the sample in gauge_max_{pid}.db
          reaped,       \* pids that child_exit was called for since the master's start
          faults

vars == <<unpublished, master, worker, count, file, reaped, faults>>

Children == {p \in Pids : worker[p] # "gone"}
Live == {p \in Children : worker[p] # "dead"}

Init ==
  /\ unpublished = 0
  /\ master = "down"
  /\ worker = [p \in Pids |-> "gone"]
  /\ count = [p \in Pids |-> None]
  /\ file = [p \in Pids |-> None]
  /\ reaped = {}
  /\ faults = 0

-----------------------------------------------------------------------------
\* A request commits an event; the relay marks one published.
Insert ==
  /\ unpublished < MaxBacklog
  /\ unpublished' = unpublished + 1
  /\ UNCHANGED <<master, worker, count, file, reaped, faults>>

Publish ==
  /\ unpublished > 0
  /\ unpublished' = unpublished - 1
  /\ UNCHANGED <<master, worker, count, file, reaped, faults>>

\* Mutant of OnStarting: the directory is created if it is missing, and no more.
OnStartingUnpurged ==
  /\ master = "down"
  /\ master' = "up"
  /\ reaped' = {}
  /\ UNCHANGED <<unpublished, worker, count, file, faults>>

\* on_starting(): the files of the previous run's workers are purged.
OnStarting ==
  /\ master = "down"
  /\ master' = "up"
  /\ file' = [p \in Pids |-> None]
  /\ reaped' = {}
  /\ UNCHANGED <<unpublished, worker, count, faults>>

\* The master keeps Workers of them; post_worker_init() starts the thread.
Fork(p) ==
  /\ master = "up" /\ p \notin Children /\ Cardinality(Children) < Workers
  /\ worker' = [worker EXCEPT ![p] = "loading"]
  /\ reaped' = reaped \ {p}
  /\ UNCHANGED <<unpublished, master, count, file, faults>>

\* The thread imports the module: Gauge(...) opens the worker's file, at zero if it is new.
CreateGauge(p) ==
  /\ worker[p] = "loading"
  /\ worker' = [worker EXCEPT ![p] = "waiting"]
  /\ file' = [file EXCEPT ![p] = IF @ = None THEN 0 ELSE @]
  /\ UNCHANGED <<unpublished, master, count, reaped, faults>>

\* refresh_outbox_unpublished_gauge(): the query, and then the set().
Count(p) ==
  /\ worker[p] = "waiting"
  /\ worker' = [worker EXCEPT ![p] = "counted"]
  /\ count' = [count EXCEPT ![p] = unpublished]
  /\ UNCHANGED <<unpublished, master, file, reaped, faults>>

Set(p) ==
  /\ worker[p] = "counted"
  /\ worker' = [worker EXCEPT ![p] = "waiting"]
  /\ file' = [file EXCEPT ![p] = count[p]]
  /\ count' = [count EXCEPT ![p] = None]
  /\ UNCHANGED <<unpublished, master, reaped, faults>>

\* Mutant of Raise: the try is around the loop and not inside it.
RaiseOut(p) ==
  /\ worker[p] = "waiting" /\ faults < MaxFaults
  /\ worker' = [worker EXCEPT ![p] = "ended"]
  /\ faults' = faults + 1
  /\ UNCHANGED <<unpublished, master, count, file, reaped>>

\* Mutant of Raise: the figure is set in a finally, whatever it is.
RaiseSetting(p) ==
  /\ worker[p] = "waiting" /\ faults < MaxFaults
  /\ file' = [file EXCEPT ![p] = -1]
  /\ faults' = faults + 1
  /\ UNCHANGED <<unpublished, master, worker, count, reaped>>

\* The query raises: the exception is dropped, and the next tick asks again.
Raise(p) ==
  /\ worker[p] = "waiting" /\ faults < MaxFaults
  /\ faults' = faults + 1
  /\ UNCHANGED <<unpublished, master, worker, count, file, reaped>>

-----------------------------------------------------------------------------
\* A worker is killed: by the master's --timeout, or for want of memory.
Die(p) ==
  /\ p \in Live /\ faults < MaxFaults
  /\ worker' = [worker EXCEPT ![p] = "dead"]
  /\ count' = [count EXCEPT ![p] = None]
  /\ faults' = faults + 1
  /\ UNCHANGED <<unpublished, master, file, reaped>>

\* The master reaps it and calls child_exit(): mark_process_dead() removes the files
\* of the live* modes, and the gauge's is of mode "max".
ChildExit(p) ==
  /\ master = "up" /\ worker[p] = "dead"
  /\ worker' = [worker EXCEPT ![p] = "gone"]
  /\ reaped' = reaped \cup {p}
  /\ UNCHANGED <<unpublished, master, count, file, faults>>

\* The master is killed, and its workers with it; nobody reaps them.
MasterDies ==
  /\ master = "up" /\ faults < MaxFaults
  /\ master' = "down"
  /\ worker' = [p \in Pids |-> "gone"]
  /\ count' = [p \in Pids |-> None]
  /\ faults' = faults + 1
  /\ UNCHANGED <<unpublished, file, reaped>>

Tick(p) == Fork(p) \/ CreateGauge(p) \/ Count(p) \/ Set(p)

Next ==
  \/ Insert \/ Publish \/ OnStarting \/ MasterDies
  \/ \E p \in Pids : Tick(p) \/ Raise(p) \/ Die(p) \/ ChildExit(p)

\* The container starts the master again, the master reaps and forks, and a thread
\* takes its steps.  Which free pid a fork gets is not ours to choose.
Fairness ==
  /\ WF_vars(OnStarting)
  /\ WF_vars(\E p \in Pids : Fork(p))
  /\ \A p \in Pids : WF_vars(ChildExit(p)) /\ WF_vars(CreateGauge(p) \/ Count(p) \/ Set(p))

Spec == Init /\ [][Next]_vars /\ Fairness

-----------------------------------------------------------------------------
\* What a scrape shows: the maximum over the files, nothing when there is none.
Samples == {file[p] : p \in Pids} \ {None}
Gauge == IF Samples = {} THEN None ELSE Max(Samples)

\* Every worker, figure and file is typed.
TypeOK ==
  /\ unpublished \in Figures
  /\ master \in {"down", "up"}
  /\ worker \in [Pids -> {"gone", "loading", "waiting", "counted", "ended", "dead"}]
  /\ count \in [Pids -> {None} \cup Figures]
  /\ file \in [Pids -> {None} \cup Figures]
  /\ reaped \subseteq Pids
  /\ faults \in 0..MaxFaults

\* "Nobody should notice that until a dashboard says so" (events/metrics.py:5-7): a
\* backlog that stays is shown in the end, and stays shown, at its size or above,
\* whichever workers die and whichever counts fail.
BacklogIsSeen ==
  \A n \in 1..MaxBacklog :
    <>[](unpublished >= n) => <>[](Gauge # None /\ Gauge >= n)

\* "their values agree modulo the poll interval" (events/metrics.py:16-17), and the
\* files of the previous run are not counted again (config/gunicorn.py:10-11): while no
\* worker has died under this master, a backlog that rests is what the gauge rests at.
\* With a worker that has died it need not be: the file stays, and may be the maximum.
GaugeSettles ==
  \A n \in Figures :
    <>[](unpublished = n /\ reaped = {}) => <>[](Gauge = n)
=============================================================================
