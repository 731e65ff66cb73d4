---------------------------- MODULE TeachPipeline -----------------------------
(***************************************************************************)
(* Teaching zona: the ASP.NET host (Zona.ProxyLib) measures requests in a  *)
(* middleware, queues them, and a single worker posts them to the zona     *)
(* process, which records them until its training is complete; a poller    *)
(* asks for the training status and then closes a gate that the middleware *)
(* and the worker look at.  Either zona is a child of the host, which gets *)
(* a new session with every start of the host and dies with it (of a crash *)
(* of the host on Windows only), or it is run by hand and started again    *)
(* when it has died.                                                       *)
(***************************************************************************)
EXTENDS TrainStore, Sequences

CONSTANTS
    Earlier,      \* requests whose samples an earlier run may have left on disk
    MaxRestarts,  \* bound on restarts of the host
    MaxCrashes,   \* bound on exits of zona while the host runs
    MaxFailures,  \* bound on lost posts, timed-out posts and failed polls
    MaxDiskErrors \* bound on saves that fail and files that cannot be read

ASSUME EarlierAssumption == Earlier \subseteq Requests

VARIABLES
    AutoStart,  \* ZonaOptions.AutoStartProcess: the host starts zona; fixed
    DoneMode,   \* ZONA_TRAINING_DONE_MODE; fixed
    session,    \* ZONA_HOST_SESSION of the running host
    zona_up,    \* the zona process runs
    store,      \* TrainStore.inner of that process
    file,       \* train_store.json
    request,    \* request[r]: "new", "measuring" (served, not queued yet), "gone"
    queue,      \* ZonaTeachQueue
    worker,     \* the dispatch worker: what it does and with which signal
    posted,     \* posts on their way to zona
    poller,     \* the status poll in progress: what zona has answered so far
    halt,       \* ZonaTeachSendGate
    late,       \* history: posts begun after the gate was closed
    restarts, crashes, failures, disk_errors

hostVars == <<session, request, queue, worker, poller, halt, late>>
faultVars == <<restarts, crashes, failures, disk_errors>>
options == <<AutoStart, DoneMode>>
vars == <<options, hostVars, zona_up, store, file, posted, faultVars>>

Idle == [state |-> "idle", signal |-> {}]
NoPoll == [state |-> "idle", complete |-> FALSE, total |-> 0, ready |-> 0]

\* A failure that the bounds still allow.
Fails == failures < MaxFailures /\ failures' = failures + 1

\* save_to_disk writes a temporary file and renames it: the file has the new
\* contents or keeps the old ones.  Without ZONA_DATA_DIR nothing is saved.
save_to_disk(s) ==
    \/ /\ file' = IF data_path THEN s ELSE file
       /\ UNCHANGED disk_errors
    \/ /\ data_path /\ disk_errors < MaxDiskErrors
       /\ disk_errors' = disk_errors + 1
       /\ UNCHANGED file

\* zona has been started, by the host or by hand, over a file that an earlier
\* run by hand left, perhaps under higher thresholds.
Init ==
    /\ AutoStart \in BOOLEAN /\ DoneMode \in TrainingDoneMode
    /\ session = 1
    /\ zona_up = TRUE
    /\ \E samples \in SUBSET Earlier :
          LET left == [DefaultStore EXCEPT !.routes = samples] IN
          /\ store = from_env(left, DoneMode, IF AutoStart THEN session ELSE NoSession)
          /\ file = IF data_path THEN store ELSE left
    /\ request = [r \in Requests |-> IF r \in Earlier THEN "gone" ELSE "new"]
    /\ queue = << >>
    /\ worker = Idle
    /\ posted = {}
    /\ poller = NoPoll
    /\ halt = FALSE
    /\ late = 0
    /\ restarts = 0 /\ crashes = 0 /\ failures = 0 /\ disk_errors = 0

-----------------------------------------------------------------------------
(***************************************************************************)
(* The middleware: the gate is read when the request has been served; the  *)
(* body statistics are awaited before the signal is queued.                *)
(***************************************************************************)
InvokeAsync(r) ==
    /\ request[r] = "new"
    /\ request' = [request EXCEPT ![r] = IF halt THEN "gone" ELSE "measuring"]
    /\ UNCHANGED <<session, queue, worker, poller, halt, late, zona_up, store,
                   file, posted, faultVars>>

TryEnqueue(r) ==
    /\ request[r] = "measuring"
    /\ request' = [request EXCEPT ![r] = "gone"]
    /\ queue' = Append(queue, r)
    /\ UNCHANGED <<session, worker, poller, halt, late, zona_up, store, file,
                   posted, faultVars>>

\* Mutant: the worker does not look at the gate.
TakeAnyway ==
    /\ worker.state = "idle"
    /\ queue # << >>
    /\ queue' = Tail(queue)
    /\ worker' = [state |-> "checked", signal |-> {Head(queue)}]
    /\ UNCHANGED <<session, request, poller, halt, late, zona_up, store, file,
                   posted, faultVars>>

\* The worker takes a signal and reads the gate; the post comes after that.
ReadSignal ==
    /\ worker.state = "idle"
    /\ queue # << >>
    /\ queue' = Tail(queue)
    /\ worker' = IF halt THEN Idle
                 ELSE [state |-> "checked", signal |-> {Head(queue)}]
    /\ UNCHANGED <<session, request, poller, halt, late, zona_up, store, file,
                   posted, faultVars>>

\* A refused connection loses the signal: nothing is sent again.
PostAsJson ==
    /\ worker.state = "checked"
    /\ IF zona_up
         THEN posted' = posted \cup worker.signal
              /\ worker' = [worker EXCEPT !.state = "posting"]
         ELSE UNCHANGED posted /\ worker' = Idle
    /\ late' = IF halt THEN late + 1 ELSE late
    /\ UNCHANGED <<session, request, queue, poller, halt, zona_up, store, file,
                   faultVars>>

\* Mutant: a signal whose post failed is queued again.
PostRetries ==
    /\ worker.state = "posting"
    /\ worker' = Idle
    /\ IF worker.signal \cap posted = {}
         THEN UNCHANGED <<failures, queue>>
         ELSE Fails /\ \E r \in worker.signal : queue' = Append(queue, r)
    /\ UNCHANGED <<session, request, poller, halt, late, zona_up, store, file,
                   posted, restarts, crashes, disk_errors>>

\* The post ends: with an answer, with zona, or in a timeout after which zona
\* may still record the sample.
PostEnds ==
    /\ worker.state = "posting"
    /\ worker' = Idle
    /\ IF worker.signal \cap posted = {} THEN UNCHANGED failures ELSE Fails
    /\ UNCHANGED <<session, request, queue, poller, halt, late, zona_up, store,
                   file, posted, restarts, crashes, disk_errors>>

\* A post is lost before zona reads it.
lose(r) ==
    /\ r \in posted
    /\ posted' = posted \ {r}
    /\ Fails
    /\ UNCHANGED <<hostVars, zona_up, store, file, restarts, crashes, disk_errors>>

-----------------------------------------------------------------------------
(***************************************************************************)
(* The zona process.                                                       *)
(***************************************************************************)

\* Mutant: the sample is not saved.
TeachSavesNothing(r) ==
    /\ zona_up
    /\ r \in posted
    /\ posted' = posted \ {r}
    /\ store' = recorded(store, DoneMode, r)
    /\ UNCHANGED <<hostVars, zona_up, file, faultVars>>

\* POST /teach: record holds the mutex over the push, the check and the save.
teach(r) ==
    /\ zona_up
    /\ r \in posted
    /\ posted' = posted \ {r}
    /\ store' = recorded(store, DoneMode, r)
    /\ save_to_disk(recorded(store, DoneMode, r))
    /\ UNCHANGED <<hostVars, zona_up, restarts, crashes, failures>>

\* GET /training-status reads training_complete first and each count later,
\* with a lock of its own.
Poll(state, p) ==
    /\ poller' = [p EXCEPT !.state = state]
    /\ UNCHANGED <<session, request, queue, worker, halt, late, zona_up, store,
                   file, posted, faultVars>>

GetStatus ==
    poller.state = "idle" /\ ~halt /\ zona_up /\ Poll("asked", NoPoll)

status_complete ==
    /\ poller.state = "asked"
    /\ Poll("complete", [poller EXCEPT !.complete = store.training_complete])

status_total ==
    /\ poller.state = "complete"
    /\ Poll("total", [poller EXCEPT !.total = total_sample_count(store)])

\* Mutant: the flag is read last.
StatusReadsFlagLast ==
    /\ poller.state = "total"
    /\ Poll("answered", [poller EXCEPT !.complete = store.training_complete,
                                       !.ready = routes_meeting_min_samples(store)])

status_ready ==
    /\ poller.state = "total"
    /\ Poll("answered", [poller EXCEPT !.ready = routes_meeting_min_samples(store)])

\* Mutant: the poller forgets to close the gate.
AnswerIgnored ==
    /\ poller.state = "answered"
    /\ poller' = NoPoll
    /\ UNCHANGED <<session, request, queue, worker, halt, late, zona_up, store,
                   file, posted, faultVars>>

\* The poller gets the status; a complete training closes the gate for good.
SetTrainingComplete ==
    /\ poller.state = "answered"
    /\ halt' = (halt \/ poller.complete)
    /\ poller' = NoPoll
    /\ UNCHANGED <<session, request, queue, worker, late, zona_up, store, file,
                   posted, faultVars>>

PollFails ==
    /\ poller.state # "idle"
    /\ poller' = NoPoll
    /\ Fails
    /\ UNCHANGED <<session, request, queue, worker, halt, late, zona_up, store,
                   file, posted, restarts, crashes, disk_errors>>

-----------------------------------------------------------------------------
(***************************************************************************)
(* Processes that end and start.                                           *)
(***************************************************************************)

\* What zona was reading or answering is lost; an answer on its way is not.
zona_exits ==
    /\ zona_up
    /\ crashes < MaxCrashes
    /\ crashes' = crashes + 1
    /\ zona_up' = FALSE
    /\ store' = DefaultStore
    /\ posted' = {}
    /\ poller' = IF poller.state = "answered" THEN poller ELSE NoPoll
    /\ UNCHANGED <<session, request, queue, worker, halt, late, file, restarts,
                   failures, disk_errors>>

\* A new process: a file that cannot be read counts as an empty one, and
\* from_env saves what it starts with when that is news.
StartZona(env_session) ==
    /\ zona_up' = TRUE
    /\ posted' = {}
    /\ \E loaded \in {file, DefaultStore} :
          /\ store' = from_env(loaded, DoneMode, env_session)
          /\ IF loaded = file
               THEN IF store' = loaded THEN UNCHANGED <<file, disk_errors>>
                                       ELSE save_to_disk(store')
               ELSE /\ disk_errors < MaxDiskErrors
                    /\ disk_errors' = disk_errors + 1
                    /\ file' \in {file, IF store' = loaded THEN file ELSE store'}

\* Without AutoStart zona is started by hand, and has no host session.
run_by_hand ==
    /\ ~AutoStart /\ ~zona_up
    /\ StartZona(NoSession)
    /\ UNCHANGED <<hostVars, restarts, crashes, failures>>

\* The host stops and starts again.  When zona is its child, StopAsync kills it
\* and StartAsync starts a new one, with a new session.  A host that crashes takes
\* the child with it on Windows only (ZonaWinJob); elsewhere, where the child of a
\* crashed host would stay in the new one's way, only the stop is modelled.
StartAsync ==
    /\ restarts < MaxRestarts
    /\ restarts' = restarts + 1
    /\ session' = session + 1
    /\ IF AutoStart THEN StartZona(session')
                    ELSE UNCHANGED <<zona_up, store, file, posted, disk_errors>>
    /\ request' = [r \in Requests |-> IF request[r] = "new" THEN "new" ELSE "gone"]
    /\ queue' = << >>
    /\ worker' = Idle
    /\ poller' = NoPoll
    /\ halt' = FALSE
    /\ late' = 0
    /\ UNCHANGED <<crashes, failures>>

PollStep ==
    \/ GetStatus \/ status_complete \/ status_total \/ status_ready
    \/ SetTrainingComplete

Step ==
    \/ \E r \in Requests : InvokeAsync(r) \/ TryEnqueue(r) \/ lose(r) \/ teach(r)
    \/ ReadSignal \/ PostAsJson \/ PostEnds
    \/ PollStep \/ PollFails
    \/ zona_exits \/ run_by_hand \/ StartAsync

Next == Step /\ UNCHANGED options

Spec == Init /\ [][Next]_vars

\* The poller is a loop with a delay, and every call it makes ends within the
\* client's timeout of three seconds.
FairSpec == Spec /\ WF_vars(PollStep /\ UNCHANGED options)

-----------------------------------------------------------------------------
(***************************************************************************)
(* Properties.                                                             *)
(***************************************************************************)

\* A request gives at most one sample: what the store holds is not queued, on
\* its way or about to be posted again, through timeouts, crashes and reloads.
RecordedOnce ==
    \A r \in store.routes :
        /\ request[r] = "gone" /\ r \notin posted
        /\ \A i \in DOMAIN queue : queue[i] # r
        /\ worker.state = "checked" => r \notin worker.signal

\* Training is complete exactly when the samples say so, in the process and in
\* the file: no restart, reset or failed save separates the flag from the data.
\* While the disk works the file is what the process holds, so that a crash loses
\* none of the samples that were recorded.
CompleteMeansReady ==
    /\ zona_up => (store.training_complete <=> check_training_done(store, DoneMode))
    /\ file.training_complete => check_training_done(file, DoneMode)
    /\ zona_up /\ data_path /\ disk_errors = 0 => file = store

\* The status is read field by field while samples arrive, yet a status that
\* says `complete' never comes with counts that deny it: the flag is read first
\* and the counts only grow.
StatusNeverOverclaims ==
    poller.state = "answered" /\ poller.complete => DoneBy(DoneMode, poller.total, poller.ready)

\* After the gate has closed the worker posts at most one more signal, the one
\* it had checked before, however many are queued.
AtMostOneLate == late <= 1

\* `While Zona reports that training is not complete, teach may be sent'
\* (ZonaTeachSendGate.cs): with a data directory on a disk that works, a closed
\* gate means that the zona now running, which need not be the one that was asked,
\* has completed its training.
HaltMeansComplete ==
    (data_path /\ halt /\ zona_up /\ disk_errors = 0) => store.training_complete

\* Once training stays complete the host stops teaching.
GateCloses ==
    <>[](zona_up /\ store.training_complete) => <>[]halt
===============================================================================
