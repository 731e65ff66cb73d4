----------------------------- MODULE TeachProofs ------------------------------
(***************************************************************************)
(* Theorems about TeachPipeline, for every set of requests and routes,     *)
(* every positive threshold, both modes, and any number of restarts,       *)
(* exits, failed exchanges and disk errors.                                *)
(***************************************************************************)
EXTENDS TeachPipeline, FiniteSetTheorems, TLAPS

(***************************************************************************)
(* The operators of the store.                                             *)
(***************************************************************************)

\* The keys that have enough samples.
ReadyKeys(samples) ==
    {key \in Routes : Cardinality(samples_for(samples, key)) >= min_samples}

\* Only the keys of recorded samples can be ready, so they are finite in
\* number even where the keys that might occur are not.
LEMMA ReadyFinite ==
    ASSUME NEW samples \in SUBSET Requests
    PROVE  IsFiniteSet(samples) /\ IsFiniteSet(ReadyKeys(samples))
<1>1. IsFiniteSet(samples)
  BY RouteAssumption, FS_Subset
<1>2. IsFiniteSet({RouteOf[r] : r \in samples})
  <2> DEFINE keys == {RouteOf[r] : r \in samples}
  <2>1. [r \in samples |-> RouteOf[r]] \in Surjection(samples, keys)
    BY DEF Surjection
  <2> QED
    BY <1>1, <2>1, FS_Surjection
<1>3. ReadyKeys(samples) \subseteq {RouteOf[r] : r \in samples}
  <2> SUFFICES ASSUME NEW key \in ReadyKeys(samples),
                      key \notin {RouteOf[r] : r \in samples}
               PROVE  FALSE
    OBVIOUS
  <2>1. samples_for(samples, key) = {}
    BY DEF samples_for
  <2>2. Cardinality(samples_for(samples, key)) = 0
    BY <2>1, FS_EmptySet
  <2> QED
    BY <2>2, ThresholdAssumption DEF ReadyKeys
<1> QED
  BY <1>1, <1>2, <1>3, FS_Subset

\* The counts that check_training_done compares grow with the samples.
LEMMA CountsMonotone ==
    ASSUME NEW big \in SUBSET Requests, NEW small \in SUBSET big
    PROVE  /\ Cardinality(small) \in Nat /\ Cardinality(big) \in Nat
           /\ Cardinality(small) <= Cardinality(big)
           /\ Cardinality(ReadyKeys(small)) \in Nat
           /\ Cardinality(ReadyKeys(big)) \in Nat
           /\ Cardinality(ReadyKeys(small)) <= Cardinality(ReadyKeys(big))
<1>1. IsFiniteSet(big) /\ IsFiniteSet(ReadyKeys(big))
  BY ReadyFinite
<1>2. IsFiniteSet(small) /\ IsFiniteSet(ReadyKeys(small))
  BY ReadyFinite
<1>3. ReadyKeys(small) \subseteq ReadyKeys(big)
  <2> SUFFICES ASSUME NEW key \in ReadyKeys(small)
               PROVE  key \in ReadyKeys(big)
    OBVIOUS
  <2>1. samples_for(small, key) \subseteq samples_for(big, key)
    BY DEF samples_for
  <2>2. IsFiniteSet(samples_for(big, key))
    BY <1>1, FS_Subset DEF samples_for
  <2>3. /\ Cardinality(samples_for(small, key)) <= Cardinality(samples_for(big, key))
        /\ Cardinality(samples_for(small, key)) \in Nat
        /\ Cardinality(samples_for(big, key)) \in Nat
    BY <2>1, <2>2, FS_Subset, FS_CardinalityType
  <2> QED
    BY <2>3, ThresholdAssumption DEF ReadyKeys
<1> QED
  BY <1>1, <1>2, <1>3, FS_Subset, FS_CardinalityType

\* check_training_done, in terms of the samples alone.
LEMMA CheckOfSamples ==
    ASSUME NEW s \in PersistedTrainStore, NEW mode
    PROVE  check_training_done(s, mode) <=>
             DoneBy(mode, Cardinality(s.routes), Cardinality(ReadyKeys(s.routes)))
  BY DEF check_training_done, total_sample_count, routes_meeting_min_samples,
         ReadyKeys

\* More samples never undo a completed training.
LEMMA CheckMonotone ==
    ASSUME NEW s \in PersistedTrainStore, NEW t \in PersistedTrainStore,
           NEW mode, s.routes \subseteq t.routes, check_training_done(s, mode)
    PROVE  check_training_done(t, mode)
<1>1. s.routes \in SUBSET t.routes /\ t.routes \in SUBSET Requests
  BY DEF PersistedTrainStore
<1> QED
  BY <1>1, CheckOfSamples, CountsMonotone, ThresholdAssumption DEF DoneBy

\* An empty store is not trained: every threshold is positive.
LEMMA EmptyNotDone ==
    ASSUME NEW s \in PersistedTrainStore, s.routes = {}, NEW mode
    PROVE  ~check_training_done(s, mode)
<1>1. ReadyKeys({}) = {}
  <2>1. \A key : samples_for({}, key) = {}
    BY DEF samples_for
  <2> QED
    BY <2>1, FS_EmptySet, ThresholdAssumption DEF ReadyKeys
<1>2. Cardinality(s.routes) = 0 /\ Cardinality(ReadyKeys(s.routes)) = 0
  BY <1>1, FS_EmptySet
<1> QED
  BY <1>2, CheckOfSamples, ThresholdAssumption DEF DoneBy

\* The flag of a store is no more than its samples justify.
Justified(s, mode) == s.training_complete => check_training_done(s, mode)

\* Checking a justified store makes its flag exact and changes nothing else.
LEMMA CheckedExact ==
    ASSUME NEW s \in PersistedTrainStore, NEW mode
    PROVE  /\ Checked(s, mode) \in PersistedTrainStore
           /\ Checked(s, mode).routes = s.routes
           /\ s.training_complete => Checked(s, mode).training_complete
           /\ Justified(s, mode) =>
                (Checked(s, mode).training_complete <=>
                    check_training_done(Checked(s, mode), mode))
<1> DEFINE c == Checked(s, mode)
<1>1. ASSUME NEW p, NEW q PROVE (p \/ q) \in BOOLEAN
  BY Zenon
<1>2. /\ c \in PersistedTrainStore /\ c.routes = s.routes
      /\ c.training_complete = (s.training_complete \/ check_training_done(s, mode))
  BY <1>1 DEF Checked, PersistedTrainStore
<1> HIDE DEF c
<1>3. check_training_done(c, mode) <=> check_training_done(s, mode)
  BY <1>2, CheckOfSamples
<1>4. Justified(s, mode) => (c.training_complete <=> check_training_done(c, mode))
  BY <1>2, <1>3 DEF Justified
<1>5. s.training_complete => c.training_complete
  BY <1>2
<1> QED
  BY <1>2, <1>4, <1>5 DEF c

\* record adds the sample and leaves an exact flag, which it never lowers.
LEMMA RecordedExact ==
    ASSUME NEW s \in PersistedTrainStore, NEW mode, NEW r \in Requests,
           Justified(s, mode)
    PROVE  /\ recorded(s, mode, r) \in PersistedTrainStore
           /\ recorded(s, mode, r).routes = s.routes \cup {r}
           /\ s.training_complete => recorded(s, mode, r).training_complete
           /\ recorded(s, mode, r).training_complete <=>
                check_training_done(recorded(s, mode, r), mode)
<1> DEFINE t == [s EXCEPT !.routes = @ \cup {r}]
<1>1. /\ t \in PersistedTrainStore /\ t.routes = s.routes \cup {r}
      /\ t.training_complete = s.training_complete
  BY DEF PersistedTrainStore
<1>2. recorded(s, mode, r) = Checked(t, mode)
  BY DEF recorded
<1> HIDE DEF t
<1>3. Justified(t, mode)
  BY <1>1, CheckMonotone DEF Justified
<1> QED
  BY <1>1, <1>2, <1>3, CheckedExact

\* A store without samples and without the flag, as a new process has it.
LEMMA DefaultStoreType ==
    ASSUME NEW mode
    PROVE  /\ DefaultStore \in PersistedTrainStore
           /\ DefaultStore.routes = {} /\ ~DefaultStore.training_complete
           /\ ~check_training_done(DefaultStore, mode)
           /\ Justified(DefaultStore, mode)
<1>1. /\ DefaultStore \in PersistedTrainStore
      /\ DefaultStore.routes = {} /\ ~DefaultStore.training_complete
  BY DEF DefaultStore, PersistedTrainStore, NoSession
<1> QED
  BY <1>1, EmptyNotDone DEF Justified

\* from_env starts a process with samples of the file only and an exact flag;
\* without a host session it keeps a completed training.
LEMMA FromEnvExact ==
    ASSUME NEW f \in PersistedTrainStore, NEW mode, NEW env \in Nat,
           Justified(f, mode)
    PROVE  /\ from_env(f, mode, env) \in PersistedTrainStore
           /\ from_env(f, mode, env).routes \subseteq f.routes
           /\ from_env(f, mode, env).training_complete <=>
                check_training_done(from_env(f, mode, env), mode)
           /\ data_path /\ env = NoSession /\ f.training_complete =>
                from_env(f, mode, env).training_complete
<1> DEFINE new == [DefaultStore EXCEPT !.host_session_id = env]
<1>1. CASE ~data_path
  BY <1>1, DefaultStoreType DEF from_env
<1>2. CASE data_path
           /\ should_reset_store_for_host_session(f.host_session_id, env)
  <2>1. /\ new \in PersistedTrainStore /\ new.routes = {}
        /\ ~new.training_complete
    BY DEF DefaultStore, PersistedTrainStore, NoSession
  <2>2. from_env(f, mode, env) = Checked(new, mode)
    BY <1>2 DEF from_env
  <2>3. Justified(new, mode)
    BY <2>1 DEF Justified
  <2>4. env # NoSession
    BY <1>2 DEF should_reset_store_for_host_session
  <2> HIDE DEF new
  <2> QED
    BY <2>1, <2>2, <2>3, <2>4, CheckedExact
<1>3. CASE data_path
           /\ ~should_reset_store_for_host_session(f.host_session_id, env)
  <2>1. from_env(f, mode, env) = Checked(f, mode)
    BY <1>3 DEF from_env
  <2> QED
    BY <2>1, CheckedExact
<1> QED
  BY <1>1, <1>2, <1>3, ThresholdAssumption

-----------------------------------------------------------------------------
(***************************************************************************)
(* Types, and what a start of zona does.                                   *)
(***************************************************************************)

PollState == {"idle", "asked", "complete", "total", "answered"}

TypeOK ==
    /\ AutoStart \in BOOLEAN /\ DoneMode \in TrainingDoneMode
    /\ session \in Nat \ {0}
    /\ zona_up \in BOOLEAN
    /\ store \in PersistedTrainStore /\ file \in PersistedTrainStore
    /\ request \in [Requests -> {"new", "measuring", "gone"}]
    /\ queue \in Seq(Requests)
    /\ worker \in [state : {"idle", "checked", "posting"},
                   signal : SUBSET Requests]
    /\ posted \in SUBSET Requests
    /\ poller \in [state : PollState, complete : BOOLEAN, total : Nat, ready : Nat]
    /\ halt \in BOOLEAN
    /\ late \in Nat
    /\ restarts \in Nat /\ crashes \in Nat /\ failures \in Nat
    /\ disk_errors \in Nat

\* The flag of a running process is exact, that of the file justified.
Exact ==
    /\ zona_up => (store.training_complete <=> check_training_done(store, DoneMode))
    /\ Justified(store, DoneMode) /\ Justified(file, DoneMode)

\* While the disk works the file holds what the process holds.
Saved == zona_up /\ data_path /\ disk_errors = 0 => file = store

SInv == TypeOK /\ Exact /\ Saved

\* A process that starts has an exact flag and samples of the file only; while
\* the disk works the file then holds what it starts with.
LEMMA StartExact ==
    ASSUME SInv, NEW env \in Nat, StartZona(env), UNCHANGED DoneMode
    PROVE  /\ zona_up' = TRUE /\ posted' = {}
           /\ store' \in PersistedTrainStore /\ file' \in PersistedTrainStore
           /\ disk_errors' \in Nat
           /\ store'.routes \cup file'.routes \subseteq file.routes
           /\ Exact' /\ Saved'
           /\ data_path /\ env = NoSession /\ disk_errors' = 0 =>
                /\ disk_errors = 0
                /\ file.training_complete => file'.training_complete
<1>1. /\ file \in PersistedTrainStore /\ Justified(file, DoneMode)
      /\ disk_errors \in Nat
  BY DEF SInv, TypeOK, Exact
<1>2. PICK loaded \in {file, DefaultStore} :
         /\ store' = from_env(loaded, DoneMode, env)
         /\ IF loaded = file
              THEN IF store' = loaded THEN UNCHANGED <<file, disk_errors>>
                                      ELSE save_to_disk(store')
              ELSE /\ disk_errors < MaxDiskErrors
                   /\ disk_errors' = disk_errors + 1
                   /\ file' \in {file, IF store' = loaded THEN file ELSE store'}
  BY DEF StartZona
<1>3. zona_up' = TRUE /\ posted' = {}
  BY DEF StartZona
<1>4. /\ loaded \in PersistedTrainStore /\ Justified(loaded, DoneMode)
      /\ loaded.routes \subseteq file.routes
  BY <1>1, <1>2, DefaultStoreType
<1>5. /\ store' \in PersistedTrainStore
      /\ store'.routes \subseteq loaded.routes
      /\ store'.training_complete <=> check_training_done(store', DoneMode)
      /\ data_path /\ env = NoSession /\ loaded.training_complete =>
            store'.training_complete
  BY <1>2, <1>4, FromEnvExact
<1>6. file' \in {file, store'} /\ disk_errors' \in Nat
  BY <1>1, <1>2 DEF save_to_disk
<1>7. data_path /\ disk_errors' = 0 =>
         /\ disk_errors = 0 /\ loaded = file /\ file' = store'
  BY <1>1, <1>2 DEF save_to_disk
<1>8. file' \in PersistedTrainStore /\ file'.routes \subseteq file.routes
  BY <1>1, <1>4, <1>5, <1>6
<1>9. Exact'
  <2>1. Justified(store', DoneMode)
    BY <1>5 DEF Justified
  <2>2. Justified(file', DoneMode)
    BY <1>1, <1>6, <2>1
  <2> QED
    BY <1>3, <1>5, <2>1, <2>2 DEF Exact, Justified
<1>10. Saved'
  BY <1>3, <1>7 DEF Saved
<1> QED
  BY <1>3, <1>4, <1>5, <1>6, <1>7, <1>8, <1>9, <1>10

\* The first process starts over what an earlier run left.
LEMMA InitSInv == Init => SInv
<1> SUFFICES ASSUME Init PROVE SInv
  OBVIOUS
<1>1. PICK samples \in SUBSET Earlier :
         LET left == [DefaultStore EXCEPT !.routes = samples] IN
         /\ store = from_env(left, DoneMode, IF AutoStart THEN session ELSE NoSession)
         /\ file = IF data_path THEN store ELSE left
  BY DEF Init
<1> DEFINE left == [DefaultStore EXCEPT !.routes = samples]
<1>2. left \in PersistedTrainStore /\ ~left.training_complete
  BY EarlierAssumption DEF DefaultStore, PersistedTrainStore, NoSession
<1>3. Justified(left, DoneMode)
  BY <1>2 DEF Justified
<1> DEFINE env == IF AutoStart THEN session ELSE NoSession
<1>4. env \in Nat /\ store = from_env(left, DoneMode, env)
  BY <1>1 DEF Init, NoSession
<1> HIDE DEF left, env
<1>5. /\ store \in PersistedTrainStore
      /\ store.training_complete <=> check_training_done(store, DoneMode)
  BY <1>2, <1>3, <1>4, FromEnvExact
<1>6. file = IF data_path THEN store ELSE left
  BY <1>1 DEF left
<1>7. Exact /\ Saved
  BY <1>3, <1>5, <1>6 DEF Exact, Saved, Justified
<1>8. TypeOK
  <2>1. file \in PersistedTrainStore
    BY <1>2, <1>5, <1>6
  <2>2. poller \in [state : PollState, complete : BOOLEAN, total : Nat, ready : Nat]
    BY DEF Init, NoPoll, PollState
  <2>3. worker \in [state : {"idle", "checked", "posting"},
                   signal : SUBSET Requests]
    BY DEF Init, Idle
  <2>4. queue \in Seq(Requests)
    BY DEF Init
  <2>5. request \in [Requests -> {"new", "measuring", "gone"}]
    BY DEF Init
  <2>6. /\ AutoStart \in BOOLEAN /\ zona_up \in BOOLEAN /\ halt \in BOOLEAN
        /\ DoneMode \in TrainingDoneMode /\ posted \in SUBSET Requests
    BY Zenon DEF Init
  <2>7. /\ session \in Nat \ {0} /\ late \in Nat /\ restarts \in Nat
        /\ crashes \in Nat /\ failures \in Nat /\ disk_errors \in Nat
    BY DEF Init
  <2> QED
    BY <1>5, <2>1, <2>2, <2>3, <2>4, <2>5, <2>6, <2>7 DEF TypeOK
<1> QED
  BY <1>7, <1>8 DEF SInv

\* The steps of the host leave zona alone.
HostStep ==
    \/ \E r \in Requests : InvokeAsync(r) \/ TryEnqueue(r)
    \/ ReadSignal \/ PostEnds \/ PollStep \/ PollFails

\* What a step of the host leaves as it is.
LEMMA HostStepLeavesZona ==
    ASSUME HostStep
    PROVE  UNCHANGED <<session, zona_up, store, file, posted, restarts, crashes,
                       disk_errors>>
  BY DEF HostStep, InvokeAsync, TryEnqueue, ReadSignal, PostEnds, PollStep,
         PollFails, GetStatus, status_complete, status_total, status_ready,
         SetTrainingComplete, Poll, faultVars

\* The counts that a status reports are numbers.
LEMMA CountsType ==
    ASSUME NEW s \in PersistedTrainStore
    PROVE  total_sample_count(s) \in Nat /\ routes_meeting_min_samples(s) \in Nat
<1>1. s.routes \in SUBSET Requests
  BY DEF PersistedTrainStore
<1> QED
  BY <1>1, CountsMonotone
     DEF total_sample_count, routes_meeting_min_samples, ReadyKeys

\* A step of the poller keeps the poll well typed.
LEMMA PollType ==
    ASSUME TypeOK, PollStep \/ PollFails
    PROVE  /\ poller' \in [state : PollState, complete : BOOLEAN, total : Nat,
                           ready : Nat]
           /\ halt' \in BOOLEAN /\ failures' \in Nat
           /\ UNCHANGED <<request, queue, worker, late>>
<1>1. /\ total_sample_count(store) \in Nat
      /\ routes_meeting_min_samples(store) \in Nat
      /\ store.training_complete \in BOOLEAN
  BY CountsType DEF TypeOK, PersistedTrainStore
<1>2. CASE GetStatus \/ PollFails
  <2>1. NoPoll \in [state : PollState, complete : BOOLEAN, total : Nat, ready : Nat]
    BY DEF NoPoll, PollState
  <2>2. CASE GetStatus
    BY <2>1, <2>2 DEF TypeOK, GetStatus, Poll, PollState, faultVars
  <2>3. CASE PollFails
    BY <2>1, <2>3 DEF TypeOK, PollFails, Fails
  <2> QED
    BY <1>2, <2>2, <2>3
<1>4. CASE SetTrainingComplete
  <2>1. halt' = (halt \/ poller.complete)
    BY <1>4 DEF SetTrainingComplete
  <2>2. halt' \in BOOLEAN
    BY <2>1, Zenon
  <2> QED
    BY <1>4, <2>2 DEF TypeOK, SetTrainingComplete, NoPoll, PollState, faultVars
<1>3. CASE status_complete \/ status_total \/ status_ready
  BY <1>1, <1>3 DEF TypeOK, status_complete, status_total, status_ready, Poll,
                    PollState, faultVars
<1> QED
  BY <1>2, <1>3, <1>4 DEF PollStep

\* Recording a sample: the flag stays exact and is not lowered, and the file
\* has the sample unless the save fails.
LEMMA TeachExact ==
    ASSUME SInv, NEW r \in Requests, teach(r), UNCHANGED DoneMode
    PROVE  /\ store' \in PersistedTrainStore /\ file' \in PersistedTrainStore
           /\ disk_errors' \in Nat /\ disk_errors' >= disk_errors
           /\ store'.routes = store.routes \cup {r}
           /\ file' \in {file, store'}
           /\ store.training_complete => store'.training_complete
           /\ Exact' /\ Saved'
<1>1. /\ store \in PersistedTrainStore /\ file \in PersistedTrainStore
      /\ disk_errors \in Nat
      /\ Justified(store, DoneMode) /\ Justified(file, DoneMode) /\ Saved
  BY DEF SInv, TypeOK, Exact
<1>2. /\ store' = recorded(store, DoneMode, r)
      /\ save_to_disk(store')
      /\ zona_up' = zona_up
  BY DEF teach
<1>3. /\ store' \in PersistedTrainStore
      /\ store'.routes = store.routes \cup {r}
      /\ store.training_complete => store'.training_complete
      /\ store'.training_complete <=> check_training_done(store', DoneMode)
  BY <1>1, <1>2, RecordedExact
<1>4. /\ file' \in {file, store'} /\ disk_errors' \in Nat
      /\ disk_errors' >= disk_errors
      /\ data_path /\ disk_errors' = 0 => file' = store'
  BY <1>1, <1>2 DEF save_to_disk
<1>5. Exact'
  <2>1. Justified(store', DoneMode)
    BY <1>3 DEF Justified
  <2>2. Justified(file', DoneMode)
    BY <1>1, <1>4, <2>1
  <2> QED
    BY <1>3, <2>1, <2>2 DEF Exact, Justified
<1>6. Saved'
  BY <1>4 DEF Saved
<1> QED
  BY <1>1, <1>3, <1>4, <1>5, <1>6

\* Every step keeps the types.
LEMMA NextTypeOK == SInv /\ [Next]_vars => TypeOK'
<1> SUFFICES ASSUME SInv, [Next]_vars PROVE TypeOK'
  OBVIOUS
<1>1. TypeOK
  BY DEF SInv
<1>2. CASE UNCHANGED vars
  BY <1>1, <1>2 DEF TypeOK, vars, options, hostVars, faultVars
<1>3. SUFFICES ASSUME Step, UNCHANGED options PROVE TypeOK'
  BY <1>2 DEF Next
<1>4. UNCHANGED <<AutoStart, DoneMode>>
  BY <1>3 DEF options
<1>5. CASE \E r \in Requests : InvokeAsync(r) \/ TryEnqueue(r)
  <2>1. PICK r \in Requests : InvokeAsync(r) \/ TryEnqueue(r)
    BY <1>5
  <2>2. queue' \in Seq(Requests)
    <3>1. queue' = queue \/ queue' = Append(queue, r)
      BY <2>1 DEF InvokeAsync, TryEnqueue
    <3>2. queue \in Seq(Requests)
      BY <1>1 DEF TypeOK
    <3> QED
      BY <3>1, <3>2
  <2>3. request' \in [Requests -> {"new", "measuring", "gone"}]
    BY <1>1, <2>1 DEF InvokeAsync, TryEnqueue, TypeOK
  <2> QED
    BY <1>1, <1>4, <2>1, <2>2, <2>3 DEF InvokeAsync, TryEnqueue, TypeOK, faultVars
<1>6. CASE ReadSignal
  <2>1. Head(queue) \in Requests /\ queue' \in Seq(Requests)
    BY <1>1, <1>6 DEF ReadSignal, TypeOK
  <2>2. worker' \in [state : {"idle", "checked", "posting"},
                     signal : SUBSET Requests]
    BY <1>6, <2>1 DEF ReadSignal, Idle
  <2> QED
    BY <1>1, <1>4, <1>6, <2>1, <2>2 DEF ReadSignal, TypeOK, faultVars
<1>7. CASE PostAsJson
  <2>1. posted' \in SUBSET Requests
    BY <1>1, <1>7 DEF PostAsJson, TypeOK
  <2>2. worker' \in [state : {"idle", "checked", "posting"},
                     signal : SUBSET Requests]
    BY <1>1, <1>7 DEF PostAsJson, TypeOK, Idle
  <2>3. late' \in Nat
    BY <1>1, <1>7 DEF PostAsJson, TypeOK
  <2> QED
    BY <1>1, <1>4, <1>7, <2>1, <2>2, <2>3 DEF PostAsJson, TypeOK, faultVars
<1>8. CASE PostEnds
  BY <1>1, <1>4, <1>8 DEF PostEnds, TypeOK, Idle, Fails
<1>9. CASE \E r \in Requests : lose(r)
  BY <1>1, <1>4, <1>9 DEF lose, TypeOK, Fails, hostVars
<1>10. CASE \E r \in Requests : teach(r)
  <2>1. PICK r \in Requests : teach(r)
    BY <1>10
  <2>2. /\ store' \in PersistedTrainStore /\ file' \in PersistedTrainStore
        /\ disk_errors' \in Nat
    BY <1>4, <2>1, TeachExact
  <2> QED
    BY <1>1, <1>4, <2>1, <2>2 DEF teach, TypeOK, hostVars
<1>11. CASE PollStep \/ PollFails
  <2>1. UNCHANGED <<session, zona_up, store, file, posted, restarts, crashes,
                    disk_errors>>
    BY <1>11, HostStepLeavesZona DEF HostStep
  <2> QED
    BY <1>1, <1>4, <1>11, <2>1, PollType DEF TypeOK
<1>12. CASE zona_exits
  <2>1. DefaultStore \in PersistedTrainStore
    BY DefaultStoreType
  <2>2. poller' \in [state : PollState, complete : BOOLEAN, total : Nat, ready : Nat]
    BY <1>1, <1>12 DEF zona_exits, TypeOK, NoPoll, PollState
  <2>3. zona_up' \in BOOLEAN /\ posted' \in SUBSET Requests
    BY <1>12 DEF zona_exits
  <2>4. crashes' \in Nat
    BY <1>1, <1>12 DEF zona_exits, TypeOK
  <2>5. UNCHANGED <<session, request, queue, worker, halt, late, file, restarts,
                    failures, disk_errors>> /\ store' = DefaultStore
    BY <1>12 DEF zona_exits
  <2> QED
    BY <1>1, <1>4, <2>1, <2>2, <2>3, <2>4, <2>5 DEF TypeOK
<1>13. CASE run_by_hand
  <2>1. /\ zona_up' = TRUE /\ posted' = {} /\ disk_errors' \in Nat
        /\ store' \in PersistedTrainStore /\ file' \in PersistedTrainStore
    BY <1>4, <1>13, StartExact DEF run_by_hand, NoSession
  <2>2. zona_up' \in BOOLEAN /\ posted' \in SUBSET Requests
    BY <2>1
  <2> QED
    BY <1>1, <1>4, <1>13, <2>1, <2>2 DEF run_by_hand, TypeOK, hostVars
<1>14. CASE StartAsync
  <2>1. session' \in Nat \ {0}
    BY <1>1, <1>14 DEF StartAsync, TypeOK
  <2>2. /\ zona_up' \in BOOLEAN /\ posted' \in SUBSET Requests
        /\ disk_errors' \in Nat
        /\ store' \in PersistedTrainStore /\ file' \in PersistedTrainStore
    <3>1. CASE AutoStart
      <4>1. StartZona(session') /\ session' \in Nat
        BY <1>14, <2>1, <3>1 DEF StartAsync
      <4> QED
        BY <1>4, <4>1, StartExact
    <3>2. CASE ~AutoStart
      BY <1>1, <1>14, <3>2 DEF StartAsync, TypeOK
    <3> QED
      BY <3>1, <3>2
  <2>3. poller' \in [state : PollState, complete : BOOLEAN, total : Nat, ready : Nat]
    BY <1>14 DEF StartAsync, NoPoll, PollState
  <2>4. worker' \in [state : {"idle", "checked", "posting"},
                     signal : SUBSET Requests]
    BY <1>14 DEF StartAsync, Idle
  <2>5. request' \in [Requests -> {"new", "measuring", "gone"}]
    BY <1>1, <1>14 DEF StartAsync, TypeOK
  <2>6. /\ queue' = << >> /\ halt' = FALSE /\ late' = 0
        /\ restarts' = restarts + 1 /\ UNCHANGED <<crashes, failures>>
    BY <1>14 DEF StartAsync
  <2>7. halt' \in BOOLEAN
    BY <2>6
  <2> QED
    BY <1>1, <1>4, <2>1, <2>2, <2>3, <2>4, <2>5, <2>6, <2>7 DEF TypeOK
<1> QED
  BY <1>3, <1>5, <1>6, <1>7, <1>8, <1>9, <1>10, <1>11, <1>12, <1>13, <1>14
     DEF Step

\* Every step keeps the flags exact and the file equal to the store.
LEMMA NextSInv == SInv /\ [Next]_vars => SInv'
<1> SUFFICES ASSUME SInv, [Next]_vars PROVE SInv'
  OBVIOUS
<1>1. TypeOK /\ Exact /\ Saved /\ TypeOK'
  BY NextTypeOK DEF SInv
<1>2. ASSUME UNCHANGED <<DoneMode, zona_up, store, file, disk_errors>>
      PROVE  Exact' /\ Saved'
  BY <1>1, <1>2 DEF Exact, Saved, Justified
<1>3. CASE UNCHANGED vars
  BY <1>1, <1>2, <1>3 DEF SInv, vars, options, faultVars
<1>4. SUFFICES ASSUME Step, UNCHANGED <<AutoStart, DoneMode>>
               PROVE  Exact' /\ Saved'
  BY <1>1, <1>3 DEF SInv, Next, options
<1>5. CASE HostStep \/ PostAsJson \/ \E r \in Requests : lose(r)
  <2>1. UNCHANGED <<zona_up, store, file, disk_errors>>
    BY <1>5, HostStepLeavesZona DEF PostAsJson, lose, faultVars
  <2> QED
    BY <1>2, <1>4, <2>1
<1>6. CASE \E r \in Requests : teach(r)
  BY <1>4, <1>6, TeachExact
<1>7. CASE zona_exits
  <2>1. zona_up' = FALSE /\ store' = DefaultStore /\ file' = file
    BY <1>7 DEF zona_exits
  <2>2. Justified(DefaultStore, DoneMode)
    BY DefaultStoreType
  <2> QED
    BY <1>1, <1>4, <2>1, <2>2 DEF Exact, Saved, Justified
<1>8. CASE run_by_hand
  BY <1>4, <1>8, StartExact DEF run_by_hand, NoSession
<1>9. CASE StartAsync
  <2>1. CASE AutoStart
    <3>1. StartZona(session') /\ session' \in Nat
      BY <1>1, <1>9, <2>1 DEF StartAsync, TypeOK
    <3> QED
      BY <1>4, <3>1, StartExact
  <2>2. CASE ~AutoStart
    BY <1>2, <1>4, <1>9, <2>2 DEF StartAsync
  <2> QED
    BY <2>1, <2>2
<1> QED
  BY <1>4, <1>5, <1>6, <1>7, <1>8, <1>9 DEF Step, HostStep

\* They hold in every reachable state.
LEMMA AlwaysSInv == Spec => []SInv
  BY InitSInv, NextSInv, PTL DEF Spec

\* In the process and in the file training_complete says what the samples say,
\* and while the disk works the file holds what was recorded: no restart,
\* reset, unreadable file or failed save separates them.
THEOREM CompleteIsReady == Spec => []CompleteMeansReady
<1>1. SInv => CompleteMeansReady
  BY DEF SInv, Exact, Saved, Justified, CompleteMeansReady
<1> QED
  BY <1>1, AlwaysSInv, PTL

-----------------------------------------------------------------------------
(***************************************************************************)
(* One sample per request.  A request moves through four places: the       *)
(* queue, the worker's hand, the connection, and what zona keeps (in its   *)
(* memory or only in the file, from which a later process gets it back).   *)
(* RecordedOnce speaks of the last place; inductive is that no request is  *)
(* in two places, that the queue has no repetitions, and that whoever is   *)
(* in a place has left the middleware.                                     *)
(***************************************************************************)

Elements(q) == {q[i] : i \in DOMAIN q}
Distinct(q) == \A i, j \in DOMAIN q : q[i] = q[j] => i = j

\* What the worker is about to post, and what zona or its file keeps.
InHand == IF worker.state = "checked" THEN worker.signal ELSE {}
Kept == store.routes \cup file.routes

\* No two of the sets share an element.
Apart(A, B, C, D) ==
    /\ A \cap B = {} /\ A \cap C = {} /\ A \cap D = {}
    /\ B \cap C = {} /\ B \cap D = {} /\ C \cap D = {}

OnePlace ==
    /\ Apart(Elements(queue), InHand, posted, Kept)
    /\ Distinct(queue)
    /\ \A r \in Elements(queue) \cup InHand \cup posted \cup Kept :
          r \in Requests /\ request[r] = "gone"

RInv == SInv /\ OnePlace

\* Appending a new element keeps a queue free of repetitions.
LEMMA AppendDistinct ==
    ASSUME NEW q \in Seq(Requests), NEW r \in Requests, Distinct(q),
           r \notin Elements(q)
    PROVE  /\ Distinct(Append(q, r))
           /\ Elements(Append(q, r)) = Elements(q) \cup {r}
<1>1. DOMAIN q = 1..Len(q) /\ Len(q) \in Nat
  OBVIOUS
<1>2. DOMAIN Append(q, r) = 1..(Len(q) + 1)
  OBVIOUS
<1>3. \A i \in 1..(Len(q) + 1) :
         Append(q, r)[i] = IF i = Len(q) + 1 THEN r ELSE q[i]
  OBVIOUS
<1>4. \A i \in 1..(Len(q) + 1) : i \in 1..Len(q) \/ i = Len(q) + 1
  BY <1>1
<1>5. \A i \in 1..Len(q) : i # Len(q) + 1 /\ i \in 1..(Len(q) + 1)
  BY <1>1
<1>6. Len(q) + 1 \in 1..(Len(q) + 1)
  BY <1>1
<1>7. \A i \in 1..Len(q) : q[i] # r
  BY <1>1 DEF Elements
<1>8. Distinct(Append(q, r))
  <2> SUFFICES ASSUME NEW i \in 1..(Len(q) + 1), NEW j \in 1..(Len(q) + 1),
                      Append(q, r)[i] = Append(q, r)[j]
               PROVE  i = j
    BY <1>2 DEF Distinct
  <2> QED
    BY <1>1, <1>3, <1>4, <1>7 DEF Distinct
<1>9. Elements(Append(q, r)) = Elements(q) \cup {r}
  <2> DEFINE a == Append(q, r)
  <2>1. /\ \A i \in 1..Len(q) : a[i] = q[i]
        /\ a[Len(q) + 1] = r
    BY <1>3, <1>5, <1>6
  <2> HIDE DEF a
  <2>2. ASSUME NEW x \in Elements(a) PROVE x \in Elements(q) \cup {r}
    BY <1>1, <1>2, <1>4, <2>1 DEF Elements, a
  <2>3. ASSUME NEW x \in Elements(q) \cup {r} PROVE x \in Elements(a)
    <3>1. DOMAIN a = 1..(Len(q) + 1)
      BY <1>2 DEF a
    <3> QED
      BY <1>1, <1>5, <1>6, <2>1, <3>1 DEF Elements
  <2> QED
    BY <2>2, <2>3 DEF a
<1> QED
  BY <1>8, <1>9

\* Taking the head leaves a queue without it and without repetitions.
LEMMA TailDistinct ==
    ASSUME NEW q \in Seq(Requests), q # << >>, Distinct(q)
    PROVE  /\ Distinct(Tail(q))
           /\ Head(q) \in Elements(q)
           /\ Elements(Tail(q)) \subseteq Elements(q) \ {Head(q)}
<1>1. DOMAIN q = 1..Len(q) /\ Len(q) \in Nat /\ Len(q) # 0
  OBVIOUS
<1>2. Head(q) = q[1] /\ 1 \in DOMAIN q
  BY <1>1
<1>3. DOMAIN Tail(q) = 1..(Len(q) - 1)
  OBVIOUS
<1>4. \A i \in DOMAIN Tail(q) :
         /\ Tail(q)[i] = q[i + 1]
         /\ i + 1 \in DOMAIN q /\ i + 1 # 1
  BY <1>1, <1>3
<1>5. \A i, j \in DOMAIN Tail(q) : i + 1 = j + 1 => i = j
  BY <1>1, <1>3
<1>6. Distinct(Tail(q))
  BY <1>4, <1>5 DEF Distinct
<1>7. \A i \in DOMAIN Tail(q) : Tail(q)[i] \in Elements(q) \ {Head(q)}
  BY <1>2, <1>4 DEF Distinct, Elements
<1> QED
  BY <1>2, <1>6, <1>7 DEF Elements

\* Earlier samples belong to requests that are gone; nothing else is anywhere.
LEMMA InitRInv == Init => RInv
<1> SUFFICES ASSUME Init PROVE RInv
  OBVIOUS
<1>1. SInv
  BY InitSInv
<1>2. PICK samples \in SUBSET Earlier :
         LET left == [DefaultStore EXCEPT !.routes = samples] IN
         /\ store = from_env(left, DoneMode, IF AutoStart THEN session ELSE NoSession)
         /\ file = IF data_path THEN store ELSE left
  BY DEF Init
<1> DEFINE left == [DefaultStore EXCEPT !.routes = samples]
           env == IF AutoStart THEN session ELSE NoSession
<1>3. /\ left \in PersistedTrainStore /\ ~left.training_complete
      /\ left.routes = samples
  BY EarlierAssumption DEF DefaultStore, PersistedTrainStore, NoSession
<1>4. Justified(left, DoneMode)
  BY <1>3 DEF Justified
<1>5. env \in Nat /\ store = from_env(left, DoneMode, env)
  BY <1>2 DEF Init, NoSession
<1> HIDE DEF left, env
<1>6. store.routes \subseteq samples
  BY <1>3, <1>4, <1>5, FromEnvExact
<1>7. file = IF data_path THEN store ELSE left
  BY <1>2 DEF left
<1>8. Kept \subseteq Earlier
  BY <1>3, <1>6, <1>7 DEF Kept
<1>9. /\ Elements(queue) = {} /\ InHand = {} /\ posted = {} /\ Distinct(queue)
  BY DEF Init, Elements, Distinct, InHand, Idle
<1>10. \A r \in Earlier : r \in Requests /\ request[r] = "gone"
  BY EarlierAssumption DEF Init
<1> QED
  BY <1>1, <1>8, <1>9, <1>10 DEF RInv, OnePlace, Apart

\* A request that moves on leaves the place it was in.
LEMMA NextRInv == RInv /\ [Next]_vars => RInv'
<1> SUFFICES ASSUME RInv, [Next]_vars PROVE RInv'
  OBVIOUS
<1>1. SInv' /\ SInv /\ TypeOK /\ OnePlace
  BY NextSInv DEF RInv, SInv
<1> DEFINE Q == Elements(queue)
           Places == Q \cup InHand \cup posted \cup Kept
<1>2. /\ Apart(Q, InHand, posted, Kept) /\ Distinct(queue)
      /\ \A r \in Places : r \in Requests /\ request[r] = "gone"
  BY <1>1 DEF OnePlace
<1>3. ASSUME UNCHANGED <<request, queue, posted, InHand, Kept>>
      PROVE  OnePlace'
  BY <1>2, <1>3 DEF OnePlace, Apart
<1>4. CASE UNCHANGED vars
  BY <1>1, <1>3, <1>4 DEF RInv, vars, hostVars, InHand, Kept
<1>5. SUFFICES ASSUME Step, UNCHANGED <<AutoStart, DoneMode>>
               PROVE  OnePlace'
  BY <1>1, <1>4 DEF RInv, Next, options
<1>6. CASE \E r \in Requests : InvokeAsync(r)
  <2>1. /\ UNCHANGED <<queue, posted, InHand, Kept>>
        /\ \A r \in Requests : request[r] = "gone" => request'[r] = "gone"
    BY <1>1, <1>6 DEF InvokeAsync, InHand, Kept, TypeOK
  <2> QED
    BY <1>2, <2>1 DEF OnePlace
<1>7. CASE \E r \in Requests : TryEnqueue(r)
  <2>1. PICK r \in Requests : TryEnqueue(r)
    BY <1>7
  <2>2. /\ UNCHANGED <<posted, InHand, Kept>>
        /\ request[r] # "gone" /\ request'[r] = "gone"
        /\ \A x \in Requests : request[x] = "gone" => request'[x] = "gone"
        /\ queue' = Append(queue, r)
    BY <1>1, <2>1 DEF TryEnqueue, InHand, Kept, TypeOK
  <2>3. r \notin Places
    BY <1>2, <2>2
  <2>4. Distinct(queue') /\ Elements(queue') = Q \cup {r}
    BY <1>1, <1>2, <2>2, <2>3, AppendDistinct DEF TypeOK
  <2> QED
    BY <1>2, <2>2, <2>3, <2>4 DEF OnePlace, Apart
<1>8. CASE ReadSignal
  <2>1. /\ UNCHANGED <<posted, Kept, request>>
        /\ queue # << >> /\ queue' = Tail(queue)
        /\ InHand' \subseteq {Head(queue)}
    BY <1>8 DEF ReadSignal, InHand, Kept, Idle
  <2>2. /\ Distinct(queue') /\ Head(queue) \in Q
        /\ Elements(queue') \subseteq Q \ {Head(queue)}
    BY <1>1, <1>2, <2>1, TailDistinct DEF TypeOK
  <2>3. /\ Elements(queue') \cup InHand' \subseteq Q
        /\ Elements(queue') \cap InHand' = {}
    BY <2>1, <2>2
  <2> HIDE DEF Q
  <2>4. Apart(Elements(queue'), InHand', posted, Kept)
    BY <1>2, <2>3 DEF Apart
  <2> QED
    BY <1>2, <2>1, <2>2, <2>3, <2>4 DEF OnePlace
<1>9. CASE PostAsJson
  <2>1. /\ UNCHANGED <<queue, Kept, request>>
        /\ InHand = worker.signal /\ InHand' = {}
        /\ posted' \subseteq posted \cup InHand
    BY <1>1, <1>9 DEF PostAsJson, InHand, Kept, Idle, TypeOK
  <2> QED
    BY <1>2, <2>1 DEF OnePlace, Apart
<1>10. CASE PostEnds
  <2>1. UNCHANGED <<request, queue, posted, Kept>> /\ InHand = {} /\ InHand' = {}
    BY <1>10 DEF PostEnds, Kept, InHand, Idle
  <2> QED
    BY <1>3, <2>1
<1>11. CASE PollStep \/ PollFails
  <2>1. UNCHANGED <<store, file, posted>>
    BY <1>11, HostStepLeavesZona DEF HostStep
  <2>2. UNCHANGED <<request, queue, worker>>
    BY <1>1, <1>11, PollType
  <2> QED
    BY <1>3, <2>1, <2>2 DEF InHand, Kept
<1>12. CASE \E r \in Requests : lose(r)
  <2>1. UNCHANGED <<queue, request, InHand, Kept>> /\ posted' \subseteq posted
    BY <1>12 DEF lose, hostVars, InHand, Kept
  <2> QED
    BY <1>2, <2>1 DEF OnePlace, Apart
<1>13. CASE \E r \in Requests : teach(r)
  <2>1. PICK r \in Requests : teach(r)
    BY <1>13
  <2>2. store'.routes = store.routes \cup {r} /\ file' \in {file, store'}
    BY <1>1, <1>5, <2>1, TeachExact
  <2>3. Kept' \subseteq Kept \cup {r}
    BY <2>2 DEF Kept
  <2>4. UNCHANGED <<queue, request, InHand>>
        /\ r \in posted /\ posted' = posted \ {r}
    BY <2>1 DEF teach, hostVars, InHand
  <2> QED
    BY <1>2, <2>3, <2>4 DEF OnePlace, Apart
<1>14. CASE zona_exits
  <2>1. /\ UNCHANGED <<queue, request, InHand>> /\ posted' = {}
        /\ store' = DefaultStore /\ file' = file
    BY <1>14 DEF zona_exits, InHand
  <2>2. Kept' \subseteq Kept
    BY <2>1 DEF Kept, DefaultStore
  <2> QED
    BY <1>2, <2>1, <2>2 DEF OnePlace, Apart
<1>15. CASE run_by_hand
  <2>1. store'.routes \cup file'.routes \subseteq file.routes /\ posted' = {}
    BY <1>1, <1>5, <1>15, StartExact DEF run_by_hand, NoSession
  <2>2. UNCHANGED <<queue, request, InHand>> /\ Kept' \subseteq Kept
    BY <1>15, <2>1 DEF run_by_hand, hostVars, InHand, Kept
  <2> QED
    BY <1>2, <2>1, <2>2 DEF OnePlace, Apart
<1>16. CASE StartAsync
  <2>1. Kept' \subseteq Kept /\ posted' \subseteq posted
    <3>1. CASE AutoStart
      <4>1. StartZona(session') /\ session' \in Nat
        BY <1>1, <1>16, <3>1 DEF StartAsync, TypeOK
      <4>2. store'.routes \cup file'.routes \subseteq file.routes /\ posted' = {}
        BY <1>1, <1>5, <4>1, StartExact
      <4> QED
        BY <4>2 DEF Kept
    <3>2. CASE ~AutoStart
      BY <1>16, <3>2 DEF StartAsync, Kept
    <3> QED
      BY <3>1, <3>2
  <2>2. /\ Elements(queue') = {} /\ Distinct(queue') /\ InHand' = {}
        /\ \A r \in Requests : request[r] = "gone" => request'[r] = "gone"
    BY <1>16 DEF StartAsync, Elements, Distinct, InHand, Idle
  <2> QED
    BY <1>2, <2>1, <2>2 DEF OnePlace, Apart
<1> QED
  BY <1>5, <1>6, <1>7, <1>8, <1>9, <1>10, <1>11, <1>12, <1>13, <1>14, <1>15,
     <1>16 DEF Step

\* What zona holds is nowhere on its way to it again: a request gives at most
\* one sample, through lost and timed-out posts, exits, reloads and restarts.
THEOREM SampleRecordedOnce == Spec => []RecordedOnce
<1>1. RInv => RecordedOnce
  <2> SUFFICES ASSUME RInv, NEW r \in store.routes
               PROVE  /\ request[r] = "gone" /\ r \notin posted
                      /\ \A i \in DOMAIN queue : queue[i] # r
                      /\ worker.state = "checked" => r \notin worker.signal
    BY DEF RecordedOnce
  <2>1. r \in Kept /\ OnePlace
    BY DEF Kept, RInv
  <2>2. r \notin Elements(queue) /\ r \notin InHand /\ r \notin posted
        /\ request[r] = "gone"
    BY <2>1 DEF OnePlace, Apart
  <2> QED
    BY <2>2 DEF Elements, InHand
<1> QED
  BY <1>1, InitRInv, NextRInv, PTL DEF Spec

-----------------------------------------------------------------------------
(***************************************************************************)
(* The status and the gate.  A status under way belongs to a zona that     *)
(* still runs, so that what it has read so far still holds of the store:   *)
(* the counts only grow.  An answer outlives that zona; what outlives it   *)
(* with the answer is the file.                                            *)
(***************************************************************************)

Asking == {"asked", "complete", "total"}

PollTrue ==
    /\ poller.state \in Asking => zona_up
    /\ poller.state \in {"complete", "total"} /\ poller.complete =>
          store.training_complete
    /\ poller.state = "total" /\ poller.complete /\ DoneMode = "Total" =>
          poller.total >= total_threshold
    /\ poller.state = "answered" /\ poller.complete =>
          DoneBy(DoneMode, poller.total, poller.ready)
    /\ poller.state \in {"idle", "asked"} => ~poller.complete

\* The gate is closed, or the answer that closes it is on its way.
Closing == halt \/ (poller.state = "answered" /\ poller.complete)

GateTrue ==
    data_path /\ disk_errors = 0 /\ Closing => file.training_complete

\* A late post is one that was checked before the gate closed.
LateTrue ==
    /\ ~halt => late = 0
    /\ late = 0 \/ (late = 1 /\ worker.state # "checked")

GInv == SInv /\ PollTrue /\ GateTrue /\ LateTrue

\* Nothing was asked and the gate is open.
LEMMA InitGInv == Init => GInv
<1> SUFFICES ASSUME Init PROVE GInv
  OBVIOUS
<1>1. SInv
  BY InitSInv
<1>2. poller = NoPoll /\ halt = FALSE /\ late = 0
  BY DEF Init
<1> QED
  BY <1>1, <1>2 DEF GInv, PollTrue, GateTrue, LateTrue, Closing, NoPoll, Asking

\* The answer of status_ready is true of the running zona.
LEMMA AnswerTrue ==
    ASSUME GInv, status_ready, UNCHANGED DoneMode
    PROVE  PollTrue' /\ GateTrue'
<1>1. TypeOK /\ PollTrue /\ GateTrue /\ Exact /\ Saved
  BY DEF GInv, SInv
<1>2. /\ poller.state = "total"
      /\ poller' = [[poller EXCEPT !.ready = routes_meeting_min_samples(store)]
                      EXCEPT !.state = "answered"]
      /\ UNCHANGED <<store, file, zona_up, halt, disk_errors>>
  BY DEF status_ready, Poll, faultVars
<1>3. /\ poller'.state = "answered" /\ poller'.complete = poller.complete
      /\ poller'.total = poller.total
      /\ poller'.ready = routes_meeting_min_samples(store)
  BY <1>1, <1>2 DEF TypeOK
<1>4. zona_up /\ (poller.complete => store.training_complete)
  BY <1>1, <1>2 DEF PollTrue, Asking
<1>5. poller.complete => DoneBy(DoneMode, poller'.total, poller'.ready)
  <2>1. CASE DoneMode = "Total"
    BY <1>1, <1>2, <1>3, <2>1 DEF PollTrue, DoneBy
  <2>2. CASE DoneMode # "Total"
    BY <1>1, <1>3, <1>4, <2>2 DEF Exact, check_training_done, DoneBy
  <2> QED
    BY <2>1, <2>2
<1>6. PollTrue'
  BY <1>3, <1>5 DEF PollTrue, Asking
<1>7. GateTrue'
  <2>1. data_path /\ disk_errors = 0 => file = store
    BY <1>1, <1>4 DEF Saved
  <2>2. Closing' => halt \/ poller.complete
    BY <1>2, <1>3 DEF Closing
  <2> QED
    BY <1>1, <1>2, <1>4, <2>1, <2>2 DEF GateTrue, Closing
<1> QED
  BY <1>6, <1>7

\* The steps of the poller.
LEMMA PollGInv ==
    ASSUME GInv, PollStep \/ PollFails, UNCHANGED DoneMode
    PROVE  PollTrue' /\ GateTrue' /\ LateTrue'
<1>1. TypeOK /\ PollTrue /\ GateTrue /\ LateTrue /\ Exact
  BY DEF GInv, SInv
<1>2. /\ UNCHANGED <<store, file, zona_up, disk_errors>>
      /\ UNCHANGED <<worker, late>>
  BY <1>1, HostStepLeavesZona, PollType DEF HostStep
<1>3. CASE GetStatus \/ PollFails
  <2>1. /\ halt' = halt /\ ~poller'.complete
        /\ poller'.state \in {"idle", "asked"}
        /\ poller'.state = "asked" => zona_up
    BY <1>3 DEF GetStatus, PollFails, Poll, NoPoll
  <2> QED
    BY <1>1, <1>2, <2>1
       DEF PollTrue, GateTrue, LateTrue, Closing, Asking
<1>4. CASE status_complete
  <2>1. /\ halt' = halt /\ poller.state = "asked" /\ poller'.state = "complete"
        /\ poller'.complete = store.training_complete
    BY <1>1, <1>4 DEF status_complete, Poll, TypeOK
  <2> QED
    BY <1>1, <1>2, <2>1 DEF PollTrue, GateTrue, LateTrue, Closing, Asking
<1>5. CASE status_total
  <2>1. /\ halt' = halt /\ poller.state = "complete" /\ poller'.state = "total"
        /\ poller'.complete = poller.complete
        /\ poller'.total = total_sample_count(store)
    BY <1>1, <1>5 DEF status_total, Poll, TypeOK
  <2>2. zona_up /\ (poller.complete => store.training_complete)
    BY <1>1, <2>1 DEF PollTrue, Asking
  <2>3. poller.complete /\ DoneMode = "Total" => poller'.total >= total_threshold
    BY <1>1, <2>1, <2>2 DEF Exact, check_training_done, DoneBy
  <2> QED
    BY <1>1, <1>2, <2>1, <2>2, <2>3
       DEF PollTrue, GateTrue, LateTrue, Closing, Asking
<1>6. CASE status_ready
  <2>1. halt' = halt
    BY <1>6 DEF status_ready, Poll
  <2> QED
    BY <1>1, <1>2, <1>6, <2>1, AnswerTrue DEF LateTrue
<1>7. CASE SetTrainingComplete
  <2>1. /\ poller.state = "answered" /\ (halt' <=> halt \/ poller.complete)
        /\ poller' = NoPoll
    BY <1>7 DEF SetTrainingComplete
  <2>2. Closing' => Closing
    BY <2>1 DEF Closing, NoPoll
  <2> QED
    BY <1>1, <1>2, <2>1, <2>2 DEF PollTrue, GateTrue, LateTrue, NoPoll, Asking
<1> QED
  BY <1>3, <1>4, <1>5, <1>6, <1>7 DEF PollStep

\* Every step keeps the status and the gate true.
LEMMA NextGInv == GInv /\ [Next]_vars => GInv'
<1> SUFFICES ASSUME GInv, [Next]_vars PROVE GInv'
  OBVIOUS
<1>1. SInv /\ TypeOK /\ PollTrue /\ GateTrue /\ LateTrue /\ Exact /\ Saved /\ SInv'
  BY NextSInv DEF GInv, SInv
<1>2. ASSUME UNCHANGED <<DoneMode, zona_up, store, file, disk_errors, poller, halt>>
      PROVE  PollTrue' /\ GateTrue'
  BY <1>1, <1>2 DEF PollTrue, GateTrue, Closing
<1>3. CASE UNCHANGED vars
  BY <1>1, <1>2, <1>3 DEF GInv, vars, options, hostVars, faultVars, LateTrue
<1>4. SUFFICES ASSUME Step, UNCHANGED <<AutoStart, DoneMode>>
               PROVE  PollTrue' /\ GateTrue' /\ LateTrue'
  BY <1>1, <1>3 DEF GInv, Next, options
<1>5. CASE \/ \E r \in Requests : InvokeAsync(r) \/ TryEnqueue(r) \/ lose(r)
           \/ PostEnds
  <2>1. /\ UNCHANGED <<zona_up, store, file, disk_errors, poller, halt, late>>
        /\ worker' = worker \/ worker' = Idle
    BY <1>5 DEF InvokeAsync, TryEnqueue, lose, PostEnds, hostVars, faultVars
  <2> QED
    BY <1>1, <1>2, <1>4, <2>1 DEF LateTrue, Idle
<1>6. CASE ReadSignal
  <2>1. /\ UNCHANGED <<zona_up, store, file, disk_errors, poller, halt, late>>
        /\ halt => worker' = Idle
    BY <1>6 DEF ReadSignal, faultVars
  <2> QED
    BY <1>1, <1>2, <1>4, <2>1 DEF LateTrue, Idle
<1>7. CASE PostAsJson
  <2>1. /\ UNCHANGED <<zona_up, store, file, disk_errors, poller, halt>>
        /\ worker.state = "checked" /\ worker'.state # "checked"
        /\ late' = IF halt THEN late + 1 ELSE late
    BY <1>1, <1>7 DEF PostAsJson, Idle, TypeOK, faultVars
  <2> QED
    BY <1>1, <1>2, <1>4, <2>1 DEF LateTrue
<1>8. CASE PollStep \/ PollFails
  BY <1>4, <1>8, PollGInv
<1>9. CASE \E r \in Requests : teach(r)
  <2>1. PICK r \in Requests : teach(r)
    BY <1>9
  <2>2. /\ disk_errors' >= disk_errors /\ disk_errors \in Nat /\ disk_errors' \in Nat
        /\ store.training_complete => store'.training_complete
        /\ Saved'
    BY <1>1, <1>4, <2>1, TeachExact DEF TypeOK
  <2>3. zona_up /\ UNCHANGED <<zona_up, poller, halt, late, worker>>
    BY <2>1 DEF teach, hostVars
  <2>4. PollTrue' /\ LateTrue'
    BY <1>1, <1>4, <2>2, <2>3 DEF PollTrue, LateTrue
  <2>5. GateTrue'
    <3> SUFFICES ASSUME data_path, disk_errors' = 0, Closing'
                 PROVE  file'.training_complete
      BY DEF GateTrue
    <3>1. disk_errors = 0 /\ Closing
      BY <2>2, <2>3 DEF Closing
    <3>2. file.training_complete /\ file = store /\ file' = store'
      BY <1>1, <2>2, <2>3, <3>1 DEF GateTrue, Saved
    <3> QED
      BY <2>2, <3>2
  <2> QED
    BY <2>4, <2>5
<1>10. CASE zona_exits
  <2>1. /\ poller' = IF poller.state = "answered" THEN poller ELSE NoPoll
        /\ UNCHANGED <<halt, late, worker, file, disk_errors>>
    BY <1>10 DEF zona_exits
  <2> QED
    BY <1>1, <1>4, <2>1
       DEF PollTrue, GateTrue, LateTrue, Closing, NoPoll, Asking
<1>11. CASE run_by_hand
  <2>1. /\ zona_up' = TRUE
        /\ data_path /\ disk_errors' = 0 =>
              /\ disk_errors = 0
              /\ file.training_complete => file'.training_complete
    BY <1>1, <1>4, <1>11, StartExact DEF run_by_hand, NoSession
  <2>2. ~zona_up /\ UNCHANGED <<poller, halt, late, worker>>
    BY <1>11 DEF run_by_hand, hostVars
  <2>3. poller.state \notin Asking
    BY <1>1, <2>2 DEF PollTrue
  <2> QED
    BY <1>1, <1>4, <2>1, <2>2, <2>3
       DEF PollTrue, GateTrue, LateTrue, Closing, Asking
<1>12. CASE StartAsync
  <2>1. poller' = NoPoll /\ halt' = FALSE /\ late' = 0
    BY <1>12 DEF StartAsync
  <2> QED
    BY <2>1 DEF PollTrue, GateTrue, LateTrue, Closing, NoPoll, Asking
<1> QED
  BY <1>4, <1>5, <1>6, <1>7, <1>8, <1>9, <1>10, <1>11, <1>12 DEF Step

\* It holds in every reachable state.
LEMMA AlwaysGInv == Spec => []GInv
  BY InitGInv, NextGInv, PTL DEF Spec

\* A training status that says `complete' comes with counts that agree, though
\* its fields are read one by one while samples arrive.
THEOREM StatusTrue == Spec => []StatusNeverOverclaims
<1>1. GInv => StatusNeverOverclaims
  BY DEF GInv, PollTrue, StatusNeverOverclaims
<1> QED
  BY <1>1, AlwaysGInv, PTL

\* However many signals are queued, the worker posts at most one after the
\* gate has closed.
THEOREM OneLatePost == Spec => []AtMostOneLate
<1>1. GInv => AtMostOneLate
  BY DEF GInv, LateTrue, AtMostOneLate
<1> QED
  BY <1>1, AlwaysGInv, PTL

\* A closed gate means that the zona now running has completed its training,
\* where it keeps a file and the disk works, through any number of exits and
\* starts by hand.
THEOREM ClosedGateIsRight == Spec => []HaltMeansComplete
<1>1. GInv => HaltMeansComplete
  BY DEF GInv, SInv, Saved, GateTrue, Closing, HaltMeansComplete
<1> QED
  BY <1>1, AlwaysGInv, PTL
===============================================================================
