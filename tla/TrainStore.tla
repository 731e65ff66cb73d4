------------------------------ MODULE TrainStore ------------------------------
(***************************************************************************)
(* The training store of zona (zona/src/store.rs) as operators on a store  *)
(* value: what is recorded, when training is complete, and what a new      *)
(* process makes of the file that an earlier one left.                     *)
(*                                                                         *)
(* Data abstraction.  A sample is the request it was measured on; a route  *)
(* key with its list of samples is the set of the samples of that route.   *)
(* completed_at_unix_ms is set with training_complete and not kept.        *)
(***************************************************************************)
EXTENDS Naturals, FiniteSets

CONSTANTS
    Requests,          \* requests that may be measured
    Routes,            \* route keys
    RouteOf,           \* RouteOf[r]: the key of request r
    min_samples, total_threshold, min_ready_routes,
    data_path          \* whether ZONA_DATA_DIR names a directory

ASSUME RouteAssumption == RouteOf \in [Requests -> Routes] /\ IsFiniteSet(Requests)
ASSUME ThresholdAssumption ==
    /\ {min_samples, total_threshold, min_ready_routes} \subseteq Nat \ {0}
    /\ data_path \in BOOLEAN

TrainingDoneMode == {"Total", "AllRoutes"}

\* Host sessions are numbered; 0 is none, the empty ZONA_HOST_SESSION.
NoSession == 0

PersistedTrainStore ==
    [routes : SUBSET Requests, training_complete : BOOLEAN, host_session_id : Nat]

DefaultStore ==
    [routes |-> {}, training_complete |-> FALSE, host_session_id |-> NoSession]

samples_for(samples, key) == {r \in samples : RouteOf[r] = key}

total_sample_count(store) == Cardinality(store.routes)
routes_meeting_min_samples(store) ==
    Cardinality({key \in Routes :
                    Cardinality(samples_for(store.routes, key)) >= min_samples})

\* check_training_done, of the two counts that it computes.
DoneBy(mode, total, ready) ==
    IF mode = "Total" THEN total >= total_threshold
                      ELSE ready >= min_ready_routes
check_training_done(store, mode) ==
    DoneBy(mode, total_sample_count(store), routes_meeting_min_samples(store))

\* The flag is raised by the first check that succeeds, and never lowered.
Checked(store, mode) ==
    [store EXCEPT !.training_complete = @ \/ check_training_done(store, mode)]

\* record, before the save.
recorded(store, mode, r) == Checked([store EXCEPT !.routes = @ \cup {r}], mode)

should_reset_store_for_host_session(persisted_id, env_session) ==
    env_session # NoSession /\ persisted_id # env_session

\* Mutant: the reset forgets the flag.
ResetKeepsFlag(file, mode, session) ==
    IF ~data_path THEN DefaultStore
    ELSE IF should_reset_store_for_host_session(file.host_session_id, session)
      THEN [file EXCEPT !.routes = {}, !.host_session_id = session]
      ELSE Checked(file, mode)

\* from_env: the store that a new process starts with.
from_env(file, mode, session) ==
    IF ~data_path THEN DefaultStore
    ELSE IF should_reset_store_for_host_session(file.host_session_id, session)
      THEN Checked([DefaultStore EXCEPT !.host_session_id = session], mode)
      ELSE Checked(file, mode)
===============================================================================
