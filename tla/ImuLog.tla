-------------------------------- MODULE ImuLog --------------------------------
(***************************************************************************)
(* main/imu.c: the IMU logging task and how a capture starts and stops it. *)
(*                                                                         *)
(* imu_log_start() creates a task that samples while s_run is set; it      *)
(* clears s_task and gives s_task_done on its way out.  imu_log_stop()     *)
(* clears s_run and takes s_task_done, for two seconds at most, so that no *)
(* sample can reach a closed capture.  Both run on the capture task.       *)
(*                                                                         *)
(* One step is one access to a shared variable or one call of the RTOS.    *)
(***************************************************************************)
EXTENDS Integers

CONSTANTS
  Tasks,  \* task control blocks, free again when their task is deleted
  Null    \* NULL

ASSUME ImuAssumption == Null \notin Tasks

VARIABLES
  run,    \* s_run
  task,   \* s_task
  done,   \* tokens in s_task_done
  api,    \* where the capture task is in imu_log_start() / imu_log_stop()
  ipc,    \* where each task is in imu_task()
  mine,   \* history: the task of the latest run
  late    \* history: a stop timed out, and its task was there at the next start

imuVars == <<run, task, done, api, ipc, mine, late>>

Alive == {t \in Tasks : ipc[t] # "none"}

ImuInit ==
  /\ run = FALSE /\ task = Null /\ done = 0 /\ api = "idle"
  /\ ipc = [t \in Tasks |-> "none"]
  /\ mine = Null /\ late = FALSE

-----------------------------------------------------------------------------
(***************************************************************************)
(* imu_log_start()                                                         *)
(***************************************************************************)

\* Mutation of StartDrain: the leftover token stays.
StartDrainNot ==
  /\ api = "idle" /\ task = Null /\ ~run
  /\ late' = (late /\ Alive # {})
  /\ api' = "drained"
  /\ UNCHANGED <<run, task, done, ipc, mine>>

\* A second start is an error; else a leftover token is taken.
StartDrain ==
  /\ api = "idle" /\ task = Null /\ ~run
  /\ done' = 0
  /\ late' = (late /\ Alive # {})
  /\ api' = "drained"
  /\ UNCHANGED <<run, task, ipc, mine>>

\* s_t0_us, s_samples and s_drops, then s_run.
StartRun ==
  /\ api = "drained"
  /\ run' = TRUE
  /\ api' = "create"
  /\ UNCHANGED <<task, done, ipc, mine, late>>

\* xTaskCreate() stores the handle before the task can run.
StartCreate ==
  /\ api = "create"
  /\ \E t \in Tasks \ Alive :
       task' = t /\ mine' = t /\ ipc' = [ipc EXCEPT ![t] = "loop"]
  /\ api' = "idle"
  /\ UNCHANGED <<run, done, late>>

StartCreateFails ==
  /\ api = "create"
  /\ run' = FALSE /\ task' = Null
  /\ api' = "idle"
  /\ UNCHANGED <<done, ipc, mine, late>>

-----------------------------------------------------------------------------
(***************************************************************************)
(* imu_log_stop()                                                          *)
(***************************************************************************)

StopRun ==
  /\ api = "idle" /\ (task # Null \/ run)
  /\ run' = FALSE
  /\ api' = "waiting"
  /\ UNCHANGED <<task, done, ipc, mine, late>>

StopTake ==
  /\ api = "waiting" /\ done = 1
  /\ done' = 0 /\ task' = Null
  /\ api' = "idle"
  /\ UNCHANGED <<run, ipc, mine, late>>

\* "imu task did not exit within 2000 ms"
StopTimeout ==
  /\ api = "waiting" /\ done = 0
  /\ task' = Null
  /\ late' = TRUE
  /\ api' = "idle"
  /\ UNCHANGED <<run, done, ipc, mine>>

-----------------------------------------------------------------------------
(***************************************************************************)
(* imu_task()                                                              *)
(***************************************************************************)
ImuLoop(t) ==
  /\ ipc[t] = "loop"
  /\ ipc' = [ipc EXCEPT ![t] = IF run THEN "read" ELSE "leave"]
  /\ UNCHANGED <<run, task, done, api, mine, late>>

\* imu_read() returned: the sample is stamped, and handed to store_write() next
\* unless the transaction failed.
ImuRead(t) ==
  /\ ipc[t] = "read"
  /\ \E next \in {"write", "loop"} : ipc' = [ipc EXCEPT ![t] = next]
  /\ UNCHANGED <<run, task, done, api, mine, late>>

\* store_write(), then the rest of the period.
ImuWrite(t) ==
  /\ ipc[t] = "write"
  /\ ipc' = [ipc EXCEPT ![t] = "loop"]
  /\ UNCHANGED <<run, task, done, api, mine, late>>

ImuLeave(t) ==
  /\ ipc[t] = "leave"
  /\ task' = Null
  /\ ipc' = [ipc EXCEPT ![t] = "give"]
  /\ UNCHANGED <<run, done, api, mine, late>>

\* "once this is given, no further store_write() can come from here"
ImuGive(t) ==
  /\ ipc[t] = "give"
  /\ done' = 1
  /\ ipc' = [ipc EXCEPT ![t] = "none"]
  /\ UNCHANGED <<run, task, api, mine, late>>

-----------------------------------------------------------------------------
ImuApi ==
  \/ StartDrain \/ StartRun \/ StartCreate \/ StartCreateFails
  \/ StopRun \/ StopTake \/ StopTimeout

ImuTask(t) == ImuLoop(t) \/ ImuRead(t) \/ ImuWrite(t) \/ ImuLeave(t) \/ ImuGive(t)

ImuNext == ImuApi \/ \E t \in Tasks : ImuTask(t)

ImuSpec == ImuInit /\ [][ImuNext]_imuVars

\* A task sleeps between two samples, the I2C transaction has a timeout and so has
\* the wait for the token: the scheduler gets all of them to run.
ImuFairness ==
  /\ WF_imuVars(StopTake \/ StopTimeout)
  /\ \A t \in Tasks : WF_imuVars(ImuTask(t))

ImuFairSpec == ImuSpec /\ ImuFairness

-----------------------------------------------------------------------------
\* Every variable holds a value of its kind; the semaphore is binary.
ImuTypeOK ==
  /\ run \in BOOLEAN /\ task \in Tasks \cup {Null} /\ done \in {0, 1}
  /\ api \in {"idle", "drained", "create", "waiting"}
  /\ ipc \in [Tasks -> {"none", "loop", "read", "write", "leave", "give"}]
  /\ mine \in Tasks \cup {Null} /\ late \in BOOLEAN

\* Unless the task of a stop that timed out is still around at the next start: outside
\* a run no imu task is left that could reach store_write() once imu_log_stop() has
\* returned; a run has one task, its own; and the token says that it has gone.  A stop
\* that timed out before does not matter: its token was drained.
OneTaskPerRun ==
  ~late =>
    /\ api # "waiting" /\ ~run => Alive = {}
    /\ Alive \subseteq {mine}
    /\ done = 1 => Alive = {}

=============================================================================
