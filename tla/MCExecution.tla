---------------------------- MODULE MCExecution ----------------------------
(***************************************************************************)
(* Execution for TLC: a worker schedule that reaches its cap, and a task   *)
(* schedule given as zero, which the constructor has to repair.            *)
(***************************************************************************)
EXTENDS Execution

WorkerSchedule == <<1, 5>>
TaskSchedule   == <<0, 4>>
IdentityNames  == {"host:1"}
=============================================================================
