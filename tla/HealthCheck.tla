----------------------------- MODULE HealthCheck -----------------------------
(***************************************************************************)
(* Connectivity checks of a machine and the counters they keep             *)
(* (checkMachineNow in backend/internal/api/probes.go).                    *)
(*                                                                         *)
(* A check runs the machine's enabled probes, adds up the weights of the   *)
(* failed ones, SELECTs the two counters of the machine's row, computes    *)
(* the next counters and the next health status in memory, and UPDATEs the *)
(* row.  Nothing orders two checks of one machine: the scheduler starts a  *)
(* goroutine per machine every 15 s, an administrator may ask for a check, *)
(* and a rotation runs one or two of its own, so the SELECT of one check   *)
(* and its UPDATE may have any steps of the others between them.           *)
(*                                                                         *)
(* Only the columns the checks read and write are kept here, with the      *)
(* columns the rotation needs of the same row (address, opt-in, cooldown). *)
(***************************************************************************)
EXTENDS Naturals

CONSTANTS
  Machines,          \* ids of machines
  Callers,           \* goroutines that may be inside checkMachineNow
  Requests,          \* those that run under the context of an HTTP request
  IPs,               \* public addresses
  NoIP,              \* the empty string in an address column
  FailureThreshold,  \* FAILURE_THRESHOLD
  SuccessRecovery,   \* SUCCESS_RECOVERY_THRESHOLD
  AutoRotateGlobal,  \* AUTO_ROTATE_GLOBAL_ENABLED
  MaxSpawned         \* bound: automatic rotations started and not yet running

(* A threshold configured below 1 acts as 1: counters are incremented first. *)
ASSUME ThresholdAssumption ==
  /\ FailureThreshold \in Nat \ {0}
  /\ SuccessRecovery \in Nat \ {0}

ASSUME HealthConstants ==
  /\ AutoRotateGlobal \in BOOLEAN
  /\ MaxSpawned \in Nat \ {0}
  /\ NoIP \notin IPs
  /\ Requests \subseteq Callers

VARIABLES
  machine,   \* the machines table, one row per id
  check,     \* local state of the checkMachineNow each caller is in
  spawned    \* goroutines "go a.rotate(..., auto)" that have not run yet

healthVars == <<machine, check, spawned>>

-----------------------------------------------------------------------------

HealthStatus == {"unknown", "healthy", "degraded", "suspect"}

(* The classes of failure score the counters tell apart: below 5, 5 or more. *)
Scores == {"low", "high"}

Address == IPs \union {NoIP}

Row == [exists   : BOOLEAN,
        ip       : Address,
        auto     : BOOLEAN,
        cooldown : Nat,            \* rotation_cooldown_until, 0 when NULL
        health   : HealthStatus,
        failure  : 0..FailureThreshold,
        success  : 0..SuccessRecovery]

(* A row as the column defaults leave it. *)
NewRow == [exists |-> TRUE, ip |-> NoIP, auto |-> FALSE, cooldown |-> 0,
           health |-> "unknown", failure |-> 0, success |-> 0]

NoRow == [NewRow EXCEPT !.exists = FALSE]

Check == [pc      : {"idle", "probed", "loaded", "cancelled"},
          machine : Machines,
          score   : Scores,
          failure : 0..FailureThreshold,
          success : 0..SuccessRecovery]

(***************************************************************************)
(* The counters only meet their thresholds in comparisons with >= (and     *)
(* failure with > 0), so a counter at its threshold behaves like every     *)
(* larger one and is kept there.                                           *)
(***************************************************************************)
UpTo(bound, n) == IF n > bound THEN bound ELSE n

(* Mutant of AfterFailure: the status of a probe result lands in the health column. *)
AfterFailureStatus(f) ==
  [failure |-> UpTo(FailureThreshold, f + 1), success |-> 0,
   health |-> IF f + 1 >= FailureThreshold THEN "failed" ELSE "healthy"]

(* Mutant of AfterFailure: the threshold is met one failure early. *)
AfterFailureEarly(f) ==
  [failure |-> UpTo(FailureThreshold, f + 1), success |-> 0,
   health |-> IF f + 2 >= FailureThreshold THEN "suspect" ELSE "healthy"]

(* Mutant of AfterFailure: reaching the threshold starts the count anew. *)
AfterFailureRestart(f) ==
  [failure |-> IF f + 1 >= FailureThreshold THEN 0 ELSE f + 1, success |-> 0,
   health |-> IF f + 1 >= FailureThreshold THEN "suspect" ELSE "healthy"]

(* Mutant of AfterSuccess: health goes by the count that was read, not the one that is left. *)
AfterSuccessStale(f, s) ==
  [failure |-> IF s + 1 >= SuccessRecovery THEN 0 ELSE f,
   success |-> UpTo(SuccessRecovery, s + 1),
   health  |-> IF f > 0 THEN "degraded" ELSE "healthy"]

(* Mutant of AfterSuccess: good checks are not counted. *)
AfterSuccessUncounted(f, s) ==
  LET left == IF s + 1 >= SuccessRecovery THEN 0 ELSE f
  IN  [failure |-> left, success |-> s,
       health |-> IF left > 0 THEN "degraded" ELSE "healthy"]

(* Counters and health that a check writes after reading f and s. *)
AfterFailure(f) ==
  [failure |-> UpTo(FailureThreshold, f + 1),
   success |-> 0,
   health  |-> IF f + 1 >= FailureThreshold THEN "suspect" ELSE "healthy"]

AfterSuccess(f, s) ==
  LET left == IF s + 1 >= SuccessRecovery THEN 0 ELSE f
  IN  [failure |-> left,
       success |-> UpTo(SuccessRecovery, s + 1),
       health  |-> IF left > 0 THEN "degraded" ELSE "healthy"]

Verdict(score, f, s) ==
  IF score = "high" THEN AfterFailure(f) ELSE AfterSuccess(f, s)

IdleCheck(m) == [pc |-> "idle", machine |-> m, score |-> "low",
                 failure |-> 0, success |-> 0]

-----------------------------------------------------------------------------

HealthInit ==
  /\ machine = [m \in Machines |-> NoRow]
  /\ check \in [Callers -> {IdleCheck(m) : m \in Machines}]
  /\ spawned = [m \in Machines |-> 0]

(***************************************************************************)
(* Probes have run: the score is known and the counters are not read yet.  *)
(* Without an enabled probe the code returns an error and changes nothing, *)
(* so only checks of at least one probe appear here.  The id need not have *)
(* a row: probe rules outlive a deleted machine.                           *)
(***************************************************************************)
CheckProbe(c, m, score) ==
  /\ check[c].pc = "idle"
  /\ check' = [check EXCEPT ![c] = [pc |-> "probed", machine |-> m, score |-> score,
                                    failure |-> 0, success |-> 0]]
  /\ UNCHANGED <<machine, spawned>>

(* Mutant of CheckLoad: the two columns are scanned in the wrong order. *)
CheckLoadSwapped(c) ==
  LET row == machine[check[c].machine] IN
  /\ check[c].pc = "probed"
  /\ check' = [check EXCEPT ![c].pc = "loaded",
                            ![c].failure = IF row.exists THEN row.success ELSE 0,
                            ![c].success = IF row.exists THEN row.failure ELSE 0]
  /\ UNCHANGED <<machine, spawned>>

(* SELECT failure_count,success_count; no row leaves both at zero. *)
CheckLoad(c) ==
  LET row == machine[check[c].machine] IN
  /\ check[c].pc = "probed"
  /\ check' = [check EXCEPT ![c].pc = "loaded",
                            ![c].failure = IF row.exists THEN row.failure ELSE 0,
                            ![c].success = IF row.exists THEN row.success ELSE 0]
  /\ UNCHANGED <<machine, spawned>>

(***************************************************************************)
(* The client of a check gives up: later statements under its context fail *)
(* and their errors are ignored, so a SELECT not yet made leaves both      *)
(* counters at zero and the UPDATE writes nothing.                         *)
(***************************************************************************)
CheckCancel(c) ==
  /\ c \in Requests
  /\ check[c].pc \in {"probed", "loaded"}
  /\ check' = [check EXCEPT ![c].pc = "cancelled"]
  /\ UNCHANGED <<machine, spawned>>

(***************************************************************************)
(* The client gives up while the probes run: those that are left fail, so  *)
(* the score may be high over a network that is well, and every statement  *)
(* after them fails.  (CheckProbe and CheckCancel at once: it matters only *)
(* where the score is tied to the state of the network.)                   *)
(***************************************************************************)
CheckAbandon(c, m, score) ==
  /\ c \in Requests
  /\ check[c].pc = "idle"
  /\ check' = [check EXCEPT ![c] = [pc |-> "cancelled", machine |-> m, score |-> score,
                                    failure |-> 0, success |-> 0]]
  /\ UNCHANGED <<machine, spawned>>

(***************************************************************************)
(* UPDATE machines SET health_status, failure_count, success_count, from   *)
(* what was read before; it touches no row when the machine is gone.  A    *)
(* suspect machine starts an automatic rotation when rotation is enabled   *)
(* globally: the opt-in of the machine is looked at by the rotation.       *)
(***************************************************************************)
CheckStore(c) ==
  LET m == check[c].machine
      v == Verdict(check[c].score, check[c].failure, check[c].success)
      starts == v.health = "suspect" /\ AutoRotateGlobal
  IN
  /\ check[c].pc \in {"loaded", "cancelled"}
  /\ starts => spawned[m] < MaxSpawned
  /\ machine' = IF check[c].pc = "loaded" /\ machine[m].exists
                THEN [machine EXCEPT ![m].health = v.health,
                                     ![m].failure = v.failure,
                                     ![m].success = v.success]
                ELSE machine
  /\ spawned' = IF starts THEN [spawned EXCEPT ![m] = @ + 1] ELSE spawned
  /\ check' = [check EXCEPT ![c] = IdleCheck(m)]

-----------------------------------------------------------------------------
(* Mutant of Recorded: the counters are those of the old address. *)
RecordedKept(row, ip, until) == [row EXCEPT !.ip = ip, !.cooldown = until]

(***************************************************************************)
(* Other writers of the row.  A rotation resets the counters when it       *)
(* records its new address; the step is part of the rotation job in module *)
(* Rotation, and stands here alone so that this module can be checked by   *)
(* itself.                                                                 *)
(***************************************************************************)
Recorded(row, ip, until) ==
  [row EXCEPT !.ip = ip, !.cooldown = until,
              !.health = "unknown", !.failure = 0, !.success = 0]

ResetCounters(m) ==
  /\ machine[m].exists
  /\ machine' = [machine EXCEPT ![m] = Recorded(@, @.ip, @.cooldown)]
  /\ UNCHANGED <<check, spawned>>

(* A spawned rotation begins to run; what it does is module Rotation. *)
RunSpawned(m) ==
  /\ spawned[m] > 0
  /\ spawned' = [spawned EXCEPT ![m] = @ - 1]
  /\ UNCHANGED <<machine, check>>

(* DELETE FROM machines: probe rules and checks in flight stay. *)
DeleteMachine(m) ==
  /\ machine[m].exists
  /\ machine' = [machine EXCEPT ![m] = NoRow]
  /\ UNCHANGED <<check, spawned>>

(* INSERT by an administrator, who may opt the machine in at once. *)
CreateMachine(m, auto) ==
  /\ ~machine[m].exists
  /\ machine' = [machine EXCEPT ![m] = [NewRow EXCEPT !.auto = auto]]
  /\ UNCHANGED <<check, spawned>>

HealthNext ==
  \/ \E c \in Callers, m \in Machines, score \in Scores :
       CheckProbe(c, m, score) \/ CheckAbandon(c, m, score)
  \/ \E c \in Callers : CheckLoad(c)
  \/ \E c \in Callers : CheckCancel(c)
  \/ \E c \in Callers : CheckStore(c)
  \/ \E m \in Machines : ResetCounters(m)
  \/ \E m \in Machines : RunSpawned(m)
  \/ \E m \in Machines : DeleteMachine(m)
  \/ \E m \in Machines, auto \in BOOLEAN : CreateMachine(m, auto)

HealthSpec == HealthInit /\ [][HealthNext]_healthVars

-----------------------------------------------------------------------------

HealthTypeOK ==
  /\ machine \in [Machines -> Row]
  /\ check \in [Callers -> Check]
  /\ spawned \in [Machines -> 0..MaxSpawned]

(***************************************************************************)
(* The health column and the two counters tell one story, whatever checks  *)
(* and resets interleave: each writer stores the three columns together.   *)
(* A machine that fails below the threshold is shown as healthy, with a    *)
(* failure count; it is degraded only while it recovers (probes.go:202).   *)
(***************************************************************************)
RowAgrees(row) ==
  /\ row.health = "suspect"  => row.failure = FailureThreshold /\ row.success = 0
  /\ row.health = "degraded" => row.failure > 0 /\ row.success \in 1..(SuccessRecovery - 1)
  /\ row.health = "unknown"  => row.failure = 0 /\ row.success = 0
  /\ row.health = "healthy"  => \/ row.failure = 0 /\ row.success > 0
                                \/ row.failure \in 1..(FailureThreshold - 1) /\ row.success = 0

HealthMatchesCounters == \A m \in Machines : RowAgrees(machine[m])

=============================================================================
