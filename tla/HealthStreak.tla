---------------------------- MODULE HealthStreak ----------------------------
(***************************************************************************)
(* HealthCheck with a history variable for what the README promises of     *)
(* "suspect": failing checks in a row.  It never restricts a step.         *)
(***************************************************************************)
EXTENDS HealthCheck

VARIABLE streak   \* failing checks since the last one that scored less, at most FailureThreshold

StreakInit == HealthInit /\ streak = [m \in Machines |-> 0]

NoteStreak(c) ==
  streak' = [streak EXCEPT ![check[c].machine] =
               IF check[c].score = "high" THEN UpTo(FailureThreshold, @ + 1) ELSE 0]

StreakNext ==
  \/ \E c \in Callers : CheckStore(c) /\ NoteStreak(c)
  \/ HealthNext /\ ~(\E c \in Callers : CheckStore(c)) /\ UNCHANGED streak

StreakSpec == StreakInit /\ [][StreakNext]_<<machine, check, spawned, streak>>

(***************************************************************************)
(* README: a machine becomes suspect after FAILURE_THRESHOLD consecutive   *)
(* failing checks.  The code forgets failures only after SuccessRecovery   *)
(* good checks in a row, so single good checks do not break the sequence.  *)
(***************************************************************************)
ConsecutiveBeforeSuspect ==
  \A m \in Machines :
    machine[m].health = "suspect" => streak[m] = FailureThreshold
=============================================================================
