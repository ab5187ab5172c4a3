---------------------------- MODULE HealthHistory ----------------------------
(***************************************************************************)
(* HealthCheck with history variables: what the checks of a machine really *)
(* found, against which the verdict "suspect" - the trigger of automatic   *)
(* rotation - can be judged.  The history variables never restrict a step. *)
(***************************************************************************)
EXTENDS HealthCheck

VARIABLES
  failed,   \* checks with a failure score of 5 or more so far, at most FailureThreshold
  grounds,  \* failures the count of a machine may rest on since it last began at zero
  late      \* checks that read the count before then

historyVars == <<machine, check, spawned, failed, grounds, late>>

HistoryInit ==
  /\ HealthInit
  /\ failed = [m \in Machines |-> 0]
  /\ grounds = [m \in Machines |-> 0]
  /\ late = {}

OneMore(n) == UpTo(FailureThreshold, n + 1)

(* What c brings along when it is late: the failures of the time before. *)
Brought(c) == IF c \in late THEN check[c].failure ELSE 0

(***************************************************************************)
(* The outcome of a check enters the history when the check is over.  Its  *)
(* failure is grounds for the count only when its client has stayed: one   *)
(* that left during the probes made the rest of them fail.                 *)
(***************************************************************************)
NoteCheck(c) ==
  LET m      == check[c].machine
      high   == check[c].score = "high"
      before == IF Brought(c) > grounds[m] THEN Brought(c) ELSE grounds[m]
  IN
  /\ failed' = IF high THEN [failed EXCEPT ![m] = OneMore(@)] ELSE failed
  /\ grounds' = IF check[c].pc = "loaded"
                THEN [grounds EXCEPT ![m] = IF high THEN OneMore(before) ELSE before]
                ELSE grounds
  /\ late' = late \ {c}

(***************************************************************************)
(* The count of m begins at zero: a rotation has recorded a new address,   *)
(* or the row has come or gone.  Checks that hold an older count are late. *)
(***************************************************************************)
NoteRenewal(m) ==
  /\ grounds' = [grounds EXCEPT ![m] = 0]
  /\ late' = late \union {c \in Callers : check[c].machine = m /\ check[c].failure > 0}
  /\ UNCHANGED failed

(* What is no end of a check and no new beginning leaves the history alone. *)
Unnoted == UNCHANGED <<failed, grounds, late>>

HistoryNext ==
  \/ \E c \in Callers, m \in Machines, score \in Scores :
       (CheckProbe(c, m, score) \/ CheckAbandon(c, m, score)) /\ Unnoted
  \/ \E c \in Callers : (CheckLoad(c) \/ CheckCancel(c)) /\ Unnoted
  \/ \E c \in Callers : CheckStore(c) /\ NoteCheck(c)
  \/ \E m \in Machines : RunSpawned(m) /\ Unnoted
  \/ \E m \in Machines : (ResetCounters(m) \/ DeleteMachine(m)) /\ NoteRenewal(m)
  \/ \E m \in Machines, auto \in BOOLEAN : CreateMachine(m, auto) /\ NoteRenewal(m)

HistorySpec == HistoryInit /\ [][HistoryNext]_historyVars

HistoryTypeOK ==
  /\ HealthTypeOK
  /\ failed \in [Machines -> 0..FailureThreshold]
  /\ grounds \in [Machines -> 0..FailureThreshold]
  /\ late \subseteq Callers

-----------------------------------------------------------------------------

(***************************************************************************)
(* No false alarm: whatever checks, resets, cancelled requests, deletions  *)
(* and re-creations interleave, a machine is shown as suspect, and an      *)
(* automatic rotation is started for it, only after FailureThreshold of    *)
(* its checks scored 5 or more.  What is shown rests on checks whose       *)
(* client stayed, and none of them from before its count last began: a new *)
(* address inherits no failure of the old one, except through a check that *)
(* read the count before the rotation recorded the address and stored it   *)
(* afterwards, and then no more failures than that check had read.  The    *)
(* counters are read and written in separate statements, and a lost update *)
(* may only lose failures.                                                 *)
(***************************************************************************)
EvidenceBeforeSuspect ==
  \A m \in Machines :
    /\ machine[m].health = "suspect" => grounds[m] = FailureThreshold
    /\ machine[m].health = "suspect" \/ spawned[m] > 0 => failed[m] = FailureThreshold

(* What makes it inductive: no counter, stored or held, exceeds the evidence. *)
CountersHaveEvidence ==
  /\ \A m \in Machines : machine[m].failure <= failed[m]
  /\ \A c \in Callers : check[c].failure <= failed[check[c].machine]

(* Nor, unless it is held by a late check, the grounds. *)
CountersHaveGrounds ==
  /\ \A m \in Machines : machine[m].failure <= grounds[m]
  /\ \A c \in Callers \ late : check[c].failure <= grounds[check[c].machine]
=============================================================================
