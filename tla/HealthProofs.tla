---------------------------- MODULE HealthProofs ----------------------------
(* Theorems about HealthCheck, HealthHistory (no false alarm) and Reachability. *)
EXTENDS Reachability, TLAPS

(* What a check writes is well typed and agrees with itself, whatever it read. *)
LEMMA VerdictType ==
  ASSUME NEW score \in Scores,
         NEW f \in 0..FailureThreshold, NEW s \in 0..SuccessRecovery
  PROVE  LET v == Verdict(score, f, s) IN
         /\ v.health \in HealthStatus
         /\ v.failure \in 0..FailureThreshold
         /\ v.success \in 0..SuccessRecovery
         /\ RowAgrees(v)
  BY ThresholdAssumption
  DEF Verdict, AfterFailure, AfterSuccess, UpTo, HealthStatus, RowAgrees, Scores

-----------------------------------------------------------------------------
(* Every step of HealthCheck keeps the types, action by action. *)

LEMMA RowValues ==
  /\ NewRow \in Row /\ NoRow \in Row
  /\ \A m \in Machines : IdleCheck(m) \in Check
<1>1. 0 \in 0..FailureThreshold /\ 0 \in 0..SuccessRecovery
  BY ThresholdAssumption
<1>2. NewRow \in Row
  BY <1>1 DEF NewRow, Row, Address, HealthStatus
<1>3. NoRow \in Row
  BY <1>2 DEF NoRow, Row
<1>4. \A m \in Machines : IdleCheck(m) \in Check
  BY <1>1 DEF IdleCheck, Check, Scores
<1> QED BY <1>2, <1>3, <1>4

(* Columns that are written keep the row well typed. *)
LEMMA RowWrite ==
  ASSUME NEW row \in Row, NEW h \in HealthStatus,
         NEW f \in 0..FailureThreshold, NEW s \in 0..SuccessRecovery
  PROVE  [row EXCEPT !.health = h, !.failure = f, !.success = s] \in Row
  BY DEF Row

LEMMA RecordedType ==
  ASSUME NEW row \in Row, NEW ip \in Address, NEW until \in Nat
  PROVE  Recorded(row, ip, until) \in Row
<1>1. 0 \in 0..FailureThreshold /\ 0 \in 0..SuccessRecovery
  BY ThresholdAssumption
<1> QED BY <1>1 DEF Recorded, Row, HealthStatus

LEMMA HealthTypeInit == HealthInit => HealthTypeOK
<1> SUFFICES ASSUME HealthInit PROVE HealthTypeOK
  OBVIOUS
<1>1. machine \in [Machines -> Row]
  BY RowValues DEF HealthInit
<1>2. check \in [Callers -> Check]
  BY RowValues DEF HealthInit
<1>3. spawned \in [Machines -> 0..MaxSpawned]
  BY HealthConstants DEF HealthInit
<1> QED BY <1>1, <1>2, <1>3 DEF HealthTypeOK

(* Every step of HealthCheck keeps the types, action by action. *)
LEMMA HealthTypeStep == HealthTypeOK /\ [HealthNext]_healthVars => HealthTypeOK'
<1> SUFFICES ASSUME HealthTypeOK, [HealthNext]_healthVars PROVE HealthTypeOK'
  OBVIOUS
<1> USE DEF HealthTypeOK
<1>1. ASSUME NEW c \in Callers, NEW m \in Machines, NEW score \in Scores,
             CheckProbe(c, m, score)
      PROVE  HealthTypeOK'
  <2>1. [pc |-> "probed", machine |-> m, score |-> score, failure |-> 0, success |-> 0]
          \in Check
    BY ThresholdAssumption DEF Check
  <2> QED BY <1>1, <2>1 DEF CheckProbe
<1>2. ASSUME NEW c \in Callers, CheckLoad(c) PROVE HealthTypeOK'
  <2> DEFINE row == machine[check[c].machine]
             f == IF row.exists THEN row.failure ELSE 0
             s == IF row.exists THEN row.success ELSE 0
  <2>1. check[c] \in Check /\ row \in Row
    BY DEF Check
  <2>2. f \in 0..FailureThreshold /\ s \in 0..SuccessRecovery
    BY <2>1, ThresholdAssumption DEF Row
  <2>3. [check[c] EXCEPT !.pc = "loaded", !.failure = f, !.success = s] \in Check
    BY <2>1, <2>2 DEF Check
  <2>4. check' = [check EXCEPT ![c] =
                    [check[c] EXCEPT !.pc = "loaded", !.failure = f, !.success = s]]
    BY <1>2 DEF CheckLoad
  <2> QED BY <1>2, <2>3, <2>4 DEF CheckLoad
<1>3. ASSUME NEW c \in Callers, CheckCancel(c) PROVE HealthTypeOK'
  <2>1. [check[c] EXCEPT !.pc = "cancelled"] \in Check
    BY DEF Check
  <2> QED BY <1>3, <2>1 DEF CheckCancel
<1>4. ASSUME NEW c \in Callers, CheckStore(c) PROVE HealthTypeOK'
  <2> DEFINE m == check[c].machine
             v == Verdict(check[c].score, check[c].failure, check[c].success)
             row == [machine[m] EXCEPT !.health = v.health, !.failure = v.failure,
                                       !.success = v.success]
             starts == v.health = "suspect" /\ AutoRotateGlobal
  <2>1. /\ m \in Machines /\ check[c].score \in Scores
        /\ check[c].failure \in 0..FailureThreshold
        /\ check[c].success \in 0..SuccessRecovery
    BY DEF Check
  <2>2. /\ v.health \in HealthStatus
        /\ v.failure \in 0..FailureThreshold
        /\ v.success \in 0..SuccessRecovery
    BY <2>1, VerdictType
  <2>3. row \in Row /\ IdleCheck(m) \in Check
    BY <2>1, <2>2, RowWrite, RowValues
  <2>4. /\ starts => spawned[m] < MaxSpawned
        /\ machine' = IF check[c].pc = "loaded" /\ machine[m].exists
                      THEN [machine EXCEPT ![m] = row] ELSE machine
        /\ spawned' = IF starts THEN [spawned EXCEPT ![m] = @ + 1] ELSE spawned
        /\ check' = [check EXCEPT ![c] = IdleCheck(m)]
    BY <1>4, <2>1 DEF CheckStore
  <2> HIDE DEF m, row, starts
  <2>5. spawned' \in [Machines -> 0..MaxSpawned]
    BY <2>1, <2>4, HealthConstants
  <2> QED BY <2>1, <2>3, <2>4, <2>5
<1>5. ASSUME NEW m \in Machines, ResetCounters(m) PROVE HealthTypeOK'
  <2>1. Recorded(machine[m], machine[m].ip, machine[m].cooldown) \in Row
    BY RecordedType DEF Row
  <2> QED BY <1>5, <2>1 DEF ResetCounters
<1>6. ASSUME NEW m \in Machines, RunSpawned(m) PROVE HealthTypeOK'
  <2>1. spawned[m] \in 0..MaxSpawned /\ spawned[m] > 0
    BY <1>6 DEF RunSpawned
  <2>2. spawned[m] - 1 \in 0..MaxSpawned
    BY <2>1, HealthConstants
  <2> QED BY <1>6, <2>2 DEF RunSpawned
<1>7. ASSUME NEW m \in Machines, DeleteMachine(m) PROVE HealthTypeOK'
  BY <1>7, RowValues DEF DeleteMachine
<1>8. ASSUME NEW m \in Machines, NEW auto \in BOOLEAN, CreateMachine(m, auto)
      PROVE  HealthTypeOK'
  <2>1. [NewRow EXCEPT !.auto = auto] \in Row
    BY RowValues DEF Row
  <2> QED BY <1>8, <2>1 DEF CreateMachine
<1>9. CASE UNCHANGED healthVars
  BY <1>9 DEF healthVars
<1>10. ASSUME NEW c \in Callers, NEW m \in Machines, NEW score \in Scores,
              CheckAbandon(c, m, score)
       PROVE  HealthTypeOK'
  <2>1. [pc |-> "cancelled", machine |-> m, score |-> score, failure |-> 0, success |-> 0]
          \in Check
    BY ThresholdAssumption DEF Check
  <2> QED BY <1>10, <2>1 DEF CheckAbandon
<1> QED BY <1>1, <1>2, <1>3, <1>4, <1>5, <1>6, <1>7, <1>8, <1>9, <1>10 DEF HealthNext

(* Rows, checks in flight and started rotations keep their types. *)
THEOREM HealthTypeCorrect == HealthSpec => []HealthTypeOK
  BY HealthTypeInit, HealthTypeStep, PTL DEF HealthSpec

-----------------------------------------------------------------------------
(* The health column agrees with the counters. *)

(* A step leaves a row alone or writes one that agrees with itself. *)
LEMMA MatchStep ==
  HealthTypeOK /\ HealthMatchesCounters /\ [HealthNext]_healthVars
    => HealthMatchesCounters'
<1> SUFFICES ASSUME HealthTypeOK, HealthMatchesCounters, [HealthNext]_healthVars,
                    NEW n \in Machines
             PROVE  RowAgrees(machine'[n])
  BY DEF HealthMatchesCounters
<1>0. machine[n] \in Row /\ RowAgrees(machine[n])
  BY DEF HealthMatchesCounters, HealthTypeOK
<1>1. CASE UNCHANGED machine
  BY <1>0, <1>1
<1>2. ASSUME NEW c \in Callers, CheckStore(c) PROVE RowAgrees(machine'[n])
  <2> DEFINE m == check[c].machine
             v == Verdict(check[c].score, check[c].failure, check[c].success)
             row == [machine[m] EXCEPT !.health = v.health, !.failure = v.failure,
                                       !.success = v.success]
  <2>1. /\ m \in Machines /\ machine[m] \in Row
        /\ check[c].score \in Scores
        /\ check[c].failure \in 0..FailureThreshold
        /\ check[c].success \in 0..SuccessRecovery
    BY DEF HealthTypeOK, Check
  <2>2. RowAgrees(v)
    BY <2>1, VerdictType
  <2>3. row.health = v.health /\ row.failure = v.failure /\ row.success = v.success
    BY <2>1 DEF Row
  <2>4. RowAgrees(row)
    <3> HIDE DEF row, v
    <3> QED BY <2>2, <2>3 DEF RowAgrees
  <2>5. machine' = [machine EXCEPT ![m] = row] \/ UNCHANGED machine
    BY <1>2 DEF CheckStore
  <2>6. machine'[n] = row \/ machine'[n] = machine[n]
    <3> HIDE DEF row
    <3> QED BY <2>1, <2>5 DEF HealthTypeOK
  <2> QED BY <1>0, <2>4, <2>6
<1>3. ASSUME NEW m \in Machines, ResetCounters(m) PROVE RowAgrees(machine'[n])
  <2>1. machine'[n] = machine[n] \/ machine'[n] = Recorded(machine[n], machine[n].ip, machine[n].cooldown)
    BY <1>3 DEF ResetCounters, HealthTypeOK
  <2>2. RowAgrees(Recorded(machine[n], machine[n].ip, machine[n].cooldown))
    BY <1>0 DEF Recorded, RowAgrees, Row
  <2> QED BY <1>0, <2>1, <2>2
<1>4. ASSUME NEW m \in Machines, DeleteMachine(m) PROVE RowAgrees(machine'[n])
  <2>1. machine'[n] = machine[n] \/ machine'[n] = NoRow
    BY <1>4 DEF DeleteMachine, HealthTypeOK
  <2> QED BY <1>0, <2>1 DEF NoRow, NewRow, RowAgrees
<1>5. ASSUME NEW m \in Machines, NEW auto \in BOOLEAN, CreateMachine(m, auto)
      PROVE  RowAgrees(machine'[n])
  <2>1. machine'[n] = machine[n] \/ machine'[n] = [NewRow EXCEPT !.auto = auto]
    BY <1>5 DEF CreateMachine, HealthTypeOK
  <2> QED BY <1>0, <2>1 DEF NewRow, RowAgrees
<1> QED
  BY <1>1, <1>2, <1>3, <1>4, <1>5
  DEF HealthNext, healthVars, CheckProbe, CheckAbandon, CheckLoad, CheckCancel, RunSpawned

LEMMA MatchInit == HealthInit => HealthMatchesCounters
  BY DEF HealthInit, HealthMatchesCounters, RowAgrees, NoRow, NewRow

(***************************************************************************)
(* Whatever checks, resets and deletions interleave, the health column and *)
(* the counters of every row tell one story.                               *)
(***************************************************************************)
THEOREM MatchCorrect == HealthSpec => []HealthMatchesCounters
  BY MatchInit, HealthTypeCorrect, MatchStep, PTL DEF HealthSpec

-----------------------------------------------------------------------------
(* A check claims no more failures than it read, plus the one it saw. *)
LEMMA VerdictEvidence ==
  ASSUME NEW score \in Scores,
         NEW f \in 0..FailureThreshold, NEW s \in 0..SuccessRecovery
  PROVE  LET v == Verdict(score, f, s) IN
         /\ score = "high" => v.failure = OneMore(f)
         /\ score # "high" => v.failure <= f
         /\ v.health = "suspect" => score = "high" /\ v.failure = FailureThreshold
  BY ThresholdAssumption
  DEF Verdict, AfterFailure, AfterSuccess, UpTo, OneMore, Scores

-----------------------------------------------------------------------------
LEMMA HistoryStepIsHealthStep == [HistoryNext]_historyVars => [HealthNext]_healthVars
<1> SUFFICES ASSUME HistoryNext PROVE HealthNext
  BY DEF historyVars, healthVars
<1> QED BY DEF HistoryNext, HealthNext

(* The types of the history variables. *)
NotedTypeOK ==
  /\ failed \in [Machines -> 0..FailureThreshold]
  /\ grounds \in [Machines -> 0..FailureThreshold]
  /\ late \subseteq Callers

LEMMA HistoryTypeStep == HistoryTypeOK /\ [HistoryNext]_historyVars => HistoryTypeOK'
<1> SUFFICES ASSUME HistoryTypeOK, [HistoryNext]_historyVars PROVE HistoryTypeOK'
  OBVIOUS
<1>1. HealthTypeOK'
  BY HealthTypeStep, HistoryStepIsHealthStep DEF HistoryTypeOK
<1>2. ASSUME NEW c \in Callers, NoteCheck(c)
      PROVE  NotedTypeOK'
  <2>1. \A n \in 0..FailureThreshold : OneMore(n) \in 0..FailureThreshold
    BY ThresholdAssumption DEF OneMore, UpTo
  <2>2. Brought(c) \in 0..FailureThreshold /\ check[c].machine \in Machines
    BY ThresholdAssumption DEF Brought, HistoryTypeOK, HealthTypeOK, Check
  <2> DEFINE m == check[c].machine
             before == IF Brought(c) > grounds[m] THEN Brought(c) ELSE grounds[m]
  <2>3. before \in 0..FailureThreshold
    BY <2>2 DEF HistoryTypeOK
  <2>4. /\ failed' = failed \/ failed' = [failed EXCEPT ![m] = OneMore(@)]
        /\ \/ grounds' = grounds
           \/ grounds' = [grounds EXCEPT ![m] = OneMore(before)]
           \/ grounds' = [grounds EXCEPT ![m] = before]
        /\ late' = late \ {c}
    BY <1>2 DEF NoteCheck
  <2> HIDE DEF m, before
  <2> QED BY <2>1, <2>3, <2>4 DEF HistoryTypeOK, NotedTypeOK
<1>3. ASSUME NEW m \in Machines, NoteRenewal(m) PROVE NotedTypeOK'
  <2>1. 0 \in 0..FailureThreshold
    BY ThresholdAssumption
  <2> QED BY <1>3, <2>1 DEF NoteRenewal, HistoryTypeOK, NotedTypeOK
<1>4. ASSUME Unnoted PROVE NotedTypeOK'
  BY <1>4 DEF Unnoted, HistoryTypeOK, NotedTypeOK
<1>5. \/ \E c \in Callers : NoteCheck(c)
      \/ \E m \in Machines : NoteRenewal(m)
      \/ Unnoted
  BY DEF HistoryNext, historyVars, Unnoted
<1> QED BY <1>1, <1>2, <1>3, <1>4, <1>5 DEF HistoryTypeOK, NotedTypeOK

THEOREM HistoryTypeCorrect == HistorySpec => []HistoryTypeOK
<1>1. HistoryInit => HistoryTypeOK
  BY HealthTypeInit, ThresholdAssumption DEF HistoryInit, HistoryTypeOK
<1> QED BY <1>1, HistoryTypeStep, PTL DEF HistorySpec

(* The invariant: the evidence bounds every counter, and every started rotation. *)
SpawnedHasEvidence ==
  \A m \in Machines : spawned[m] > 0 => failed[m] = FailureThreshold

EvidenceInv ==
  /\ HistoryTypeOK /\ HealthMatchesCounters
  /\ CountersHaveEvidence /\ SpawnedHasEvidence /\ CountersHaveGrounds

(* The check that ends holds no more failures than the evidence, and adds one to both. *)
LEMMA StoreEvidence ==
  ASSUME EvidenceInv, NEW c \in Callers, CheckStore(c), NoteCheck(c), HistoryTypeOK'
  PROVE  CountersHaveEvidence' /\ SpawnedHasEvidence'
<1> DEFINE m == check[c].machine
           f == check[c].failure
           v == Verdict(check[c].score, f, check[c].success)
<1>1. /\ m \in Machines /\ check[c].score \in Scores
      /\ f \in 0..FailureThreshold /\ check[c].success \in 0..SuccessRecovery
      /\ machine \in [Machines -> Row] /\ check \in [Callers -> Check]
      /\ failed \in [Machines -> 0..FailureThreshold]
      /\ spawned \in [Machines -> 0..MaxSpawned]
  BY DEF EvidenceInv, HistoryTypeOK, HealthTypeOK, Check
<1>2. f <= failed[m] /\ v.failure \in 0..FailureThreshold
  BY <1>1, VerdictType DEF EvidenceInv, CountersHaveEvidence
<1>3. /\ \A n \in Machines : failed[n] <= failed'[n]
      /\ v.failure <= failed'[m]
      /\ v.health = "suspect" => failed'[m] = FailureThreshold
  <2>1. CASE check[c].score = "high"
    <3>1. failed' = [failed EXCEPT ![m] = OneMore(@)]
      BY <2>1 DEF NoteCheck
    <3>2. v.failure = OneMore(f)
          /\ (v.health = "suspect" => v.failure = FailureThreshold)
      BY <1>1, <2>1, VerdictEvidence
    <3> HIDE DEF v, m, f
    <3>3. /\ OneMore(f) <= OneMore(failed[m])
          /\ \A n \in 0..FailureThreshold : n <= OneMore(n) /\ OneMore(n) <= FailureThreshold
      BY <1>1, <1>2, ThresholdAssumption DEF OneMore, UpTo
    <3>4. failed'[m] = OneMore(failed[m])
          /\ \A n \in Machines : n # m => failed'[n] = failed[n]
      BY <1>1, <3>1
    <3>5. failed'[m] \in 0..FailureThreshold
      BY <1>1 DEF HistoryTypeOK
    <3> QED BY <1>1, <1>2, <3>2, <3>3, <3>4, <3>5, ThresholdAssumption
  <2>2. CASE check[c].score # "high"
    <3>1. failed' = failed
      BY <2>2 DEF NoteCheck
    <3>2. v.failure <= f /\ v.health # "suspect"
      BY <1>1, <2>2, VerdictEvidence
    <3> HIDE DEF v, m, f
    <3> QED BY <1>1, <1>2, <3>1, <3>2
  <2> QED BY <2>1, <2>2
<1>4. \A n \in Machines : machine'[n].failure <= failed'[n]
  <2> SUFFICES ASSUME NEW n \in Machines PROVE machine'[n].failure <= failed'[n]
    OBVIOUS
  <2> DEFINE row == [machine[m] EXCEPT !.health = v.health, !.failure = v.failure,
                                       !.success = v.success]
  <2>1. machine' = [machine EXCEPT ![m] = row] \/ machine' = machine
    BY DEF CheckStore
  <2>2. row.failure = v.failure
    BY <1>1 DEF Row
  <2>3. machine[n].failure <= failed[n] /\ machine[n].failure \in Nat /\ failed[n] \in Nat
    BY <1>1 DEF EvidenceInv, CountersHaveEvidence, Row
  <2>4. failed'[n] \in Nat
    BY DEF HistoryTypeOK
  <2> HIDE DEF row, v, m, f
  <2>5. CASE machine'[n] = machine[n]
    BY <1>3, <2>3, <2>4, <2>5
  <2>6. CASE n = m /\ machine'[n] = row
    BY <1>3, <2>2, <2>6
  <2> QED BY <1>1, <2>1, <2>5, <2>6
<1>5. \A d \in Callers : check'[d].failure <= failed'[check'[d].machine]
  <2> SUFFICES ASSUME NEW d \in Callers
               PROVE  check'[d].failure <= failed'[check'[d].machine]
    OBVIOUS
  <2>1. check' = [check EXCEPT ![c] = IdleCheck(m)]
    BY DEF CheckStore
  <2>2. check'[d] = IdleCheck(m) \/ check'[d] = check[d]
    BY <1>1, <2>1
  <2>3. /\ check[d].failure <= failed[check[d].machine] /\ check[d].machine \in Machines
        /\ check[d].failure \in Nat
    BY <1>1 DEF EvidenceInv, CountersHaveEvidence, Check
  <2>4. \A n \in Machines : failed[n] \in Nat /\ failed'[n] \in Nat
    BY DEF HistoryTypeOK, EvidenceInv
  <2>5. CASE check'[d] = check[d]
    BY <1>3, <2>3, <2>4, <2>5
  <2>6. CASE check'[d] = IdleCheck(m)
    BY <1>1, <2>4, <2>6 DEF IdleCheck
  <2> QED BY <2>2, <2>5, <2>6
<1>6. SpawnedHasEvidence'
  <2> SUFFICES ASSUME NEW n \in Machines, spawned'[n] > 0
               PROVE  failed'[n] = FailureThreshold
    BY DEF SpawnedHasEvidence
  <2>1. \/ spawned' = spawned
        \/ v.health = "suspect" /\ spawned' = [spawned EXCEPT ![m] = @ + 1]
    BY DEF CheckStore
  <2> HIDE DEF v, m
  <2>2. \/ n = m /\ v.health = "suspect"
        \/ spawned[n] > 0
    BY <1>1, <2>1
  <2>3. failed[n] \in Nat /\ failed'[n] \in 0..FailureThreshold
    BY DEF HistoryTypeOK, EvidenceInv
  <2>4. spawned[n] > 0 => failed[n] = FailureThreshold
    BY DEF EvidenceInv, SpawnedHasEvidence
  <2> QED BY <1>3, <2>2, <2>3, <2>4, ThresholdAssumption
<1> QED BY <1>4, <1>5, <1>6 DEF CountersHaveEvidence

(* Every other step leaves the evidence alone and raises no counter. *)
LEMMA QuietEvidence ==
  ASSUME EvidenceInv, HistoryTypeOK', UNCHANGED failed,
         \A m \in Machines : \/ machine'[m].failure = machine[m].failure
                            \/ machine'[m].failure = 0,
         \A c \in Callers : \/ check'[c].failure = 0
                           \/ /\ check'[c].machine = check[c].machine
                              /\ \/ check'[c].failure = check[c].failure
                                 \/ check'[c].failure = machine[check[c].machine].failure,
         \A m \in Machines : spawned'[m] > 0 => spawned[m] > 0
  PROVE  CountersHaveEvidence' /\ SpawnedHasEvidence'
<1>1. \A m \in Machines : failed[m] \in Nat /\ machine[m].failure <= failed[m]
  BY DEF EvidenceInv, CountersHaveEvidence, HistoryTypeOK
<1>2. \A c \in Callers : /\ check[c].machine \in Machines /\ check'[c].machine \in Machines
                         /\ check[c].failure <= failed[check[c].machine]
  BY DEF EvidenceInv, CountersHaveEvidence, HistoryTypeOK, HealthTypeOK, Check
<1>3. \A m \in Machines : machine'[m].failure <= failed'[m]
  BY <1>1
<1>4. \A c \in Callers : check'[c].failure <= failed'[check'[c].machine]
  BY <1>1, <1>2
<1>5. SpawnedHasEvidence'
  BY DEF EvidenceInv, SpawnedHasEvidence
<1> QED BY <1>3, <1>4, <1>5 DEF CountersHaveEvidence

(***************************************************************************)
(* The grounds.  A check that stores brings no more than what it held,     *)
(* which is in the grounds, or is added to them when it is late.           *)
(***************************************************************************)
LEMMA StoreGrounds ==
  ASSUME EvidenceInv, NEW c \in Callers, CheckStore(c), NoteCheck(c), HistoryTypeOK'
  PROVE  CountersHaveGrounds'
<1> DEFINE m == check[c].machine
           f == check[c].failure
           v == Verdict(check[c].score, f, check[c].success)
           before == IF Brought(c) > grounds[m] THEN Brought(c) ELSE grounds[m]
           row == [machine[m] EXCEPT !.health = v.health, !.failure = v.failure,
                                     !.success = v.success]
<1>1. /\ m \in Machines /\ check[c].score \in Scores
      /\ f \in 0..FailureThreshold /\ check[c].success \in 0..SuccessRecovery
      /\ machine \in [Machines -> Row] /\ check \in [Callers -> Check]
      /\ grounds \in [Machines -> 0..FailureThreshold]
      /\ grounds' \in [Machines -> 0..FailureThreshold]
  BY DEF EvidenceInv, HistoryTypeOK, HealthTypeOK, Check
<1>2. /\ v.failure \in 0..FailureThreshold
      /\ check[c].score = "high" => v.failure = OneMore(f)
      /\ check[c].score # "high" => v.failure <= f
  BY <1>1, VerdictType, VerdictEvidence
<1>3. /\ grounds' = IF check[c].pc = "loaded"
                    THEN [grounds EXCEPT ![m] = IF check[c].score = "high"
                                                THEN OneMore(before) ELSE before]
                    ELSE grounds
      /\ late' = late \ {c}
  BY DEF NoteCheck
<1>4. /\ \/ check[c].pc = "loaded" /\ machine' = [machine EXCEPT ![m] = row]
         \/ machine' = machine
      /\ check' = [check EXCEPT ![c] = IdleCheck(m)]
  BY DEF CheckStore
<1>5. row.failure = v.failure
  BY <1>1 DEF Row
<1>6. before \in 0..FailureThreshold /\ f <= before /\ grounds[m] <= before
  BY <1>1, ThresholdAssumption DEF Brought, EvidenceInv, CountersHaveGrounds
<1> HIDE DEF row, v, before
<1>7. \A n \in 0..FailureThreshold :
        /\ n <= OneMore(n) /\ OneMore(n) \in 0..FailureThreshold
        /\ \A k \in 0..n : OneMore(k) <= OneMore(n)
  BY ThresholdAssumption DEF OneMore, UpTo
<1>8. /\ \A n \in Machines : grounds[n] <= grounds'[n]
      /\ check[c].pc = "loaded" => v.failure <= grounds'[m]
  <2>1. CASE check[c].pc = "loaded"
    <3>1. /\ grounds'[m] = IF check[c].score = "high" THEN OneMore(before) ELSE before
          /\ \A n \in Machines : n # m => grounds'[n] = grounds[n]
      BY <1>1, <1>3, <2>1
    <3>2. v.failure <= grounds'[m]
      <4>1. CASE check[c].score = "high"
        <5>1. OneMore(f) <= OneMore(before)
          BY <1>1, <1>6, <1>7
        <5> QED BY <1>2, <3>1, <4>1, <5>1
      <4>2. CASE check[c].score # "high"
        <5> HIDE DEF f, m
        <5> QED BY <1>1, <1>2, <1>6, <3>1, <4>2
      <4> QED BY <4>1, <4>2
    <3>3. grounds[m] <= grounds'[m]
      <4>1. grounds[m] \in Nat /\ before \in Nat /\ OneMore(before) \in Nat
            /\ before <= OneMore(before)
        BY <1>1, <1>6, <1>7
      <4>2. grounds'[m] = before \/ grounds'[m] = OneMore(before)
        BY <3>1
      <4> HIDE DEF f, m
      <4> QED BY <1>6, <4>1, <4>2
    <3> QED BY <1>1, <3>1, <3>2, <3>3
  <2>2. CASE check[c].pc # "loaded"
    BY <1>1, <1>3, <2>2
  <2> QED BY <2>1, <2>2
<1>9. \A n \in Machines : /\ grounds[n] \in Nat /\ grounds'[n] \in Nat
                          /\ machine[n].failure \in Nat /\ machine[n].failure <= grounds[n]
  BY <1>1 DEF EvidenceInv, CountersHaveGrounds, Row
<1>10. ASSUME NEW n \in Machines PROVE machine'[n].failure <= grounds'[n]
  <2>1. CASE machine'[n] = machine[n]
    BY <1>8, <1>9, <2>1
  <2>2. CASE n = m /\ machine'[n] = row /\ check[c].pc = "loaded"
    BY <1>5, <1>8, <2>2
  <2> HIDE DEF m
  <2> QED BY <1>1, <1>4, <2>1, <2>2
<1>11. ASSUME NEW d \in Callers \ late'
       PROVE  check'[d].failure <= grounds'[check'[d].machine]
  <2>1. CASE d = c
    <3>1. check'[d].failure = 0 /\ check'[d].machine = m
      BY <1>1, <1>4, <2>1 DEF IdleCheck
    <3> QED BY <1>1, <1>9, <3>1
  <2>2. CASE d # c
    <3>1. d \notin late /\ check'[d] = check[d]
      BY <1>1, <1>3, <1>4, <2>2
    <3>2. check[d].failure \in Nat /\ check[d].machine \in Machines
          /\ check[d].failure <= grounds[check[d].machine]
      BY <1>1, <3>1 DEF EvidenceInv, CountersHaveGrounds, Check
    <3> QED BY <1>8, <1>9, <3>1, <3>2
  <2> QED BY <2>1, <2>2
<1> QED BY <1>10, <1>11 DEF CountersHaveGrounds

(* A step that ends no check and begins no count anew leaves the grounds alone. *)
LEMMA QuietGrounds ==
  ASSUME EvidenceInv, UNCHANGED <<grounds, late>>,
         \A m \in Machines : \/ machine'[m].failure = machine[m].failure
                            \/ machine'[m].failure = 0,
         \A c \in Callers : \/ check'[c].failure = 0 /\ check'[c].machine \in Machines
                           \/ /\ check'[c].machine = check[c].machine
                              /\ \/ check'[c].failure = check[c].failure
                                 \/ check'[c].failure = machine[check[c].machine].failure
  PROVE  CountersHaveGrounds'
<1>1. \A m \in Machines : grounds[m] \in Nat /\ machine[m].failure <= grounds[m]
  BY DEF EvidenceInv, CountersHaveGrounds, HistoryTypeOK
<1>2. \A c \in Callers \ late : /\ check[c].machine \in Machines
                                /\ check[c].failure <= grounds[check[c].machine]
  BY DEF EvidenceInv, CountersHaveGrounds, HistoryTypeOK, HealthTypeOK, Check
<1>3. \A m \in Machines : machine'[m].failure <= grounds'[m]
  BY <1>1
<1>4. \A c \in Callers \ late' : check'[c].failure <= grounds'[check'[c].machine]
  BY <1>1, <1>2
<1> QED BY <1>3, <1>4 DEF CountersHaveGrounds

(* The count of m begins at zero, and the checks that hold an older one are late. *)
LEMMA RenewalGrounds ==
  ASSUME EvidenceInv, NEW m \in Machines, NoteRenewal(m), UNCHANGED check,
         machine'[m].failure = 0, \A n \in Machines : n # m => machine'[n] = machine[n]
  PROVE  CountersHaveGrounds'
<1>1. /\ grounds' = [grounds EXCEPT ![m] = 0]
      /\ late' = late \union {c \in Callers : check[c].machine = m /\ check[c].failure > 0}
      /\ grounds \in [Machines -> 0..FailureThreshold]
  BY DEF NoteRenewal, EvidenceInv, HistoryTypeOK
<1>2. \A n \in Machines : machine'[n].failure <= grounds'[n]
  BY <1>1 DEF EvidenceInv, CountersHaveGrounds
<1>3. ASSUME NEW c \in Callers \ late'
      PROVE  check[c].failure <= grounds'[check[c].machine]
  <2>1. /\ check[c].machine \in Machines /\ check[c].failure \in Nat
        /\ check[c].failure <= grounds[check[c].machine]
        /\ check[c].machine = m => ~(check[c].failure > 0)
    BY <1>1, <1>3 DEF EvidenceInv, CountersHaveGrounds, HistoryTypeOK, HealthTypeOK, Check
  <2> QED BY <1>1, <2>1
<1> QED BY <1>2, <1>3 DEF CountersHaveGrounds

LEMMA EvidenceStep == EvidenceInv /\ [HistoryNext]_historyVars => EvidenceInv'
<1> SUFFICES ASSUME EvidenceInv, [HistoryNext]_historyVars PROVE EvidenceInv'
  OBVIOUS
<1>0. /\ machine \in [Machines -> Row] /\ check \in [Callers -> Check]
      /\ spawned \in [Machines -> 0..MaxSpawned]
      /\ \A c \in Callers : check[c].machine \in Machines
  BY DEF EvidenceInv, HistoryTypeOK, HealthTypeOK, Check
<1>1. HistoryTypeOK' /\ HealthMatchesCounters'
  BY HistoryTypeStep, MatchStep, HistoryStepIsHealthStep DEF EvidenceInv, HistoryTypeOK
<1> DEFINE Goal == CountersHaveEvidence /\ SpawnedHasEvidence /\ CountersHaveGrounds
<1> SUFFICES Goal'
  BY <1>1 DEF EvidenceInv
<1>2. ASSUME NEW c \in Callers, CheckStore(c), NoteCheck(c) PROVE Goal'
  BY <1>1, <1>2, StoreEvidence, StoreGrounds
<1>3. ASSUME NEW c \in Callers, NEW m \in Machines, NEW score \in Scores,
             CheckProbe(c, m, score) \/ CheckAbandon(c, m, score), Unnoted
      PROVE  Goal'
  <2>1. \A d \in Callers : \/ check'[d].failure = 0 /\ check'[d].machine \in Machines
                           \/ check'[d] = check[d]
    BY <1>0, <1>3 DEF CheckProbe, CheckAbandon
  <2>2. UNCHANGED <<machine, spawned, failed, grounds, late>>
    BY <1>3 DEF CheckProbe, CheckAbandon, Unnoted
  <2> QED BY <1>1, <2>1, <2>2, QuietEvidence, QuietGrounds
<1>4. ASSUME NEW c \in Callers, CheckLoad(c), Unnoted PROVE Goal'
  <2>1. \A d \in Callers :
          \/ check'[d].failure = 0 /\ check'[d].machine \in Machines
          \/ /\ check'[d].machine = check[d].machine
             /\ \/ check'[d].failure = check[d].failure
                \/ check'[d].failure = machine[check[d].machine].failure
    BY <1>0, <1>4 DEF CheckLoad, Check
  <2>2. UNCHANGED <<machine, spawned, failed, grounds, late>>
    BY <1>4 DEF CheckLoad, Unnoted
  <2> QED BY <1>1, <2>1, <2>2, QuietEvidence, QuietGrounds
<1>5. ASSUME NEW c \in Callers, CheckCancel(c), Unnoted PROVE Goal'
  <2>1. \A d \in Callers : check'[d].machine = check[d].machine
                          /\ check'[d].failure = check[d].failure
    BY <1>0, <1>5 DEF CheckCancel, Check
  <2>2. UNCHANGED <<machine, spawned, failed, grounds, late>>
    BY <1>5 DEF CheckCancel, Unnoted
  <2> QED BY <1>1, <2>1, <2>2, QuietEvidence, QuietGrounds
<1>6. ASSUME NEW m \in Machines, NoteRenewal(m), UNCHANGED <<check, spawned>>,
             machine'[m].failure = 0, \A n \in Machines : n # m => machine'[n] = machine[n]
      PROVE  Goal'
  <2>1. UNCHANGED failed
    BY <1>6 DEF NoteRenewal
  <2>2. CountersHaveEvidence' /\ SpawnedHasEvidence'
    BY <1>1, <1>6, <2>1, QuietEvidence
  <2> QED BY <1>6, <2>2, RenewalGrounds
<1>7. ASSUME NEW m \in Machines, RunSpawned(m), Unnoted PROVE Goal'
  <2>1. \A n \in Machines : spawned'[n] > 0 => spawned[n] > 0
    BY <1>0, <1>7 DEF RunSpawned
  <2>2. UNCHANGED <<machine, check, failed, grounds, late>>
    BY <1>7 DEF RunSpawned, Unnoted
  <2> QED BY <1>1, <2>1, <2>2, QuietEvidence, QuietGrounds
<1>8. ASSUME NEW m \in Machines, ResetCounters(m) \/ DeleteMachine(m), NoteRenewal(m)
      PROVE  Goal'
  <2>1. machine'[m].failure = 0 /\ \A n \in Machines : n # m => machine'[n] = machine[n]
    <3>1. CASE ResetCounters(m)
      <4>1. Recorded(machine[m], machine[m].ip, machine[m].cooldown).failure = 0
        BY <1>0 DEF Recorded, Row
      <4>2. machine' = [machine EXCEPT ![m] = Recorded(machine[m], machine[m].ip,
                                                       machine[m].cooldown)]
        BY <3>1 DEF ResetCounters
      <4> QED BY <1>0, <4>1, <4>2
    <3>2. CASE DeleteMachine(m)
      <4>1. NoRow.failure = 0
        BY DEF NoRow, NewRow
      <4> QED BY <1>0, <3>2, <4>1 DEF DeleteMachine
    <3> QED BY <1>8, <3>1, <3>2
  <2>2. UNCHANGED <<check, spawned>>
    BY <1>8 DEF ResetCounters, DeleteMachine
  <2> QED BY <1>6, <1>8, <2>1, <2>2
<1>9. ASSUME NEW m \in Machines, NEW auto \in BOOLEAN, CreateMachine(m, auto), NoteRenewal(m)
      PROVE  Goal'
  <2>1. machine'[m].failure = 0 /\ \A n \in Machines : n # m => machine'[n] = machine[n]
    BY <1>0, <1>9 DEF CreateMachine, NewRow
  <2> QED BY <1>6, <1>9, <2>1 DEF CreateMachine
<1>10. CASE UNCHANGED historyVars
  BY <1>0, <1>1, <1>10, QuietEvidence, QuietGrounds DEF historyVars
<1> QED BY <1>2, <1>3, <1>4, <1>5, <1>7, <1>8, <1>9, <1>10 DEF HistoryNext

LEMMA EvidenceImplies == EvidenceInv => EvidenceBeforeSuspect
<1> SUFFICES ASSUME EvidenceInv, NEW m \in Machines,
                    machine[m].health = "suspect" \/ spawned[m] > 0
             PROVE  /\ machine[m].health = "suspect" => grounds[m] = FailureThreshold
                    /\ failed[m] = FailureThreshold
  BY DEF EvidenceBeforeSuspect
<1>1. /\ failed[m] \in 0..FailureThreshold /\ machine[m].failure <= failed[m]
      /\ grounds[m] \in 0..FailureThreshold /\ machine[m].failure <= grounds[m]
  BY DEF EvidenceInv, CountersHaveEvidence, CountersHaveGrounds, HistoryTypeOK
<1>2. machine[m].health = "suspect" => machine[m].failure = FailureThreshold
  BY DEF EvidenceInv, HealthMatchesCounters, RowAgrees
<1> QED BY <1>1, <1>2, ThresholdAssumption DEF EvidenceInv, SpawnedHasEvidence

LEMMA EvidenceInit == HistoryInit => EvidenceInv
<1> SUFFICES ASSUME HistoryInit PROVE EvidenceInv
  OBVIOUS
<1>1. HistoryTypeOK
  BY HealthTypeInit, ThresholdAssumption DEF HistoryInit, HistoryTypeOK
<1>2. HealthMatchesCounters
  BY MatchInit DEF HistoryInit
<1>3. \A m \in Machines : machine[m].failure = 0 /\ failed[m] = 0 /\ grounds[m] = 0
  <2>1. NoRow.failure = 0
    BY DEF NoRow, NewRow
  <2> QED BY <2>1 DEF HistoryInit, HealthInit
<1>4. \A c \in Callers : check[c].failure = 0 /\ check[c].machine \in Machines
  <2> SUFFICES ASSUME NEW c \in Callers
               PROVE  check[c].failure = 0 /\ check[c].machine \in Machines
    OBVIOUS
  <2>1. PICK m \in Machines : check[c] = IdleCheck(m)
    BY DEF HistoryInit, HealthInit
  <2> QED BY <2>1 DEF IdleCheck
<1>5. SpawnedHasEvidence
  BY DEF HistoryInit, HealthInit, SpawnedHasEvidence
<1>6. CountersHaveEvidence /\ CountersHaveGrounds
  BY <1>3, <1>4 DEF CountersHaveEvidence, CountersHaveGrounds
<1> QED BY <1>1, <1>2, <1>5, <1>6 DEF EvidenceInv

(***************************************************************************)
(* No false alarm: FailureThreshold failing checks come before a machine   *)
(* is shown as suspect and before an automatic rotation is started for it, *)
(* however its checks overlap, are cancelled, or meet resets.              *)
(***************************************************************************)
THEOREM EvidenceCorrect == HistorySpec => []EvidenceBeforeSuspect
  BY EvidenceInit, EvidenceStep, EvidenceImplies, PTL DEF HistorySpec

-----------------------------------------------------------------------------
(* Checks driven by the state of the links. *)

LinkOK == link \in [Machines -> Links]

LEMMA LinkStep ==
  ASSUME LinkOK, [LinkNext]_linkVars
  PROVE  LinkOK' /\ [HistoryNext]_historyVars
<1>1. ASSUME NEW c \in Callers, NEW m \in Machines, ProbeLink(c, m) \/ AbandonLink(c, m)
      PROVE  LinkOK' /\ HistoryNext
  <2>1. PICK score \in Scores : (CheckProbe(c, m, score) \/ CheckAbandon(c, m, score)) /\ Silent
    BY <1>1 DEF ProbeLink, AbandonLink, LinkOK, Links, ScoresOver, Scores
  <2> QED BY <2>1 DEF LinkOK, Silent, HistoryNext
<1>2. ASSUME NEW c \in Callers, (CheckLoad(c) \/ CheckCancel(c)) /\ Silent
      PROVE  LinkOK' /\ HistoryNext
  BY <1>2 DEF LinkOK, Silent, HistoryNext
<1>3. ASSUME NEW c \in Callers, StoreNoted(c) PROVE LinkOK' /\ HistoryNext
  BY <1>3 DEF StoreNoted, LinkOK, HistoryNext
<1>4. ASSUME NEW m \in Machines,
             \/ RunSpawned(m) /\ Silent
             \/ (ResetCounters(m) \/ DeleteMachine(m)) /\ NoteRenewal(m) /\ UNCHANGED link
             \/ \E auto \in BOOLEAN : CreateMachine(m, auto) /\ NoteRenewal(m) /\ UNCHANGED link
      PROVE  LinkOK' /\ HistoryNext
  BY <1>4 DEF LinkOK, Silent, HistoryNext
<1>5. ASSUME NEW m \in Machines, NEW l \in Links, ChangeLink(m, l)
      PROVE  LinkOK' /\ UNCHANGED historyVars
  BY <1>5 DEF ChangeLink, LinkOK
<1>6. ASSUME UNCHANGED linkVars PROVE LinkOK' /\ UNCHANGED historyVars
  BY <1>6 DEF linkVars, historyVars, LinkOK
<1> QED BY <1>1, <1>2, <1>3, <1>4, <1>5, <1>6 DEF LinkNext

LEMMA LinkIsHistory == LinkSpec => HistorySpec
<1>1. LinkInit => LinkOK /\ HistoryInit
  BY DEF LinkInit, LinkOK, Links
<1> QED BY <1>1, LinkStep, PTL DEF LinkSpec, HistorySpec

(* What holds of every history of checks holds of those the links drive. *)
THEOREM ReachabilityCorrect ==
  LinkSpec => [](HistoryTypeOK /\ HealthMatchesCounters /\ EvidenceBeforeSuspect)
<1>1. HistorySpec => HealthSpec
  <2>1. HistoryInit => HealthInit
    BY DEF HistoryInit
  <2> QED BY <2>1, HistoryStepIsHealthStep, PTL DEF HistorySpec, HealthSpec
<1> QED BY <1>1, LinkIsHistory, HistoryTypeCorrect, MatchCorrect, EvidenceCorrect, PTL

-----------------------------------------------------------------------------
(* The counts over a link that stays as it is. *)

(* The row after a check of it is stored. *)
LEMMA StoredCounts ==
  ASSUME HealthTypeOK, NEW m \in Machines, NEW l \in {"up", "down"}, Steady(m, l),
         NEW c \in Loaded(m), CheckStore(c)
  PROVE  /\ Held(c, l) \in 0..Threshold(l)
         /\ Stored(m, l)' = UpTo(Threshold(l), Held(c, l) + 1)
         /\ Held(c, l) + 1 >= Threshold(l) => machine'[m].health = Shown(l)
<1> DEFINE v == Verdict(check[c].score, check[c].failure, check[c].success)
<1>1. /\ c \in Callers /\ check[c].machine = m /\ check[c].pc = "loaded"
      /\ check[c].score = Telling(l) /\ machine[m].exists
      /\ check[c].failure \in 0..FailureThreshold /\ check[c].success \in 0..SuccessRecovery
  BY DEF Loaded, Checks, Steady, HealthTypeOK, Check
<1>2. machine' = [machine EXCEPT ![m].health = v.health, ![m].failure = v.failure,
                                 ![m].success = v.success]
  BY <1>1 DEF CheckStore
<1>3. machine \in [Machines -> Row] /\ machine[m] \in Row
  BY DEF HealthTypeOK
<1> HIDE DEF v
<1>4. /\ machine'[m].health = v.health /\ machine'[m].failure = v.failure
      /\ machine'[m].success = v.success
  BY <1>2, <1>3 DEF Row
<1>5. CASE l = "down"
  <2>1. v = AfterFailure(check[c].failure)
    BY <1>1, <1>5 DEF Telling, Verdict, v
  <2>2. /\ v.failure = UpTo(FailureThreshold, check[c].failure + 1)
        /\ check[c].failure + 1 >= FailureThreshold => v.health = "suspect"
    BY <2>1 DEF AfterFailure
  <2> QED BY <1>1, <1>4, <1>5, <2>2 DEF Stored, Held, Threshold, Shown
<1>6. CASE l = "up"
  <2>1. v = AfterSuccess(check[c].failure, check[c].success)
    BY <1>1, <1>6 DEF Telling, Verdict, v
  <2>2. /\ v.success = UpTo(SuccessRecovery, check[c].success + 1)
        /\ check[c].success + 1 >= SuccessRecovery => v.health = "healthy"
    BY <2>1 DEF AfterSuccess
  <2> QED BY <1>1, <1>4, <1>6, <2>2 DEF Stored, Held, Threshold, Shown
<1> QED BY <1>5, <1>6

(* What a step does to the counts and the checks of m. *)
Evolves(m, l) ==
  /\ \A c \in Checks(m)' : check'[c].score = Telling(l)
  /\ \A c \in Loaded(m)' : \/ c \in Loaded(m) /\ Held(c, l)' = Held(c, l)
                           \/ Held(c, l)' = Stored(m, l)
  /\ \/ machine'[m] = machine[m]
     \/ \E c \in Loaded(m) : CheckStore(c)

LEMMA EvolvesStep ==
  ASSUME HealthTypeOK, LinkOK, [LinkNext]_linkVars,
         NEW m \in Machines, NEW l \in {"up", "down"}, Steady(m, l),
         machine'[m].exists, link'[m] = l, ~ResetCounters(m)
  PROVE  Evolves(m, l)
<1>0. machine \in [Machines -> Row] /\ check \in [Callers -> Check]
  BY DEF HealthTypeOK
<1>1. (UNCHANGED check /\ machine'[m] = machine[m]) => Evolves(m, l)
  BY DEF Evolves, Checks, Loaded, Held, Steady
<1>2. ASSUME NEW c \in Callers, \A d \in Callers : d # c => check'[d] = check[d],
             \/ machine'[m] = machine[m]
             \/ \E d \in Loaded(m) : CheckStore(d),
             c \in Checks(m)' => check'[c].score = Telling(l),
             c \in Loaded(m)' => Held(c, l)' = Stored(m, l)
      PROVE  Evolves(m, l)
  BY <1>2 DEF Evolves, Checks, Loaded, Held, Steady
<1>3. ASSUME NEW c \in Callers, NEW n \in Machines, ProbeLink(c, n) PROVE Evolves(m, l)
  <2>1. PICK score \in ScoresOver(link[n]) : CheckProbe(c, n, score)
    BY <1>3 DEF ProbeLink
  <2>2. n = m => score = Telling(l)
    BY <2>1 DEF Steady, ScoresOver, Telling
  <2>3. /\ check'[c] = [pc |-> "probed", machine |-> n, score |-> score,
                        failure |-> 0, success |-> 0]
        /\ \A d \in Callers : d # c => check'[d] = check[d]
        /\ machine' = machine
    BY <1>0, <2>1 DEF CheckProbe
  <2>4. check'[c].pc = "probed" /\ check'[c].machine = n /\ check'[c].score = score
    BY <2>3
  <2> QED BY <1>2, <2>2, <2>3, <2>4 DEF Checks, Loaded
<1>10. ASSUME NEW c \in Callers, NEW n \in Machines, AbandonLink(c, n) PROVE Evolves(m, l)
  <2>1. /\ check'[c].pc = "cancelled" /\ machine' = machine
        /\ \A d \in Callers : d # c => check'[d] = check[d]
    BY <1>0, <1>10 DEF AbandonLink, CheckAbandon
  <2> QED BY <1>2, <2>1 DEF Checks, Loaded
<1>4. ASSUME NEW c \in Callers, CheckLoad(c) PROVE Evolves(m, l)
  <2> DEFINE row == machine[check[c].machine]
             f == IF row.exists THEN row.failure ELSE 0
             s == IF row.exists THEN row.success ELSE 0
  <2>1. /\ check' = [check EXCEPT ![c].pc = "loaded", ![c].failure = f, ![c].success = s]
        /\ check[c].pc = "probed" /\ machine' = machine
    BY <1>4 DEF CheckLoad
  <2>2. check[c].machine = m => f = machine[m].failure /\ s = machine[m].success
    BY DEF Steady
  <2> HIDE DEF f, s
  <2>3. /\ check'[c].machine = check[c].machine /\ check'[c].score = check[c].score
        /\ check'[c].failure = f /\ check'[c].success = s
        /\ \A d \in Callers : d # c => check'[d] = check[d]
    BY <1>0, <2>1 DEF Check
  <2>4. c \in Checks(m)' => check'[c].score = Telling(l)
    BY <2>1, <2>3 DEF Checks, Steady
  <2>5. c \in Loaded(m)' => Held(c, l)' = Stored(m, l)
    BY <2>2, <2>3 DEF Loaded, Checks, Held, Stored
  <2> QED BY <1>2, <2>1, <2>3, <2>4, <2>5
<1>5. ASSUME NEW c \in Callers, CheckCancel(c) PROVE Evolves(m, l)
  <2>1. /\ check'[c].machine = check[c].machine /\ check'[c].score = check[c].score
        /\ check'[c].pc = "cancelled" /\ machine' = machine
        /\ \A d \in Callers : d # c => check'[d] = check[d]
    BY <1>0, <1>5 DEF CheckCancel, Check
  <2> QED BY <1>2, <2>1 DEF Checks, Loaded, Steady
<1>6. ASSUME NEW c \in Callers, CheckStore(c) PROVE Evolves(m, l)
  <2>1. check'[c].pc = "idle" /\ \A d \in Callers : d # c => check'[d] = check[d]
    BY <1>0, <1>6 DEF CheckStore, IdleCheck
  <2>2. c \notin Loaded(m) => machine'[m] = machine[m]
    BY <1>0, <1>6 DEF CheckStore, Loaded, Checks
  <2> QED BY <1>2, <1>6, <2>1, <2>2 DEF Checks, Loaded
<1>7. ASSUME NEW n \in Machines,
             \/ ResetCounters(n) \/ RunSpawned(n) \/ DeleteMachine(n)
             \/ \E auto \in BOOLEAN : CreateMachine(n, auto)
      PROVE  UNCHANGED check /\ machine'[m] = machine[m]
  <2>1. ~DeleteMachine(m)
    BY <1>0 DEF DeleteMachine, NoRow, NewRow
  <2>2. \A auto \in BOOLEAN : ~CreateMachine(m, auto)
    BY DEF CreateMachine, Steady
  <2>3. CASE n = m
    BY <1>7, <2>1, <2>2, <2>3 DEF RunSpawned
  <2>4. CASE n # m
    BY <1>0, <1>7, <2>4 DEF ResetCounters, RunSpawned, DeleteMachine, CreateMachine
  <2> QED BY <2>3, <2>4
<1>8. ASSUME NEW n \in Machines, NEW k \in Links, ChangeLink(n, k)
      PROVE  UNCHANGED check /\ machine'[m] = machine[m]
  BY <1>8 DEF ChangeLink, historyVars
<1>9. ASSUME UNCHANGED linkVars PROVE UNCHANGED check /\ machine'[m] = machine[m]
  BY <1>9 DEF linkVars
<1> QED
  BY <1>1, <1>3, <1>4, <1>5, <1>6, <1>7, <1>8, <1>9, <1>10 DEF LinkNext, StoreNoted

(* The counts, in numbers. *)
LEMMA CountsStep ==
  ASSUME HealthTypeOK, NEW m \in Machines, NEW l \in {"up", "down"},
         Steady(m, l), machine'[m].exists, link'[m] = l, Evolves(m, l)
  PROVE  /\ NothingFallsBack(m, l)
         /\ \A c \in Loaded(m) : CheckStore(c) => StoreAdvances(m, l, c)
<1> DEFINE T == Threshold(l)
<1>0. /\ T \in Nat \ {0} /\ Stored(m, l) \in 0..T
      /\ \A c \in Loaded(m) : Held(c, l) \in 0..T
  BY ThresholdAssumption DEF HealthTypeOK, Row, Check, Threshold, Stored, Held, Loaded, Checks
<1>1. \A c \in Loaded(m)' : \/ c \in Loaded(m) /\ Held(c, l)' = Held(c, l)
                            \/ Held(c, l)' = Stored(m, l)
  BY DEF Evolves
<1>2. \A c \in Loaded(m) : CheckStore(c) =>
        /\ Stored(m, l)' = UpTo(T, Held(c, l) + 1)
        /\ Held(c, l) + 1 >= T => machine'[m].health = Shown(l)
  BY StoredCounts
<1>3. \/ Stored(m, l)' = Stored(m, l) /\ machine'[m].health = machine[m].health
      \/ \E c \in Loaded(m) : CheckStore(c)
  BY DEF Evolves, Stored
<1> HIDE DEF T
<1>4. ASSUME NEW n \in 0..T, AtLeast(m, l, n)
      PROVE  /\ AtLeast(m, l, n)'
             /\ Ahead(m, l, n) => Ahead(m, l, n)' /\ Lagging(m, l, n)' \subseteq Lagging(m, l, n)
             /\ \A c \in Loaded(m) : CheckStore(c) /\ n < T => Ahead(m, l, n)'
             /\ \A c \in Loaded(m) : CheckStore(c) /\ n = T => machine'[m].health = Shown(l)
  <2>1. Stored(m, l) >= n /\ \A c \in Loaded(m) : Held(c, l) >= n
    BY <1>4 DEF AtLeast
  <2>2. \A c \in Loaded(m)' : Held(c, l)' >= n
    BY <1>1, <2>1
  <2>3. ASSUME NEW c \in Loaded(m), CheckStore(c)
        PROVE  /\ Stored(m, l)' >= n
               /\ n < T => Stored(m, l)' > n
               /\ n = T => machine'[m].health = Shown(l)
    <3>1. Stored(m, l)' = UpTo(T, Held(c, l) + 1) /\ Held(c, l) \in 0..T /\ Held(c, l) >= n
      BY <1>0, <1>2, <2>1, <2>3
    <3>2. UpTo(T, Held(c, l) + 1) >= n /\ (n < T => UpTo(T, Held(c, l) + 1) > n)
      BY <1>0, <3>1 DEF UpTo
    <3>3. n = T => Held(c, l) + 1 >= T
      BY <1>0, <3>1
    <3> QED BY <1>2, <2>3, <3>1, <3>2, <3>3
  <2>4. Stored(m, l)' >= n
    BY <1>3, <2>1, <2>3
  <2>5. AtLeast(m, l, n)'
    BY <2>2, <2>4 DEF AtLeast
  <2>6. ASSUME Stored(m, l) > n
        PROVE  Stored(m, l)' > n /\ Lagging(m, l, n)' \subseteq Lagging(m, l, n)
    <3>1. n < T
      BY <1>0, <2>6
    <3>2. Stored(m, l)' > n
      BY <1>3, <2>3, <2>6, <3>1
    <3>3. \A c \in Loaded(m)' : Held(c, l)' <= n => c \in Loaded(m) /\ Held(c, l) <= n
      BY <1>0, <1>1, <2>6
    <3> QED BY <3>2, <3>3 DEF Lagging
  <2> QED BY <2>3, <2>5, <2>6 DEF Ahead
<1>5. Steady(m, l)'
  BY DEF Steady, Evolves
<1>6. T \in 0..T
  BY <1>0
<1>7. Seen(m, l) => Seen(m, l)'
  BY <1>3, <1>4, <1>6 DEF Seen, T
<1>8. NothingFallsBack(m, l)
  BY <1>4, <1>5, <1>7 DEF NothingFallsBack, Ahead, T
<1>9. ASSUME NEW c \in Loaded(m), CheckStore(c) PROVE StoreAdvances(m, l, c)
  <2>1. ASSUME NEW n \in 0..T, AtLeast(m, l, n)
        PROVE  IF n < T THEN Ahead(m, l, n)' ELSE Seen(m, l)'
    <3>1. CASE n < T
      BY <1>4, <1>9, <2>1, <3>1
    <3>2. CASE n = T
      BY <1>4, <1>9, <2>1, <3>2 DEF Seen, T
    <3> QED BY <1>0, <3>1, <3>2
  <2> QED BY <2>1 DEF StoreAdvances, T
<1> QED BY <1>8, <1>9

(***************************************************************************)
(* Over a link that stays as it is no overlap of checks takes a machine    *)
(* back: the smallest of its counts never falls, and every check that      *)
(* stores passes it, for any thresholds and any number of callers.  This   *)
(* is what DownIsDetected and RecoveryIsSeen rest on beside the fairness.  *)
(***************************************************************************)
THEOREM CountsCorrect == LinkSpec => CountsFollowLink
<1>1. LinkInit => LinkOK
  BY DEF LinkInit, LinkOK, Links
<1>2. HistoryTypeOK /\ LinkOK /\ [LinkNext]_linkVars =>
        [\A m \in Machines, l \in {"up", "down"} :
           Steady(m, l) /\ machine'[m].exists /\ link'[m] = l /\ ~ResetCounters(m) =>
             /\ NothingFallsBack(m, l)
             /\ \A c \in Loaded(m) : CheckStore(c) => StoreAdvances(m, l, c)]_linkVars
  BY EvolvesStep, CountsStep DEF HistoryTypeOK
<1>3. LinkOK /\ [LinkNext]_linkVars => LinkOK'
  BY LinkStep
<1> QED
  BY <1>1, <1>2, <1>3, LinkIsHistory, HistoryTypeCorrect, PTL DEF LinkSpec, CountsFollowLink
=============================================================================
