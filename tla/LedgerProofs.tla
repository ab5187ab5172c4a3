---------------------------- MODULE LedgerProofs ----------------------------
(***************************************************************************)
(* Theorems about the rotations table of module Rotation: who writes a row *)
(* (RowsAreOwned), that it is the ledger of module RotationLedger and its  *)
(* books balance, that the limit counted from it holds (DailyLimit), and   *)
(* that completed rotations were carried out (CompletedWereCarriedOut).    *)
(***************************************************************************)
EXTENDS RotationProofs, FiniteSetTheorems

-----------------------------------------------------------------------------
(* Where a rotation in progress comes from. *)

(* A job that a step changes, and does not begin, has made the step itself. *)
LEMMA OwnStep ==
  ASSUME RotationTypeOK, [Next]_vars, NEW j \in Jobs,
         job'[j] # job[j], job'[j].pc \notin {"idle", "load"}
  PROVE  Live(j) /\ (JobStep(j) \/ CancelRequest(j))
<1>0. job \in [Jobs -> Job]
  BY DEF RotationTypeOK
<1>1. ASSUME NEW i \in Jobs, NEW m \in Machines, NEW auto \in BOOLEAN, Enter(i, m, auto)
      PROVE  FALSE
  BY <1>0, <1>1 DEF Enter, IdleJob
<1>2. ASSUME NEW i \in Jobs, Moves(i) \/ Returns(i) PROVE Live(j)
  BY <1>0, <1>2 DEF Moves, Returns, Return
<1>3. ~Crashes
  BY <1>0 DEF Crashes, IdleJob
<1>4. Live(j)
  BY <1>1, <1>2, <1>3, NextClass
<1>5. ~Crash
  BY <1>3 DEF Crash, Crashes
<1> QED BY <1>4, <1>5, WhoMoves

(* A cancelled request leaves everything else of its job as it was. *)
LEMMA CancelKeeps ==
  ASSUME RotationTypeOK, NEW j \in Jobs, CancelRequest(j)
  PROVE  /\ job'[j].pc = job[j].pc /\ job'[j].machine = job[j].machine
         /\ job'[j].auto = job[j].auto /\ job'[j].old = job[j].old
         /\ job'[j].row = job[j].row
  BY DEF CancelRequest, RotationTypeOK, Job

(* j keeps the row it had in the history. *)
Keeps(j) ==
  /\ InHistory(j)
  /\ job'[j].machine = job[j].machine /\ job'[j].auto = job[j].auto
  /\ job'[j].old = job[j].old /\ job'[j].row = job[j].row
  /\ job'[j].pc = "change" => job[j].pc = "change"

(* j gets its row. *)
Enrols(j) ==
  /\ job[j].pc = "insert" /\ Moves(j) /\ Inserts(j)
  /\ job'[j].machine = job[j].machine /\ job'[j].auto = job[j].auto
  /\ job'[j].old = job[j].old /\ job'[j].row = Len(rotations) + 1
  /\ UNCHANGED <<now, panel>>

LEMMA GoKeeps ==
  ASSUME RotationTypeOK, NEW j \in Jobs, NEW pc \in PCs \ {"change"}, InHistory(j), Go(j, pc)
  PROVE  Keeps(j)
  BY DEF Go, RotationTypeOK, Job, Keeps

LEMMA HistoryStep ==
  ASSUME RotationTypeOK, NEW j \in Jobs, JobStep(j), InHistory(j)'
  PROVE  Keeps(j) \/ Enrols(j)
<1>0. job \in [Jobs -> Job] /\ job[j] \in Job
  BY DEF RotationTypeOK
<1>1. ~Return(j)
  BY <1>0 DEF Return, IdleJob, InHistory
<1>2. ~FailRotation(j)
  BY <1>1 DEF FailRotation
<1>3. {"limit", "confirm", "confirming", "list", "insert", "poll", "post", "posting",
       "finish"} \subseteq PCs \ {"change"}
  BY DEF PCs
<1>4. \A pc \in PCs : Go(j, pc) => job'[j].pc = pc
  BY <1>0 DEF Go, Job
<1>5. CASE LoadMachine(j)
  <2>1. job'[j].pc \in {"limit", "list"}
    <3>1. [job[j] EXCEPT !.pc = IF job[j].auto THEN "limit" ELSE "list",
                         !.old = machine[job[j].machine].ip].pc \in {"limit", "list"}
      BY <1>0 DEF Job
    <3> QED BY <1>0, <1>1, <1>5, <3>1 DEF LoadMachine
  <2> QED BY <2>1 DEF InHistory
<1>6. CASE CountLimit(j)
  BY <1>1, <1>3, <1>4, <1>6 DEF CountLimit, InHistory
<1>7. ASSUME NEW score \in Scores, Confirm(j, score) PROVE FALSE
  BY <1>1, <1>3, <1>4, <1>7 DEF Confirm, InHistory
<1>8. ASSUME NEW score \in Scores, PostCheck(j, score) PROVE Keeps(j)
  BY <1>3, <1>8, GoKeeps DEF PostCheck, InHistory
<1>9. CASE JobCheckLoad(j)
  BY <1>9 DEF JobCheckLoad, rotationVars, Keeps, InHistory
<1>10. CASE JobCheckStore(j)
  <2>1. Go(j, "list") => FALSE
    BY <1>3, <1>4 DEF InHistory
  <2> QED BY <1>1, <1>3, <1>10, <2>1, GoKeeps DEF JobCheckStore, InHistory
<1>11. CASE ListOld(j)
  <2>1. job'[j].pc = "insert"
    <3>1. [job[j] EXCEPT !.pc = "insert", !.old = panel[job[j].machine].ip].pc = "insert"
      BY <1>0 DEF Job
    <3> QED BY <1>0, <1>1, <1>3, <1>4, <1>11, <3>1 DEF ListOld
  <2> QED BY <2>1 DEF InHistory
<1>12. CASE InsertRow(j)
  <2>1. job[j].pc = "insert" /\ Inserts(j) /\ UNCHANGED <<now, panel>>
    BY <1>1, <1>12 DEF InsertRow, Inserts
  <2>2. job' = [job EXCEPT ![j].pc = "change", ![j].row = Len(rotations) + 1]
    BY <1>1, <1>12 DEF InsertRow
  <2>3. /\ job'[j].machine = job[j].machine /\ job'[j].auto = job[j].auto
        /\ job'[j].old = job[j].old /\ job'[j].row = Len(rotations) + 1
    BY <1>0, <2>2 DEF Job
  <2>4. Moves(j)
    <3>1. ~Returns(j)
      BY <1>1 DEF Returns
    <3>2. job'[j].pc # job[j].pc
      BY <1>0, <2>1, <2>2 DEF Job
    <3> QED BY <1>12, <3>1, <3>2, JobStepClass DEF JobStep
  <2> QED BY <2>1, <2>3, <2>4 DEF Enrols
<1>13. CASE AskChange(j)
  BY <1>2, <1>3, <1>13, GoKeeps DEF AskChange, InHistory
<1>14. CASE Poll(j)
  <2>1. InHistory(j)
    BY <1>14 DEF Poll, InHistory
  <2>2. job' = [job EXCEPT ![j].pc = "record", ![j].new = panel[job[j].machine].ip]
    BY <1>2, <1>14 DEF Poll
  <2> QED BY <1>0, <2>1, <2>2 DEF Keeps, Job
<1>15. CASE RecordAddress(j)
  BY <1>3, <1>15, GoKeeps DEF RecordAddress, InHistory
<1>16. ~FinishRotation(j)
  BY <1>1 DEF FinishRotation
<1> QED
  BY <1>5, <1>6, <1>7, <1>8, <1>9, <1>10, <1>11, <1>12, <1>13, <1>14, <1>15, <1>16
  DEF JobStep

LEMMA HistoryBefore ==
  ASSUME RotationTypeOK, [Next]_vars, NEW j \in Jobs, InHistory(j)'
  PROVE  Keeps(j) \/ Enrols(j)
<1>1. CASE job'[j] = job[j]
  BY <1>1 DEF Keeps, InHistory
<1>2. CASE JobStep(j)
  BY <1>2, HistoryStep
<1>3. CASE CancelRequest(j)
  BY <1>3, CancelKeeps DEF Keeps, InHistory
<1>4. CASE job'[j] # job[j]
  BY <1>2, <1>3, <1>4, OwnStep DEF InHistory
<1> QED BY <1>1, <1>4

-----------------------------------------------------------------------------
(* The table: what a step leaves of its rows. *)

(* The row a rotation in progress must find. *)
OwnRow(j) == [machine |-> job[j].machine, auto |-> job[j].auto, old |-> job[j].old,
              new |-> NoIP, status |-> "running", started |-> rotations[job[j].row].started]

LEMMA InsertKeeps ==
  ASSUME RotationTypeOK, NEW j \in Jobs, Inserts(j)
  PROVE  /\ DOMAIN rotations = 1..Len(rotations) /\ Len(rotations) \in Nat
         /\ DOMAIN rotations' = DOMAIN rotations \union {Len(rotations) + 1}
         /\ \A i \in DOMAIN rotations : rotations'[i] = rotations[i]
         /\ rotations'[Len(rotations) + 1] =
              [machine |-> job[j].machine, auto |-> job[j].auto, old |-> job[j].old,
               new |-> NoIP, status |-> "running", started |-> now]
<1>1. /\ DOMAIN rotations = 1..Len(rotations) /\ Len(rotations) \in Nat
      /\ DOMAIN rotations' = 1..(Len(rotations) + 1)
  BY DEF RotationTypeOK, Inserts
<1>2. 1..(Len(rotations) + 1) = 1..Len(rotations) \union {Len(rotations) + 1}
  BY <1>1
<1> QED BY <1>1, <1>2 DEF RotationTypeOK, Inserts

(* The same row, column by column. *)
LEMMA InsertedRow ==
  ASSUME RotationTypeOK, NEW j \in Jobs, Inserts(j)
  PROVE  LET row == rotations'[Len(rotations) + 1]
         IN  row.status = "running" /\ row.started = now
<1> DEFINE row == [machine |-> job[j].machine, auto |-> job[j].auto, old |-> job[j].old,
                   new |-> NoIP, status |-> "running", started |-> now]
<1>1. row.status = "running" /\ row.started = now
  OBVIOUS
<1>2. rotations'[Len(rotations) + 1] = row
  BY InsertKeeps
<1> HIDE DEF row
<1> QED BY <1>1, <1>2

LEMMA RowTypes ==
  ASSUME RotationTypeOK, NEW i \in DOMAIN rotations
  PROVE  rotations[i] \in RotationRow /\ rotations[i].started \in Nat
<1>1. rotations[i] \in RotationRow
  BY DEF RotationTypeOK
<1> QED BY <1>1 DEF RotationRow

LEMMA CloseKeeps ==
  ASSUME RotationTypeOK, NEW j \in Jobs, Closes(j)
  PROVE  /\ DOMAIN rotations' = DOMAIN rotations
         /\ \A i \in DOMAIN rotations :
              /\ rotations'[i].machine = rotations[i].machine
              /\ rotations'[i].auto = rotations[i].auto
              /\ rotations'[i].started = rotations[i].started
              /\ i # job[j].row => rotations'[i] = rotations[i]
<1>0. rotations \in Seq(RotationRow)
  BY DEF RotationTypeOK
<1>1. CASE rotations' = [rotations EXCEPT ![job[j].row].status = "failed"]
  BY <1>0, <1>1 DEF RotationRow
<1>2. CASE rotations' = [rotations EXCEPT ![job[j].row].status = "completed",
                                          ![job[j].row].new = job[j].new]
  BY <1>0, <1>2 DEF RotationRow
<1> QED BY <1>1, <1>2 DEF Closes

(* A job that keeps its row does not return, so no other closes it either. *)
LEMMA KeptRow ==
  ASSUME RotationTypeOK, RowsAreOwned, [Next]_vars, NEW j \in Jobs, Keeps(j), InHistory(j)'
  PROVE  /\ job[j].row \in DOMAIN rotations /\ job[j].row \in DOMAIN rotations'
         /\ rotations'[job[j].row] = rotations[job[j].row]
<1>1. job[j].row \in DOMAIN rotations
  BY DEF RowsAreOwned, Keeps
<1>2. ASSUME NEW k \in Jobs, Inserts(k)
      PROVE  /\ job[j].row \in DOMAIN rotations'
             /\ rotations'[job[j].row] = rotations[job[j].row]
  BY <1>1, <1>2, InsertKeeps
<1>3. ASSUME NEW k \in Jobs, InHistory(k), Returns(k), Closes(k)
      PROVE  /\ job[j].row \in DOMAIN rotations'
             /\ rotations'[job[j].row] = rotations[job[j].row]
  <2>1. k # j
    BY <1>3 DEF Returns, Return, IdleJob, RotationTypeOK, InHistory
  <2>2. job[k].row # job[j].row
    BY <1>3, <2>1 DEF RowsAreOwned, Keeps
  <2> QED BY <1>1, <1>3, <2>2, CloseKeeps
<1> QED BY <1>1, <1>2, <1>3, RowsStep

LEMMA RowsOwnedStep ==
  ASSUME RotationTypeOK, RowsAreOwned, [Next]_vars
  PROVE  RowsAreOwned'
<1>1. ASSUME NEW j \in Jobs, InHistory(j)'
      PROVE  /\ job'[j].row \in DOMAIN rotations'
             /\ rotations'[job'[j].row] = OwnRow(j)'
  <2>1. CASE Keeps(j)
    <3>1. rotations[job[j].row] = OwnRow(j)
      BY <2>1 DEF RowsAreOwned, Keeps, OwnRow
    <3>2. rotations'[job[j].row] = rotations[job[j].row] /\ job[j].row \in DOMAIN rotations'
      BY <1>1, <2>1, KeptRow
    <3> QED BY <2>1, <3>1, <3>2 DEF Keeps, OwnRow
  <2>2. CASE Enrols(j)
    <3>1. /\ job'[j].row = Len(rotations) + 1 /\ job'[j].machine = job[j].machine
          /\ job'[j].auto = job[j].auto /\ job'[j].old = job[j].old
      BY <2>2 DEF Enrols
    <3>2. /\ Len(rotations) + 1 \in DOMAIN rotations'
          /\ rotations'[Len(rotations) + 1] =
               [machine |-> job[j].machine, auto |-> job[j].auto, old |-> job[j].old,
                new |-> NoIP, status |-> "running", started |-> now]
      BY <2>2, InsertKeeps DEF Enrols
    <3> QED BY <3>1, <3>2 DEF OwnRow
  <2> QED BY <1>1, <2>1, <2>2, HistoryBefore
<1>2. ASSUME NEW j \in Jobs, NEW k \in Jobs, InHistory(j)', InHistory(k)',
             job'[j].row = job'[k].row
      PROVE  j = k
  <2>1. ASSUME NEW h \in Jobs, NEW i \in Jobs, Enrols(h), Keeps(i), InHistory(i)'
        PROVE  job'[h].row # job'[i].row
    <3>1. job[i].row \in DOMAIN rotations
      BY <2>1, KeptRow
    <3>2. job[i].row \in 1..Len(rotations) /\ Len(rotations) \in Nat
      BY <2>1, <3>1, InsertKeeps DEF Enrols
    <3> QED BY <2>1, <3>2 DEF Enrols, Keeps
  <2>2. CASE Keeps(j) /\ Keeps(k)
    BY <1>2, <2>2 DEF RowsAreOwned, Keeps
  <2>3. CASE Enrols(j) /\ Enrols(k)
    <3>1. j # k => job'[k] = job[k]
      BY <2>3 DEF Enrols, Moves, RotationTypeOK
    <3> QED BY <1>2, <2>3, <3>1 DEF Enrols, InHistory
  <2> QED BY <1>2, <2>1, <2>2, <2>3, HistoryBefore
<1> QED BY <1>1, <1>2 DEF RowsAreOwned, OwnRow

LEMMA RowsOwnedInit == RotationInit => RowsAreOwned
<1> SUFFICES ASSUME RotationInit PROVE RowsAreOwned
  OBVIOUS
<1>1. \A j \in Jobs : job[j].pc = "idle"
  BY DEF RotationInit, IdleJob
<1> QED BY <1>1 DEF RowsAreOwned, InHistory

(* Every rotation in progress finds its row as it left it, and shares it with none. *)
THEOREM RowsCorrect == Spec => []RowsAreOwned
  BY RowsOwnedInit, RowsOwnedStep, RotationTypeCorrect, PTL DEF Spec

-----------------------------------------------------------------------------
(* The refinement: what the ledger shows of a step. *)

LEMMA HistoryType ==
  ASSUME RotationTypeOK
  PROVE  /\ History \in Seq(Ledger!Entry)
         /\ DOMAIN History = DOMAIN rotations /\ Len(History) = Len(rotations)
         /\ Len(History) \in Nat /\ DOMAIN rotations = 1..Len(rotations)
         /\ \A i \in DOMAIN rotations : /\ History[i].machine = rotations[i].machine
                                        /\ History[i].status = rotations[i].status
<1>1. /\ rotations \in Seq(RotationRow) /\ DOMAIN rotations = 1..Len(rotations)
      /\ Len(rotations) \in Nat
  BY DEF RotationTypeOK
<1>2. DOMAIN History = 1..Len(rotations)
  BY <1>1 DEF History
<1>3. \A i \in DOMAIN rotations :
        History[i] = [machine |-> rotations[i].machine, status |-> rotations[i].status]
  BY DEF History
<1>4. History \in Seq(Ledger!Entry)
  <2>1. ASSUME NEW i \in 1..Len(rotations)
        PROVE  [machine |-> rotations[i].machine, status |-> rotations[i].status] \in Ledger!Entry
    <3>1. rotations[i] \in RotationRow
      BY <1>1
    <3> QED BY <3>1 DEF RotationRow, Ledger!Entry
  <2>2. History \in [1..Len(rotations) -> Ledger!Entry]
    BY <1>1, <2>1 DEF History
  <2> QED BY <1>1, <2>2
<1> QED BY <1>1, <1>2, <1>3, <1>4

LEMMA OpenRow ==
  ASSUME RotationTypeOK, RowsAreOwned, NEW j \in Jobs, InHistory(j)
  PROVE  /\ job[j].row \in DOMAIN History
         /\ History[job[j].row].machine = job[j].machine
         /\ History[job[j].row].status = "running"
<1>1. job[j].row \in DOMAIN rotations
  BY DEF RowsAreOwned
<1>2. rotations[job[j].row].machine = job[j].machine /\ rotations[job[j].row].status = "running"
  <2> DEFINE row == [machine |-> job[j].machine, auto |-> job[j].auto, old |-> job[j].old,
                     new |-> NoIP, status |-> "running",
                     started |-> rotations[job[j].row].started]
  <2>1. row.machine = job[j].machine /\ row.status = "running"
    OBVIOUS
  <2>2. rotations[job[j].row] = row
    BY DEF RowsAreOwned
  <2> HIDE DEF row
  <2> QED BY <2>1, <2>2
<1> QED BY <1>1, <1>2, HistoryType

LEMMA NoEntry ==
  ASSUME RotationTypeOK, LockInv, RowsAreOwned, NEW j \in Jobs, Live(j), ~InHistory(j)
  PROVE  \A i \in Open : History[i].machine # job[j].machine
<1> SUFFICES ASSUME NEW i \in Open, History[i].machine = job[j].machine PROVE FALSE
  OBVIOUS
<1>1. PICK k \in Jobs : InHistory(k) /\ job[k].row = i
  BY DEF Open
<1>2. job[k].machine = job[j].machine /\ Live(k)
  BY <1>1, OpenRow DEF InHistory, Live
<1> QED BY <1>1, <1>2 DEF LockInv, OneRotationPerMachine

LEMMA HistoryAppend ==
  ASSUME RotationTypeOK, NEW j \in Jobs, Inserts(j)
  PROVE  History' = Append(History, [machine |-> job[j].machine, status |-> "running"])
<1> DEFINE n == Len(rotations) + 1
           entry == [machine |-> job[j].machine, status |-> "running"]
           row == [machine |-> job[j].machine, auto |-> job[j].auto, old |-> job[j].old,
                   new |-> NoIP, status |-> "running", started |-> now]
<1>1. row.machine = job[j].machine /\ row.status = "running"
  OBVIOUS
<1>2. rotations' = Append(rotations, row)
  BY DEF Inserts
<1> HIDE DEF row
<1>3. rotations \in Seq(RotationRow) /\ Len(rotations) \in Nat
  BY DEF RotationTypeOK
<1>4. /\ DOMAIN rotations' = 1..n /\ rotations'[n] = row
      /\ \A i \in 1..Len(rotations) : rotations'[i] = rotations[i]
  BY <1>2, <1>3
<1>5. History' = [i \in 1..n |-> IF i = n THEN entry ELSE History[i]]
  <2>1. ASSUME NEW i \in 1..n
        PROVE  [machine |-> rotations'[i].machine, status |-> rotations'[i].status]
                 = IF i = n THEN entry ELSE History[i]
    <3>1. CASE i = n
      BY <1>1, <1>4, <3>1
    <3>2. CASE i # n
      <4>1. i \in 1..Len(rotations)
        BY <1>3, <3>2
      <4>2. History[i] = [machine |-> rotations[i].machine, status |-> rotations[i].status]
        BY <1>3, <4>1 DEF History
      <4> QED BY <1>4, <3>2, <4>1, <4>2
    <3> QED BY <3>1, <3>2
  <2>2. History' = [i \in 1..n |->
                      [machine |-> rotations'[i].machine, status |-> rotations'[i].status]]
    BY <1>4 DEF History
  <2> HIDE DEF entry, n
  <2> QED BY <2>1, <2>2
<1>6. Append(History, entry) = [i \in 1..n |-> IF i = n THEN entry ELSE History[i]]
  <2>1. History \in Seq(Ledger!Entry) /\ Len(History) = Len(rotations)
    BY HistoryType
  <2>2. entry \in Ledger!Entry
    BY DEF RotationTypeOK, Job, Ledger!Entry
  <2> HIDE DEF entry
  <2>3. PICK h : h = Append(History, entry)
    OBVIOUS
  <2>4. /\ h \in Seq(Ledger!Entry) /\ DOMAIN h = 1..n /\ h[n] = entry
        /\ \A i \in 1..Len(rotations) : h[i] = History[i]
    BY <1>3, <2>1, <2>2, <2>3
  <2>5. \A i \in 1..n : h[i] = IF i = n THEN entry ELSE History[i]
    BY <1>3, <2>4
  <2> HIDE DEF n
  <2>6. h = [i \in 1..n |-> IF i = n THEN entry ELSE History[i]]
    BY <2>4, <2>5
  <2> QED BY <2>3, <2>6
<1> QED BY <1>5, <1>6

LEMMA HistoryClose ==
  ASSUME RotationTypeOK, NEW i \in DOMAIN rotations, NEW status, NEW ip,
         \/ rotations' = [rotations EXCEPT ![i].status = status]
         \/ rotations' = [rotations EXCEPT ![i].status = status, ![i].new = ip]
  PROVE  History' = [History EXCEPT ![i].status = status]
<1>1. /\ DOMAIN rotations' = DOMAIN rotations
      /\ \A k \in DOMAIN rotations \ {i} : rotations'[k] = rotations[k]
      /\ rotations'[i].machine = rotations[i].machine /\ rotations'[i].status = status
  <2>1. rotations \in Seq(RotationRow) /\ rotations[i] \in RotationRow
    BY DEF RotationTypeOK
  <2> QED BY <2>1 DEF RotationRow
<1>2. \A k \in DOMAIN rotations :
        History[k] = [machine |-> rotations[k].machine, status |-> rotations[k].status]
  BY DEF History
<1>3. History' = [k \in DOMAIN rotations |->
                    [machine |-> rotations'[k].machine, status |-> rotations'[k].status]]
  BY <1>1 DEF History
<1>4. [History EXCEPT ![i].status = status]
        = [k \in DOMAIN rotations |-> IF k = i THEN [History[i] EXCEPT !.status = status]
                                               ELSE History[k]]
  BY DEF History
<1>5. [History[i] EXCEPT !.status = status] = [machine |-> rotations[i].machine, status |-> status]
  <2>1. PICK m, old, entry : /\ m = rotations[i].machine /\ entry = History[i]
                             /\ entry = [machine |-> m, status |-> old]
    BY <1>2
  <2>2. [entry EXCEPT !.status = status] = [machine |-> m, status |-> status]
    BY <2>1
  <2> QED BY <2>1, <2>2
<1>6. ASSUME NEW k \in DOMAIN rotations
      PROVE  [machine |-> rotations'[k].machine, status |-> rotations'[k].status]
               = IF k = i THEN [History[i] EXCEPT !.status = status] ELSE History[k]
  BY <1>1, <1>2, <1>5
<1> QED BY <1>3, <1>4, <1>6

LEMMA AskedOnce ==
  ASSUME RotationTypeOK, NEW m \in Machines,
         panel' = [panel EXCEPT ![m].asked = @ + 1]
  PROVE  Asked' = [Asked EXCEPT ![m] = @ + 1]
  BY DEF Asked, RotationTypeOK, Panel

LEMMA InitRefines == RotationInit => Ledger!LedgerInit
<1> SUFFICES ASSUME RotationInit PROVE Ledger!LedgerInit
  OBVIOUS
<1>1. \A j \in Jobs : job[j].pc = "idle"
  BY DEF RotationInit, IdleJob
<1>2. Open = {} /\ Unasked = {} /\ lock = {}
  BY <1>1 DEF RotationInit, Open, Unasked, InHistory
<1>3. History = <<>>
  BY DEF RotationInit, History
<1>4. Asked = [m \in Machines |-> 0]
  BY DEF RotationInit, Asked
<1> QED BY <1>2, <1>3, <1>4 DEF Ledger!LedgerInit

-----------------------------------------------------------------------------
(* What a step of one job does to the ledger. *)

Others(j) == job \in [Jobs -> Job] /\ \A k \in Jobs \ {j} : job'[k] = job[k]

(* j has a row before and after, or neither, and has not called the provider. *)
Stays(j) ==
  /\ Others(j) /\ lock' = lock
  /\ job'[j].row = job[j].row
  /\ InHistory(j)' <=> InHistory(j)
  /\ job'[j].pc = "change" <=> job[j].pc = "change"

LEMMA StaysRefines ==
  ASSUME NEW j \in Jobs, Stays(j), UNCHANGED <<rotations, panel>>
  PROVE  UNCHANGED Ledger!ledgerVars
<1>1. Open' = Open /\ Unasked' = Unasked
  BY DEF Stays, Others, Open, Unasked, InHistory
<1>2. History' = History /\ Asked' = Asked
  BY DEF History, Asked
<1> QED BY <1>1, <1>2 DEF Stays, Ledger!ledgerVars

LEMMA QuietRefines ==
  ASSUME UNCHANGED <<job, lock, rotations>>, \A m \in Machines : panel'[m].asked = panel[m].asked
  PROVE  UNCHANGED Ledger!ledgerVars
  BY DEF Ledger!ledgerVars, Open, Unasked, InHistory, History, Asked

LEMMA GoStays ==
  ASSUME RotationTypeOK, NEW j \in Jobs, NEW pc \in PCs \ {"change"}, Go(j, pc),
         job[j].pc # "change",
         InHistory(j) <=> pc \in {"poll", "record", "post", "posting", "finish"}
  PROVE  Stays(j)
<1>1. job'[j].pc = pc /\ job'[j].row = job[j].row
  BY DEF Go, RotationTypeOK, Job
<1> QED BY <1>1 DEF Stays, Others, Go, RotationTypeOK, InHistory

(* Every return, and every way out of the history, takes j's row off the open ones. *)
LEMMA ReturnTakes ==
  ASSUME RotationTypeOK, RowsAreOwned, NEW j \in Jobs, Return(j)
  PROVE  /\ lock' = lock \ {job[j].machine}
         /\ InHistory(j) => Open' = Open \ {job[j].row} /\ Unasked' = Unasked \ {job[j].row}
         /\ ~InHistory(j) => Open' = Open /\ Unasked' = Unasked
<1>1. /\ job'[j].pc = "idle" /\ \A k \in Jobs \ {j} : job'[k] = job[k]
      /\ lock' = lock \ {job[j].machine}
  BY DEF Return, RotationTypeOK, IdleJob
<1>2. \A k \in Jobs \ {j} : InHistory(k) /\ InHistory(j) => job[k].row # job[j].row
  BY DEF RowsAreOwned
<1> QED BY <1>1, <1>2 DEF Open, Unasked, InHistory

LEMMA GiveUpRefines ==
  ASSUME RotationTypeOK, LockInv, RowsAreOwned, NEW j \in Jobs, Live(j), ~InHistory(j),
         Return(j), UNCHANGED <<rotations, panel>>
  PROVE  Ledger!LedgerNext
<1> DEFINE m == job[j].machine
<1>1. m \in Machines /\ m \in lock
  BY DEF RotationTypeOK, Job, LockInv, LockIsOwned
<1>2. \A i \in Open : History[i].machine # m
  BY NoEntry
<1>3. History' = History /\ Asked' = Asked
  BY DEF History, Asked
<1>4. Ledger!GiveUp(m)
  BY <1>1, <1>2, <1>3, ReturnTakes DEF Ledger!GiveUp, Ledger!HasEntry
<1> QED BY <1>1, <1>4 DEF Ledger!LedgerNext

LEMMA EnterRefines ==
  ASSUME RotationTypeOK, NEW j \in Jobs, NEW m \in Machines, NEW auto \in BOOLEAN,
         Enter(j, m, auto)
  PROVE  Ledger!LedgerNext
<1>1. /\ job'[j].pc = "load" /\ job[j].pc = "idle"
      /\ \A k \in Jobs \ {j} : job'[k] = job[k]
      /\ m \notin lock /\ lock' = lock \union {m} /\ UNCHANGED <<rotations, panel>>
  BY DEF Enter, RotationTypeOK, IdleJob
<1>2. Open' = Open /\ Unasked' = Unasked
  BY <1>1 DEF Open, Unasked, InHistory
<1>3. History' = History /\ Asked' = Asked
  BY <1>1 DEF History, Asked
<1>4. Ledger!Begin(m)
  BY <1>1, <1>2, <1>3 DEF Ledger!Begin
<1> QED BY <1>4 DEF Ledger!LedgerNext

LEMMA CrashRefines ==
  ASSUME RotationTypeOK, Crash
  PROVE  Ledger!LedgerNext
<1>1. \A j \in Jobs : job'[j].pc = "idle"
  BY DEF Crash, IdleJob
<1>2. Open' = {} /\ Unasked' = {}
  BY <1>1 DEF Open, Unasked, InHistory
<1>3. History' = History /\ Asked' = Asked
  BY DEF Crash, History, Asked
<1>4. Ledger!Stop
  BY <1>2, <1>3 DEF Crash, Ledger!Stop
<1> QED BY <1>4 DEF Ledger!LedgerNext

LEMMA InsertRefines ==
  ASSUME RotationTypeOK, LockInv, RowsAreOwned, NEW j \in Jobs, InsertRow(j), ~Return(j)
  PROVE  Ledger!LedgerNext
<1> DEFINE m == job[j].machine
           n == Len(rotations) + 1
<1>1. /\ job[j].pc = "insert" /\ lock' = lock /\ panel' = panel
      /\ job' = [job EXCEPT ![j].pc = "change", ![j].row = n] /\ Inserts(j)
  BY DEF InsertRow, Inserts
<1>2. m \in Machines /\ Live(j) /\ ~InHistory(j) /\ m \in lock
  BY <1>1 DEF RotationTypeOK, Job, LockInv, LockIsOwned, Live, InHistory
<1>3. /\ job'[j].pc = "change" /\ job'[j].row = n
      /\ \A k \in Jobs \ {j} : job'[k] = job[k]
  BY <1>1 DEF RotationTypeOK, Job
<1>4. Open' = Open \union {n} /\ Unasked' = Unasked \union {n}
  <2>1. /\ InHistory(j)' /\ job[j].pc # "change"
        /\ \A k \in Jobs \ {j} : InHistory(k)' <=> InHistory(k)
    BY <1>1, <1>3 DEF InHistory
  <2> HIDE DEF n
  <2>2. Open' = Open \union {n}
    BY <1>2, <1>3, <2>1 DEF Open
  <2>3. Unasked' = Unasked \union {n}
    BY <1>3, <2>1 DEF Unasked
  <2> QED BY <2>2, <2>3
<1>5. History' = Append(History, [machine |-> m, status |-> "running"])
  BY <1>1, HistoryAppend
<1>6. Asked' = Asked
  BY <1>1 DEF Asked
<1>7. Ledger!EnterHistory(m)
  BY <1>1, <1>2, <1>4, <1>5, <1>6, NoEntry, HistoryType
  DEF Ledger!EnterHistory, Ledger!HasEntry
<1> QED BY <1>2, <1>7 DEF Ledger!LedgerNext

LEMMA AskRefines ==
  ASSUME RotationTypeOK, RowsAreOwned, NEW j \in Jobs, job[j].pc = "change", Go(j, "poll"),
         panel' = [panel EXCEPT ![job[j].machine].asked = @ + 1], UNCHANGED rotations
  PROVE  Ledger!LedgerNext
<1> DEFINE i == job[j].row
<1>0. InHistory(j) /\ job[j].machine \in Machines
  BY DEF InHistory, RotationTypeOK, Job
<1>1. /\ job'[j].pc = "poll" /\ job'[j].row = i /\ lock' = lock
      /\ \A k \in Jobs \ {j} : job'[k] = job[k]
  BY DEF Go, RotationTypeOK, Job
<1>2. \A k \in Jobs \ {j} : InHistory(k) => job[k].row # i
  BY <1>0 DEF RowsAreOwned
<1>3. Open' = Open /\ i \in Unasked /\ Unasked' = Unasked \ {i}
  BY <1>1, <1>2 DEF Open, Unasked, InHistory
<1>4. History' = History
  BY DEF History
<1>5. Ledger!Ask(i)
  BY <1>0, <1>1, <1>3, <1>4, OpenRow, AskedOnce DEF Ledger!Ask, Ledger!Asked
<1> QED BY <1>0, <1>5, OpenRow DEF Ledger!LedgerNext

LEMMA FailRefines ==
  ASSUME RotationTypeOK, RowsAreOwned, NEW j \in Jobs, InHistory(j), FailRotation(j),
         \/ panel' = panel
         \/ /\ panel' = [panel EXCEPT ![job[j].machine].asked = @ + 1]
            /\ job[j].pc = "change"
  PROVE  Ledger!LedgerNext
<1> DEFINE i == job[j].row
<1>1. Open' = Open \ {i} /\ Unasked' = Unasked \ {i} /\ lock' = lock \ {History[i].machine}
  BY OpenRow, ReturnTakes DEF FailRotation
<1>2. i \in Open /\ i \in DOMAIN History /\ i \in DOMAIN rotations /\ (job[j].pc = "change" => i \in Unasked)
  BY OpenRow, HistoryType DEF Open, Unasked
<1>3. History' = [History EXCEPT ![i].status = "failed"]
  BY <1>2, HistoryClose DEF FailRotation
<1>4. \/ Asked' = Asked
      \/ i \in Unasked /\ Asked' = [Asked EXCEPT ![History[i].machine] = @ + 1]
  <2>1. panel' = panel => Asked' = Asked
    BY DEF Asked
  <2>2. job[j].machine \in Machines
    BY DEF RotationTypeOK, Job
  <2> QED BY <1>2, <2>1, <2>2, AskedOnce, OpenRow
<1>5. Ledger!Fail(i)
  BY <1>1, <1>2, <1>3, <1>4 DEF Ledger!Fail, Ledger!End, Ledger!Asked
<1> QED BY <1>2, <1>5 DEF Ledger!LedgerNext

LEMMA FinishRefines ==
  ASSUME RotationTypeOK, RowsAreOwned, NEW j \in Jobs, FinishRotation(j)
  PROVE  Ledger!LedgerNext
<1> DEFINE i == job[j].row
<1>0. job[j].pc = "finish" /\ InHistory(j) /\ Return(j) /\ panel' = panel
  BY DEF FinishRotation, InHistory
<1>1. Open' = Open \ {i} /\ Unasked' = Unasked \ {i} /\ lock' = lock \ {History[i].machine}
  BY <1>0, OpenRow, ReturnTakes
<1>2. i \in Open \ Unasked /\ i \in DOMAIN History /\ i \in DOMAIN rotations
  <2>1. ASSUME NEW k \in Jobs, job[k].pc = "change", job[k].row = i PROVE FALSE
    BY <1>0, <2>1 DEF RowsAreOwned, InHistory
  <2> QED BY <1>0, <2>1, OpenRow, HistoryType DEF Open, Unasked
<1>3. Asked' = Asked
  BY <1>0 DEF Asked
<1>4. CASE rotations' = rotations
  <2>1. History' = History
    BY <1>4 DEF History
  <2>2. Ledger!LeaveOpen(i)
    BY <1>1, <1>2, <1>3, <2>1 DEF Ledger!LeaveOpen, Ledger!End
  <2> QED BY <1>2, <2>2 DEF Ledger!LedgerNext
<1>5. CASE rotations' = [rotations EXCEPT ![i].status = "completed", ![i].new = job[j].new]
  <2>1. History' = [History EXCEPT ![i].status = "completed"]
    BY <1>2, <1>5, HistoryClose
  <2>2. Ledger!Complete(i)
    BY <1>1, <1>2, <1>3, <2>1 DEF Ledger!Complete, Ledger!End
  <2> QED BY <1>2, <2>2 DEF Ledger!LedgerNext
<1> QED BY <1>4, <1>5 DEF FinishRotation

-----------------------------------------------------------------------------

LEMMA JobStepRefines ==
  ASSUME RotationTypeOK, LockInv, RowsAreOwned, NEW j \in Jobs, JobStep(j)
  PROVE  Ledger!LedgerNext \/ UNCHANGED Ledger!ledgerVars
<1>0. job \in [Jobs -> Job] /\ job[j] \in Job
  BY DEF RotationTypeOK
<1>1. {"limit", "confirm", "confirming", "list", "insert", "poll", "record", "post",
       "posting", "finish"} \subseteq PCs \ {"change"}
  BY DEF PCs
<1>2. CASE Return(j) /\ Live(j) /\ ~InHistory(j) /\ UNCHANGED <<rotations, panel>>
  BY <1>2, GiveUpRefines
<1>3. CASE Stays(j) /\ UNCHANGED <<rotations, panel>>
  BY <1>3, StaysRefines
<1>4. CASE LoadMachine(j)
  <2>1. Live(j) /\ ~InHistory(j) /\ UNCHANGED <<rotations, panel>>
    BY <1>4 DEF LoadMachine, Live, InHistory
  <2>2. CASE ~Return(j)
    <3> DEFINE r == [job[j] EXCEPT !.pc = IF job[j].auto THEN "limit" ELSE "list",
                                   !.old = machine[job[j].machine].ip]
    <3>1. r.pc \in {"limit", "list"} /\ r.row = job[j].row
      BY <1>0 DEF Job
    <3>2. job' = [job EXCEPT ![j] = r] /\ lock' = lock
      BY <1>0, <1>4, <2>2 DEF LoadMachine
    <3> HIDE DEF r
    <3>3. Stays(j)
      BY <1>0, <2>1, <3>1, <3>2 DEF Stays, Others, InHistory
    <3> QED BY <1>3, <2>1, <3>3
  <2> QED BY <1>2, <2>1, <2>2
<1>5. CASE CountLimit(j)
  BY <1>1, <1>2, <1>3, <1>5, GoStays DEF CountLimit, Live, InHistory
<1>6. ASSUME NEW score \in Scores, Confirm(j, score)
      PROVE  Ledger!LedgerNext \/ UNCHANGED Ledger!ledgerVars
  BY <1>1, <1>2, <1>3, <1>6, GoStays DEF Confirm, Live, InHistory
<1>7. ASSUME NEW score \in Scores, PostCheck(j, score)
      PROVE  Ledger!LedgerNext \/ UNCHANGED Ledger!ledgerVars
  BY <1>1, <1>3, <1>7, GoStays DEF PostCheck, InHistory
<1>8. CASE JobCheckLoad(j)
  BY <1>8, QuietRefines DEF JobCheckLoad, rotationVars
<1>9. CASE JobCheckStore(j)
  BY <1>1, <1>2, <1>3, <1>9, GoStays DEF JobCheckStore, Live, InHistory
<1>10. CASE ListOld(j)
  <2>1. CASE Return(j) \/ Go(j, "insert")
    BY <1>1, <1>2, <1>3, <1>10, <2>1, GoStays DEF ListOld, Live, InHistory
  <2>2. CASE ~(Return(j) \/ Go(j, "insert"))
    <3> DEFINE r == [job[j] EXCEPT !.pc = "insert", !.old = panel[job[j].machine].ip]
    <3>1. r.pc = "insert" /\ r.row = job[j].row
      BY <1>0 DEF Job
    <3>2. /\ job' = [job EXCEPT ![j] = r] /\ lock' = lock /\ job[j].pc = "list"
          /\ UNCHANGED <<rotations, panel>>
      BY <1>0, <1>10, <2>2 DEF ListOld
    <3> HIDE DEF r
    <3>3. Stays(j)
      BY <1>0, <3>1, <3>2 DEF Stays, Others, InHistory
    <3> QED BY <1>3, <3>2, <3>3
  <2> QED BY <2>1, <2>2
<1>11. CASE InsertRow(j)
  <2>1. CASE Return(j)
    <3>1. /\ Live(j) /\ ~InHistory(j) /\ UNCHANGED panel
          /\ UNCHANGED rotations \/ ~Return(j)
      <4>1. job' = [job EXCEPT ![j].pc = "change", ![j].row = Len(rotations) + 1] => ~Return(j)
        BY <1>0 DEF Return, IdleJob, Job
      <4> QED BY <1>11, <4>1 DEF InsertRow, Live, InHistory
    <3> QED BY <1>2, <2>1, <3>1
  <2> QED BY <1>11, <2>1, InsertRefines
<1>12. CASE AskChange(j)
  <2>1. CASE FailRotation(j)
    <3>1. InHistory(j) /\ job[j].pc = "change"
      BY <1>12 DEF AskChange, InHistory
    <3>2. Go(j, "poll") => ~FailRotation(j)
      BY <1>0 DEF Go, FailRotation, Return, IdleJob, Job
    <3>3. panel' = panel \/ panel' = [panel EXCEPT ![job[j].machine].asked = @ + 1]
      BY <1>12 DEF AskChange
    <3> QED BY <2>1, <3>1, <3>3, FailRefines
  <2>2. CASE ~FailRotation(j)
    BY <1>12, <2>2, AskRefines DEF AskChange
  <2> QED BY <2>1, <2>2
<1>13. CASE Poll(j)
  <2>1. CASE FailRotation(j)
    <3>1. InHistory(j) /\ panel' = panel
      BY <1>13 DEF Poll, InHistory
    <3> QED BY <2>1, <3>1, FailRefines
  <2>2. CASE ~FailRotation(j)
    <3> DEFINE r == [job[j] EXCEPT !.pc = "record", !.new = panel[job[j].machine].ip]
    <3>1. r.pc = "record" /\ r.row = job[j].row
      BY <1>0 DEF Job
    <3>2. /\ job' = [job EXCEPT ![j] = r] /\ lock' = lock /\ job[j].pc = "poll"
          /\ UNCHANGED <<rotations, panel>>
      BY <1>0, <1>13, <2>2 DEF Poll
    <3> HIDE DEF r
    <3>3. Stays(j)
      BY <1>0, <3>1, <3>2 DEF Stays, Others, InHistory
    <3> QED BY <1>3, <3>2, <3>3
  <2> QED BY <2>1, <2>2
<1>14. CASE RecordAddress(j)
  BY <1>1, <1>3, <1>14, GoStays DEF RecordAddress, InHistory
<1>15. CASE FinishRotation(j)
  BY <1>15, FinishRefines
<1> QED
  BY <1>4, <1>5, <1>6, <1>7, <1>8, <1>9, <1>10, <1>11, <1>12, <1>13, <1>14, <1>15
  DEF JobStep

LEMMA StepRefines ==
  ASSUME RotationTypeOK, LockInv, RowsAreOwned, [Next]_vars
  PROVE  [Ledger!LedgerNext]_(Ledger!ledgerVars)
<1>0. job \in [Jobs -> Job] /\ panel \in [Machines -> Panel]
  BY DEF RotationTypeOK
<1>1. ASSUME NEW j \in Jobs, NEW m \in Machines, EnterManual(j, m) \/ EnterAuto(j, m)
      PROVE  Ledger!LedgerNext
  BY <1>1, EnterRefines DEF EnterManual, EnterAuto
<1>2. ASSUME NEW j \in Jobs, CancelRequest(j) PROVE UNCHANGED Ledger!ledgerVars
  <2> DEFINE r == [job[j] EXCEPT !.cancelled = TRUE]
  <2>1. r.pc = job[j].pc /\ r.row = job[j].row
    BY <1>0 DEF Job
  <2>2. job' = [job EXCEPT ![j] = r] /\ UNCHANGED <<lock, rotations, panel>>
    BY <1>0, <1>2 DEF CancelRequest
  <2> HIDE DEF r
  <2>3. Stays(j)
    BY <1>0, <2>1, <2>2 DEF Stays, Others, InHistory
  <2> QED BY <2>2, <2>3, StaysRefines
<1>3. ASSUME NEW c \in Callers, OtherCheck(c) PROVE UNCHANGED Ledger!ledgerVars
  BY <1>3, QuietRefines DEF OtherCheck, rotationVars
<1>4. ASSUME NEW m \in Machines, AutoBusy(m) \/ OtherWrite(m)
      PROVE  UNCHANGED Ledger!ledgerVars
  BY <1>4, QuietRefines, OtherWriteKeeps DEF AutoBusy, rotationVars
<1>5. ASSUME NEW m \in Machines, NEW ip \in IPs, PanelAssign(m, ip)
      PROVE  UNCHANGED Ledger!ledgerVars
  <2>1. \A n \in Machines : panel'[n].asked = panel[n].asked
    BY <1>0, <1>5 DEF PanelAssign, Panel
  <2> QED BY <1>5, <2>1, QuietRefines DEF PanelAssign
<1>6. CASE Tick \/ UNCHANGED vars
  BY <1>6, QuietRefines DEF Tick, vars
<1> QED
  BY <1>1, <1>2, <1>3, <1>4, <1>5, <1>6, JobStepRefines, CrashRefines DEF Next

(* Every rotation of the code is one of the ledger's, for any number of machines and jobs. *)
THEOREM RotationImplementsLedger == Spec => ImplementsLedger
  BY InitRefines, StepRefines, RotationTypeCorrect, LockInvariant, RowsCorrect, PTL
  DEF Spec, ImplementsLedger, Ledger!LedgerSpec

(* So the books of the code balance, too. *)
THEOREM LedgerBalancedCorrect == Spec => []LedgerBalanced
  BY RotationImplementsLedger, Ledger!BalancedCorrect, PTL DEF ImplementsLedger, LedgerBalanced

-----------------------------------------------------------------------------
(* Rows stay, and are finitely many. *)

LEMMA RowsFinite ==
  ASSUME RotationTypeOK, NEW S \in SUBSET DOMAIN rotations
  PROVE  IsFiniteSet(S)
<1>1. DOMAIN rotations = 1..Len(rotations) /\ Len(rotations) \in Nat
  BY DEF RotationTypeOK
<1>2. IsFiniteSet(1..Len(rotations))
  BY <1>1, FS_Interval
<1> QED BY <1>1, <1>2, FS_Subset

LEMMA RowsStay ==
  ASSUME RotationTypeOK, [Next]_vars
  PROVE  /\ DOMAIN rotations \subseteq DOMAIN rotations'
         /\ \A i \in DOMAIN rotations : /\ rotations'[i].machine = rotations[i].machine
                                        /\ rotations'[i].auto = rotations[i].auto
                                        /\ rotations'[i].started = rotations[i].started
<1>1. ASSUME NEW k \in Jobs, Inserts(k)
      PROVE  /\ DOMAIN rotations \subseteq DOMAIN rotations'
             /\ \A i \in DOMAIN rotations : rotations'[i] = rotations[i]
  BY <1>1, InsertKeeps
<1>2. ASSUME NEW k \in Jobs, Closes(k)
      PROVE  /\ DOMAIN rotations \subseteq DOMAIN rotations'
             /\ \A i \in DOMAIN rotations : /\ rotations'[i].machine = rotations[i].machine
                                            /\ rotations'[i].auto = rotations[i].auto
                                            /\ rotations'[i].started = rotations[i].started
  BY <1>2, CloseKeeps
<1> QED BY <1>1, <1>2, RowsStep

-----------------------------------------------------------------------------
(* The daily limit. *)

(* An automatic rotation that has read the limit and has no row yet, or has one. *)
Counted(j) == job[j].auto /\ job[j].pc \in {"confirm", "confirming", "list", "insert"}
Enrolled(j) == job[j].auto /\ InHistory(j)

(***************************************************************************)
(* DailyLimit is not inductive: the count that lets a rotation pass is     *)
(* taken long before its row is completed.  The strengthening says that    *)
(* there is room for its row on the day it will count for, today's or that *)
(* of its row; the lock keeps other rotations from taking the room.  And   *)
(* none of the machine enters the history, or is completed, behind it.     *)
(***************************************************************************)
Room(m, d) == Cardinality(CompletedOnDay(m, d)) < MaxRotationsPerDay

RowsAreNewest ==
  \A j \in Jobs, i \in DOMAIN rotations :
    InHistory(j) /\ rotations[i].machine = job[j].machine => i <= job[j].row

LimitInv ==
  /\ \A i \in DOMAIN rotations : rotations[i].started <= now
  /\ \A j \in Jobs : Counted(j) => Room(job[j].machine, Day(now))
  /\ \A j \in Jobs : Enrolled(j) => Room(job[j].machine, Day(rotations[job[j].row].started))
  /\ RowsAreNewest
  /\ DailyLimit

LEMMA DayType == \A t \in Nat : Day(t) \in Nat
<1> SUFFICES ASSUME NEW t \in Nat PROVE t \div DayLength \in Nat
  BY DEF Day
<1> QED BY RotationConstants, Z3

LEMMA DayMonotone ==
  ASSUME NEW t \in Nat, NEW u \in Nat, t <= u
  PROVE  Day(t) <= Day(u)
<1>1. t \div DayLength <= u \div DayLength
  BY RotationConstants, Z3
<1> QED BY <1>1 DEF Day

LEMMA DayFinite ==
  ASSUME RotationTypeOK, NEW m \in Machines, NEW d \in Nat
  PROVE  IsFiniteSet(CompletedOnDay(m, d)) /\ Cardinality(CompletedOnDay(m, d)) \in Nat
<1>1. CompletedOnDay(m, d) \subseteq DOMAIN rotations
  BY DEF CompletedOnDay
<1> QED BY <1>1, RowsFinite, FS_CardinalityType

(* A day's rotations change only by the one that is completed. *)
Completes(k, m, d) ==
  /\ InHistory(k) /\ Returns(k) /\ Closes(k) /\ job[k].machine = m
  /\ Day(rotations[job[k].row].started) = d
  /\ CompletedOnDay(m, d)' = CompletedOnDay(m, d) \union {job[k].row}

LEMMA DayStep ==
  ASSUME RotationTypeOK, RowsAreOwned, [Next]_vars, NEW m \in Machines, NEW d \in Nat
  PROVE  CompletedOnDay(m, d)' = CompletedOnDay(m, d) \/ \E k \in Jobs : Completes(k, m, d)
<1>0. rotations \in Seq(RotationRow)
  BY DEF RotationTypeOK
<1>1. CASE UNCHANGED rotations
  BY <1>1 DEF CompletedOnDay
<1>2. ASSUME NEW k \in Jobs, Inserts(k) PROVE CompletedOnDay(m, d)' = CompletedOnDay(m, d)
  <2> DEFINE new == Len(rotations) + 1
  <2>1. DOMAIN rotations' = DOMAIN rotations \union {new}
    BY <1>2, InsertKeeps
  <2>2. rotations'[new].status = "running"
    BY <1>2, InsertedRow
  <2>3. \A i \in DOMAIN rotations : rotations'[i] = rotations[i]
    BY <1>2, InsertKeeps
  <2> HIDE DEF new
  <2> QED BY <2>1, <2>2, <2>3 DEF CompletedOnDay
<1>3. ASSUME NEW k \in Jobs, InHistory(k), Returns(k), Closes(k)
      PROVE  CompletedOnDay(m, d)' = CompletedOnDay(m, d) \/ Completes(k, m, d)
  <2> DEFINE i == job[k].row
  <2>1. i \in DOMAIN rotations /\ rotations[i] = OwnRow(k)
    BY <1>3 DEF RowsAreOwned, OwnRow
  <2>2. rotations[i].machine = job[k].machine /\ rotations[i].status = "running"
    BY <2>1 DEF OwnRow
  <2>3. i \notin CompletedOnDay(m, d)
    BY <2>2 DEF CompletedOnDay
  <2>4. /\ DOMAIN rotations' = DOMAIN rotations
        /\ \A h \in DOMAIN rotations : h # i => rotations'[h] = rotations[h]
        /\ rotations'[i].machine = rotations[i].machine
        /\ rotations'[i].started = rotations[i].started
    BY <1>3, <2>1, CloseKeeps
  <2> HIDE DEF i
  <2>5. \/ CompletedOnDay(m, d)' = CompletedOnDay(m, d)
        \/ /\ CompletedOnDay(m, d)' = CompletedOnDay(m, d) \union {i}
           /\ rotations[i].machine = m /\ Day(rotations[i].started) = d
    BY <2>1, <2>3, <2>4 DEF CompletedOnDay
  <2> QED BY <1>3, <2>2, <2>5 DEF Completes, i
<1> QED BY <1>1, <1>2, <1>3, RowsStep

(* While a rotation goes on, nobody else completes one of its machine. *)
LEMMA DayKept ==
  ASSUME RotationTypeOK, LockInv, RowsAreOwned, [Next]_vars,
         NEW j \in Jobs, Live(j), job'[j].pc # "idle",
         NEW m \in Machines, job[j].machine = m, NEW d \in Nat
  PROVE  CompletedOnDay(m, d)' = CompletedOnDay(m, d)
<1>1. ASSUME NEW k \in Jobs, Completes(k, m, d) PROVE FALSE
  <2>1. Live(k) /\ job[k].machine = m
    BY <1>1 DEF Completes, Returns
  <2>2. k = j
    BY <2>1 DEF LockInv, OneRotationPerMachine
  <2>3. job'[k].pc = "idle"
    BY <1>1 DEF Completes, Returns, Return, IdleJob, RotationTypeOK
  <2> QED BY <2>2, <2>3
<1> QED BY <1>1, DayStep

(* A rotation is among the counted ones after it was so before, or passes the limit. *)
Passes(j) ==
  /\ job[j].pc = "limit" /\ BelowLimit(job[j].machine)
  /\ UNCHANGED <<now, rotations>>

LEMMA CountedStep ==
  ASSUME RotationTypeOK, NEW j \in Jobs, JobStep(j), Counted(j)'
  PROVE  /\ job'[j].machine = job[j].machine /\ job'[j].auto = job[j].auto
         /\ UNCHANGED now
         /\ Counted(j) \/ Passes(j)
<1>0. job \in [Jobs -> Job] /\ job[j] \in Job
  BY DEF RotationTypeOK
<1>1. ~Return(j)
  BY <1>0 DEF Return, IdleJob, Counted
<1>2. job'[j].machine = job[j].machine /\ job'[j].auto = job[j].auto
  BY <1>0, <1>1, JobStepClass DEF Moves, Returns
<1>3. job[j].auto
  BY <1>2 DEF Counted
<1>4. {"change", "poll", "record", "post", "posting", "finish"} \subseteq PCs
  BY DEF PCs
<1>5. \A pc \in PCs : Go(j, pc) => job'[j].pc = pc
  BY <1>0 DEF Go, Job
<1>6. ~FailRotation(j)
  BY <1>1 DEF FailRotation
<1>7. UNCHANGED now
  BY DEF JobStep, LoadMachine, CountLimit, Confirm, PostCheck, JobCheckLoad, JobCheckStore,
         ListOld, InsertRow, AskChange, Poll, RecordAddress, FinishRotation, rotationVars
<1>8. CASE LoadMachine(j)
  <2>1. [job[j] EXCEPT !.pc = IF job[j].auto THEN "limit" ELSE "list",
                       !.old = machine[job[j].machine].ip].pc = "limit"
    BY <1>0, <1>3 DEF Job
  <2>2. job'[j].pc = "limit"
    BY <1>0, <1>1, <1>8, <2>1 DEF LoadMachine
  <2> QED BY <2>2 DEF Counted
<1>9. CASE CountLimit(j)
  BY <1>1, <1>2, <1>7, <1>9 DEF CountLimit, Passes
<1>10. ASSUME NEW score \in Scores, PostCheck(j, score) PROVE FALSE
  BY <1>4, <1>5, <1>10 DEF PostCheck, Counted
<1>11. CASE JobCheckLoad(j)
  BY <1>3, <1>11 DEF JobCheckLoad, rotationVars, Counted
<1>12. CASE JobCheckStore(j)
  <2>1. Go(j, "finish") => FALSE
    BY <1>4, <1>5 DEF Counted
  <2> QED BY <1>1, <1>2, <1>3, <1>7, <1>12, <2>1 DEF JobCheckStore, Counted
<1>13. ASSUME NEW score \in Scores, Confirm(j, score) PROVE Counted(j)
  BY <1>3, <1>13 DEF Confirm, Counted
<1>14. ASSUME ListOld(j) \/ InsertRow(j) PROVE Counted(j)
  BY <1>3, <1>14 DEF ListOld, InsertRow, Counted
<1>15. ~AskChange(j)
  BY <1>4, <1>5, <1>6 DEF AskChange, Counted
<1>16. ~Poll(j)
  <2>1. [job[j] EXCEPT !.pc = "record", !.new = panel[job[j].machine].ip].pc = "record"
    BY <1>0 DEF Job
  <2>2. Poll(j) => job'[j].pc = "record"
    BY <1>0, <1>6, <2>1 DEF Poll
  <2> QED BY <2>2 DEF Counted
<1>17. ~RecordAddress(j)
  BY <1>4, <1>5 DEF RecordAddress, Counted
<1>18. ~FinishRotation(j)
  BY <1>1 DEF FinishRotation
<1> QED
  BY <1>2, <1>7, <1>8, <1>9, <1>10, <1>11, <1>12, <1>13, <1>14, <1>15, <1>16, <1>17, <1>18
  DEF JobStep

LEMMA CountedBefore ==
  ASSUME RotationTypeOK, [Next]_vars, NEW j \in Jobs, Counted(j)'
  PROVE  /\ Live(j) /\ job'[j].machine = job[j].machine
         /\ Counted(j) \/ Passes(j)
<1>1. CASE job'[j] = job[j]
  BY <1>1 DEF Counted, Live
<1>2. CASE job'[j] # job[j]
  <2>1. Live(j) /\ (JobStep(j) \/ CancelRequest(j))
    BY <1>2, OwnStep DEF Counted
  <2>2. CASE JobStep(j)
    BY <2>1, <2>2, CountedStep
  <2>3. CASE CancelRequest(j)
    BY <2>1, <2>3, CancelKeeps DEF Counted
  <2> QED BY <2>1, <2>2, <2>3
<1> QED BY <1>1, <1>2

LEMMA StartedStep ==
  ASSUME RotationTypeOK, LimitInv, [Next]_vars
  PROVE  \A i \in DOMAIN rotations' : rotations'[i].started <= now'
<1>0. /\ now \in Nat /\ now' \in Nat /\ now <= now'
      /\ \A i \in DOMAIN rotations : rotations[i].started \in Nat
  BY TimeForward, RowTypes DEF RotationTypeOK
<1>1. \A i \in DOMAIN rotations : rotations[i].started <= now'
  BY <1>0 DEF LimitInv
<1>2. ASSUME NEW k \in Jobs, Inserts(k), NEW i \in DOMAIN rotations'
      PROVE  rotations'[i].started <= now'
  <2>1. i \in DOMAIN rotations \/ i = Len(rotations) + 1
    BY <1>2, InsertKeeps
  <2>2. CASE i \in DOMAIN rotations
    BY <1>1, <1>2, <2>2, InsertKeeps
  <2>3. CASE i = Len(rotations) + 1
    BY <1>0, <1>2, <2>3, InsertedRow
  <2> QED BY <2>1, <2>2, <2>3
<1>3. ASSUME NEW k \in Jobs, Closes(k), NEW i \in DOMAIN rotations'
      PROVE  rotations'[i].started <= now'
  BY <1>1, <1>3, CloseKeeps
<1> QED BY <1>1, <1>2, <1>3, RowsStep

(* What has room keeps it as time passes: no row has started on a later day. *)
LEMMA RoomLater ==
  ASSUME RotationTypeOK, LimitInv, NEW m \in Machines, Room(m, Day(now)),
         NEW t \in Nat, now <= t
  PROVE  Room(m, Day(t))
<1>0. now \in Nat /\ Day(now) \in Nat /\ Day(t) \in Nat /\ Day(now) <= Day(t)
  BY DayType, DayMonotone DEF RotationTypeOK
<1>1. CASE Day(t) = Day(now)
  BY <1>1
<1>2. CASE Day(t) # Day(now)
  <2>1. ASSUME NEW i \in DOMAIN rotations PROVE Day(rotations[i].started) # Day(t)
    <3>1. rotations[i].started \in Nat /\ rotations[i].started <= now
      BY RowTypes DEF LimitInv
    <3>2. Day(rotations[i].started) \in Nat /\ Day(rotations[i].started) <= Day(now)
      BY <1>0, <3>1, DayType, DayMonotone
    <3> QED BY <1>0, <1>2, <3>2
  <2>2. CompletedOnDay(m, Day(t)) = {}
    BY <2>1 DEF CompletedOnDay
  <2>3. MaxRotationsPerDay \in Nat /\ Cardinality(CompletedOnDay(m, Day(now))) \in Nat
    BY <1>0, RotationConstants, DayFinite
  <2> QED BY <2>2, <2>3, FS_EmptySet DEF Room
<1> QED BY <1>1, <1>2

LEMMA PassingRoom ==
  ASSUME RotationTypeOK, NEW m \in Machines, BelowLimit(m)
  PROVE  Room(m, Day(now))
<1>1. Day(now) \in Nat
  BY DayType DEF RotationTypeOK
<1>2. CompletedOnDay(m, Day(now)) \subseteq CompletedSince(m, Day(now))
  BY <1>1 DEF CompletedOnDay, CompletedSince
<1>3. IsFiniteSet(CompletedSince(m, Day(now)))
  BY RowsFinite DEF CompletedSince
<1>4. /\ Cardinality(CompletedOnDay(m, Day(now))) <= Cardinality(CompletedSince(m, Day(now)))
      /\ Cardinality(CompletedOnDay(m, Day(now))) \in Nat
      /\ Cardinality(CompletedSince(m, Day(now))) \in Nat
  BY <1>2, <1>3, FS_Subset, FS_CardinalityType
<1> QED BY <1>4, RotationConstants DEF BelowLimit, Room

(* Only a rotation that is the machine's only one enters the history. *)
LEMMA NewestStep ==
  ASSUME RotationTypeOK, LockInv, RowsAreOwned, RowsAreNewest, [Next]_vars
  PROVE  RowsAreNewest'
<1> SUFFICES ASSUME NEW j \in Jobs, NEW i \in DOMAIN rotations', InHistory(j)',
                    rotations'[i].machine = job'[j].machine
             PROVE  i <= job'[j].row
  BY DEF RowsAreNewest
<1>1. Keeps(j) \/ Enrols(j)
  BY HistoryBefore
<1>2. Live(j) /\ job'[j].machine = job[j].machine
  BY <1>1 DEF Keeps, Enrols, InHistory, Live
<1>3. CASE Enrols(j)
  <2>1. /\ DOMAIN rotations = 1..Len(rotations) /\ Len(rotations) \in Nat
        /\ DOMAIN rotations' = DOMAIN rotations \union {Len(rotations) + 1}
    BY <1>3, InsertKeeps DEF Enrols
  <2>2. i \in 1..Len(rotations) \/ i = Len(rotations) + 1
    BY <2>1
  <2>3. job'[j].row = Len(rotations) + 1
    BY <1>3 DEF Enrols
  <2> QED BY <2>1, <2>2, <2>3
<1>4. CASE Keeps(j) /\ i \in DOMAIN rotations
  BY <1>2, <1>4, RowsStay DEF RowsAreNewest, Keeps
<1>5. CASE Keeps(j) /\ i \notin DOMAIN rotations
  <2>1. PICK k \in Jobs : job[k].pc = "insert" /\ Inserts(k) /\ i = Len(rotations) + 1
    <3>1. ASSUME NEW k \in Jobs, Closes(k) PROVE FALSE
      BY <1>5, <3>1, CloseKeeps
    <3>2. ~UNCHANGED rotations
      BY <1>5
    <3>3. \A k \in Jobs : Inserts(k) => i = Len(rotations) + 1
      BY <1>5, InsertKeeps
    <3> QED BY <3>1, <3>2, <3>3, RowsStep
  <2>2. rotations'[i].machine = job[k].machine
    <3> DEFINE row == [machine |-> job[k].machine, auto |-> job[k].auto, old |-> job[k].old,
                       new |-> NoIP, status |-> "running", started |-> now]
    <3>1. rotations'[i] = row
      BY <2>1, InsertKeeps
    <3>2. row.machine = job[k].machine
      OBVIOUS
    <3> QED BY <3>1, <3>2
  <2>3. Live(k) /\ job[k].pc = "insert"
    BY <2>1 DEF Live
  <2>4. k = j
    BY <1>2, <2>2, <2>3 DEF LockInv, OneRotationPerMachine
  <2> QED BY <1>5, <2>3, <2>4 DEF Keeps, InHistory
<1> QED BY <1>1, <1>3, <1>4, <1>5

(* A row is completed into the room it has, and takes none from the rows before it. *)
LEMMA DailyStep ==
  ASSUME RotationTypeOK, LockInv, RowsAreOwned, LimitInv, [Next]_vars
  PROVE  DailyLimit'
<1> SUFFICES ASSUME NEW i \in DOMAIN rotations', rotations'[i].auto,
                    rotations'[i].status = "completed"
             PROVE  Cardinality(Before(i)') < MaxRotationsPerDay
  BY DEF DailyLimit
<1>1. PICK m \in Machines, d \in Nat :
        m = rotations'[i].machine /\ d = Day(rotations'[i].started)
  <2>1. rotations'[i] \in RotationRow
    BY RotationTypeStep DEF RotationTypeOK
  <2> QED BY <2>1, DayType DEF RotationRow
<1>2. i \in CompletedOnDay(m, d)' /\ Before(i)' = {k \in CompletedOnDay(m, d)' : k < i}
  BY <1>1 DEF CompletedOnDay, Before
<1>3. i \in CompletedOnDay(m, d) => /\ Before(i) = {k \in CompletedOnDay(m, d) : k < i}
                                   /\ Cardinality(Before(i)) < MaxRotationsPerDay
  <2>1. ASSUME i \in CompletedOnDay(m, d)
        PROVE  /\ i \in DOMAIN rotations /\ rotations[i].machine = m
               /\ Day(rotations[i].started) = d /\ rotations[i].status = "completed"
    BY <2>1 DEF CompletedOnDay
  <2>2. ASSUME i \in DOMAIN rotations PROVE rotations[i].auto
    BY <2>2, RowsStay
  <2> QED BY <2>1, <2>2 DEF Before, LimitInv, DailyLimit
<1>4. CASE CompletedOnDay(m, d)' = CompletedOnDay(m, d)
  BY <1>2, <1>3, <1>4
<1>5. ASSUME NEW j \in Jobs, Completes(j, m, d)
      PROVE  Cardinality(Before(i)') < MaxRotationsPerDay
  <2> DEFINE r == job[j].row
  <2>1. /\ InHistory(j) /\ job[j].machine = m /\ Day(rotations[r].started) = d
        /\ r \in DOMAIN rotations
        /\ CompletedOnDay(m, d)' = CompletedOnDay(m, d) \union {r}
    BY <1>5 DEF Completes, RowsAreOwned
  <2>2. \A k \in CompletedOnDay(m, d) : k \in Nat /\ k <= r
    BY <2>1 DEF LimitInv, RowsAreNewest, CompletedOnDay, RotationTypeOK
  <2>3. r \in Nat /\ i \in Nat
    <3>1. DOMAIN rotations = 1..Len(rotations) /\ DOMAIN rotations' = 1..Len(rotations')
      BY RotationTypeStep DEF RotationTypeOK
    <3> QED BY <2>1, <3>1
  <2>4. CASE i = r
    <3>1. Before(i)' \subseteq CompletedOnDay(m, d)
      BY <1>2, <2>1, <2>3, <2>4
    <3>2. job[j].auto
      <4>1. rotations[r].auto
        BY <2>1, <2>4, RowsStay
      <4>2. rotations[r] = OwnRow(j)
        BY <2>1 DEF RowsAreOwned, OwnRow
      <4> QED BY <4>1, <4>2 DEF OwnRow
    <3>3. Room(m, d)
      BY <2>1, <3>2 DEF LimitInv, Enrolled
    <3>4. Cardinality(Before(i)') <= Cardinality(CompletedOnDay(m, d))
          /\ Cardinality(Before(i)') \in Nat /\ Cardinality(CompletedOnDay(m, d)) \in Nat
      BY <3>1, DayFinite, FS_Subset, FS_CardinalityType
    <3> QED BY <3>3, <3>4, RotationConstants DEF Room
  <2>5. CASE i # r
    <3>1. i \in CompletedOnDay(m, d)
      BY <1>2, <2>1, <2>5
    <3>2. i <= r
      BY <2>2, <3>1
    <3>3. {k \in CompletedOnDay(m, d) \union {r} : k < i} = {k \in CompletedOnDay(m, d) : k < i}
      BY <2>3, <3>2
    <3> QED BY <1>2, <1>3, <2>1, <3>1, <3>3
  <2> QED BY <2>4, <2>5
<1> QED BY <1>4, <1>5, DayStep

LEMMA LimitStep ==
  ASSUME RotationTypeOK, LockInv, RowsAreOwned, LimitInv, [Next]_vars
  PROVE  LimitInv'
<1>0. /\ now \in Nat /\ now' \in Nat /\ now <= now'
      /\ \A j \in Jobs : job[j].machine \in Machines
  BY TimeForward DEF RotationTypeOK, Job
<1>1. \A i \in DOMAIN rotations' : rotations'[i].started <= now'
  BY StartedStep
<1>2. ASSUME NEW j \in Jobs, Counted(j)' PROVE Room(job[j].machine, Day(now))'
  <2>1. PICK m \in Machines, d \in Nat, t \in Nat :
          m = job[j].machine /\ t = now' /\ d = Day(now')
    BY <1>0, DayType
  <2>2. Live(j) /\ job'[j].machine = m /\ (Counted(j) \/ Passes(j))
    BY <1>2, <2>1, CountedBefore
  <2>3. Room(m, Day(now))
    BY <2>1, <2>2, PassingRoom DEF LimitInv, Passes
  <2>4. Room(m, d)
    <3>1. Room(m, Day(t))
      BY <1>0, <2>1, <2>3, RoomLater
    <3> QED BY <2>1, <3>1
  <2>5. CompletedOnDay(m, d)' = CompletedOnDay(m, d)
    <3>1. job'[j].pc # "idle"
      BY <1>2 DEF Counted
    <3> QED BY <2>1, <2>2, <3>1, DayKept
  <2>6. Room(m, d)'
    BY <2>4, <2>5 DEF Room
  <2> QED BY <2>1, <2>2, <2>6
<1>3. ASSUME NEW j \in Jobs, Enrolled(j)'
      PROVE  Room(job[j].machine, Day(rotations[job[j].row].started))'
  <2>1. Keeps(j) \/ Enrols(j)
    BY <1>3, HistoryBefore DEF Enrolled
  <2>2. PICK m \in Machines, d \in Nat :
          /\ m = job[j].machine
          /\ d = IF Keeps(j) THEN Day(rotations[job[j].row].started) ELSE Day(now)
    <3>1. Keeps(j) => Day(rotations[job[j].row].started) \in Nat
      BY RowTypes, DayType DEF RowsAreOwned, Keeps
    <3> QED BY <1>0, <3>1, DayType
  <2>3. Live(j) /\ job'[j].machine = m /\ job'[j].auto = job[j].auto
    BY <2>1, <2>2 DEF Keeps, Enrols, InHistory, Live
  <2>4. Room(m, d) /\ rotations'[job'[j].row].started \in Nat
                   /\ d = Day(rotations'[job'[j].row].started)
    <3>1. CASE Keeps(j)
      <4>1. /\ rotations'[job[j].row] = rotations[job[j].row]
            /\ rotations[job[j].row].started \in Nat /\ job'[j].row = job[j].row
        BY <1>3, <3>1, KeptRow, RowTypes DEF Enrolled, Keeps
      <4>2. Enrolled(j)
        BY <1>3, <2>3, <3>1 DEF Enrolled, Keeps
      <4> QED BY <2>2, <3>1, <4>1, <4>2 DEF LimitInv
    <3>2. CASE ~Keeps(j)
      <4>1. Enrols(j)
        BY <2>1, <3>2
      <4>2. rotations'[job'[j].row].started = now
        BY <4>1, InsertedRow DEF Enrols
      <4>3. Counted(j)
        BY <1>3, <2>3, <4>1 DEF Enrols, Enrolled, Counted
      <4> QED BY <1>0, <2>2, <3>2, <4>2, <4>3 DEF LimitInv
    <3> QED BY <3>1, <3>2
  <2>5. CompletedOnDay(m, d)' = CompletedOnDay(m, d)
    <3>1. job'[j].pc # "idle"
      BY <1>3 DEF Enrolled, InHistory
    <3> QED BY <2>2, <2>3, <3>1, DayKept
  <2>6. Room(m, d)'
    BY <2>4, <2>5 DEF Room
  <2> QED BY <2>3, <2>4, <2>6
<1>4. RowsAreNewest'
  BY NewestStep DEF LimitInv
<1>5. DailyLimit'
  BY DailyStep
<1> QED BY <1>1, <1>2, <1>3, <1>4, <1>5 DEF LimitInv

LEMMA LimitInit == RotationInit => LimitInv
<1> SUFFICES ASSUME RotationInit PROVE LimitInv
  OBVIOUS
<1>1. \A j \in Jobs : job[j].pc = "idle"
  BY DEF RotationInit, IdleJob
<1>2. DOMAIN rotations = {}
  BY DEF RotationInit
<1> QED BY <1>1, <1>2 DEF LimitInv, RowsAreNewest, DailyLimit, Counted, Enrolled, InHistory

(***************************************************************************)
(* However checks, rotations, crashes and cancelled requests interleave,   *)
(* an automatic rotation is completed only as one of the first of its day, *)
(* up to the limit, although the limit is read once and early.             *)
(***************************************************************************)
THEOREM LimitCorrect == Spec => []DailyLimit
<1>1. LimitInv => DailyLimit
  BY DEF LimitInv
<1> QED
  BY <1>1, LimitInit, LimitStep, RowsCorrect, LockInvariant, RotationTypeCorrect, PTL DEF Spec

-----------------------------------------------------------------------------
(* Completed rotations were carried out by the provider. *)

Waiting == {"insert", "change", "poll"}
Arrived == {"record", "post", "posting", "finish"}

(* What it has done is never undone, and an address it replaces is counted. *)
LEMMA PanelForward ==
  ASSUME RotationTypeOK, [Next]_vars, NEW m \in Machines
  PROVE  /\ panel[m].done \in Nat /\ panel'[m].done \in Nat
         /\ panel'[m].done >= panel[m].done
         /\ panel'[m].ip = panel[m].ip \/ panel'[m].done > panel[m].done
<1>0. panel \in [Machines -> Panel] /\ panel[m] \in Panel /\ panel[m].done \in Nat
  BY DEF RotationTypeOK, Panel
<1>2. ASSUME NEW j \in Jobs, AskChange(j)
      PROVE  panel'[m].done = panel[m].done /\ panel'[m].ip = panel[m].ip
  <2> DEFINE n == job[j].machine
             r == [panel[n] EXCEPT !.asked = @ + 1]
  <2>1. n \in Machines
    BY DEF RotationTypeOK, Job
  <2>2. r.ip = panel[n].ip /\ r.done = panel[n].done
    BY <1>0, <2>1 DEF Panel
  <2>3. panel' = panel \/ panel' = [panel EXCEPT ![n] = r]
    BY <1>0, <1>2 DEF AskChange
  <2> HIDE DEF n, r
  <2> QED BY <1>0, <2>1, <2>2, <2>3
<1>3. ASSUME NEW n \in Machines, NEW ip \in IPs, PanelAssign(n, ip)
      PROVE  /\ panel'[m].done \in Nat /\ panel'[m].done >= panel[m].done
             /\ panel'[m].ip = panel[m].ip \/ panel'[m].done > panel[m].done
  <2>1. CASE m = n
    BY <1>0, <1>3, <2>1 DEF PanelAssign, Panel
  <2>2. CASE m # n
    BY <1>0, <1>3, <2>2 DEF PanelAssign
  <2> QED BY <2>1, <2>2
<1>4. ASSUME NEW j \in Jobs, JobStep(j), ~AskChange(j) PROVE UNCHANGED panel
  BY <1>4
  DEF JobStep, LoadMachine, CountLimit, Confirm, PostCheck, JobCheckLoad, JobCheckStore,
      ListOld, InsertRow, Poll, RecordAddress, FinishRotation, rotationVars
<1>5. ASSUME NEW j \in Jobs,
             CancelRequest(j) \/ \E n \in Machines : EnterManual(j, n) \/ EnterAuto(j, n)
      PROVE  UNCHANGED panel
  BY <1>5 DEF EnterManual, EnterAuto, Enter, CancelRequest
<1>6. ASSUME NEW c \in Callers, OtherCheck(c) PROVE UNCHANGED panel
  BY <1>6 DEF OtherCheck, rotationVars
<1>7. ASSUME NEW n \in Machines, AutoBusy(n) \/ OtherWrite(n) PROVE UNCHANGED panel
  BY <1>7, OtherWriteKeeps DEF AutoBusy, rotationVars
<1>8. CASE Crash \/ Tick \/ UNCHANGED vars
  BY <1>0, <1>8 DEF Crash, Tick, vars
<1>9. UNCHANGED panel => /\ panel'[m].done = panel[m].done
                         /\ panel'[m].ip = panel[m].ip
  OBVIOUS
<1> QED BY <1>0, <1>2, <1>3, <1>4, <1>5, <1>6, <1>7, <1>8, <1>9 DEF Next

(***************************************************************************)
(* A rotation between its insertion and its end keeps its machine and the  *)
(* address it replaces, and gets past the polls only on another address.   *)
(***************************************************************************)
OnItsWay(j) ==
  /\ job'[j].machine = job[j].machine /\ job'[j].old = job[j].old
  /\ \/ job[j].pc \in Waiting /\ job'[j].pc \in Waiting
     \/ job[j].pc \in Arrived /\ job'[j].pc \in Arrived
     \/ /\ job[j].pc \in Waiting /\ job'[j].pc \in Arrived
        /\ panel[job[j].machine].ip # job[j].old

LEMMA OnItsWayStep ==
  ASSUME RotationTypeOK, NEW j \in Jobs, JobStep(j), job[j].pc \in Waiting \union Arrived,
         job'[j].pc # "idle"
  PROVE  OnItsWay(j)
<1>0. job \in [Jobs -> Job] /\ job[j] \in Job
  BY DEF RotationTypeOK
<1>1. ~Return(j) /\ ~FailRotation(j)
  BY <1>0 DEF Return, FailRotation, IdleJob
<1>2. {"poll", "post", "posting", "finish"} \subseteq PCs
  BY DEF PCs
<1>3. \A pc \in PCs : Go(j, pc) => /\ job'[j].pc = pc /\ job'[j].machine = job[j].machine
                                   /\ job'[j].old = job[j].old
  BY <1>0 DEF Go, Job
<1>4. /\ ~LoadMachine(j) /\ ~CountLimit(j) /\ ~ListOld(j) /\ ~FinishRotation(j)
      /\ \A score \in Scores : ~Confirm(j, score)
  BY <1>1 DEF LoadMachine, CountLimit, ListOld, FinishRotation, Confirm, Waiting, Arrived
<1>5. ASSUME NEW score \in Scores, PostCheck(j, score) PROVE OnItsWay(j)
  BY <1>2, <1>3, <1>5 DEF PostCheck, OnItsWay, Arrived
<1>6. CASE JobCheckLoad(j)
  BY <1>6 DEF JobCheckLoad, rotationVars, OnItsWay
<1>7. CASE JobCheckStore(j)
  BY <1>1, <1>2, <1>3, <1>7 DEF JobCheckStore, OnItsWay, Waiting, Arrived
<1>8. CASE InsertRow(j)
  <2>1. job[j].pc = "insert" /\ job' = [job EXCEPT ![j].pc = "change", ![j].row = Len(rotations) + 1]
    BY <1>1, <1>8 DEF InsertRow
  <2>2. job'[j].pc = "change" /\ job'[j].machine = job[j].machine /\ job'[j].old = job[j].old
    BY <1>0, <2>1 DEF Job
  <2> QED BY <2>1, <2>2 DEF OnItsWay, Waiting
<1>9. CASE AskChange(j)
  BY <1>1, <1>2, <1>3, <1>9 DEF AskChange, OnItsWay, Waiting
<1>10. CASE Poll(j)
  <2> DEFINE ip == panel[job[j].machine].ip
  <2>1. /\ job[j].pc = "poll" /\ ip # job[j].old
        /\ job' = [job EXCEPT ![j].pc = "record", ![j].new = ip]
    BY <1>1, <1>10 DEF Poll
  <2>2. job'[j].pc = "record" /\ job'[j].machine = job[j].machine /\ job'[j].old = job[j].old
    BY <1>0, <2>1 DEF Job
  <2> QED BY <2>1, <2>2 DEF OnItsWay, Waiting, Arrived
<1>11. CASE RecordAddress(j)
  BY <1>2, <1>3, <1>11 DEF RecordAddress, OnItsWay, Arrived
<1> QED BY <1>4, <1>5, <1>6, <1>7, <1>8, <1>9, <1>10, <1>11 DEF JobStep

LEMMA StaysOnItsWay ==
  ASSUME RotationTypeOK, [Next]_vars, NEW j \in Jobs, job[j].pc \in Waiting \union Arrived,
         job'[j].pc # "idle"
  PROVE  OnItsWay(j)
<1>1. Live(j)
  BY DEF Live, Waiting, Arrived
<1>2. ~Crash
  BY DEF Crash, IdleJob
<1>3. CASE job'[j] = job[j]
  BY <1>3 DEF OnItsWay
<1>4. CASE CancelRequest(j)
  BY <1>4, CancelKeeps DEF OnItsWay
<1> QED BY <1>1, <1>2, <1>3, <1>4, WhoMoves, OnItsWayStep

(***************************************************************************)
(* CompletedWereCarriedOut is not inductive: a rotation completes long     *)
(* after it saw another address.  While it waits the address it knew is    *)
(* still the provider's or a change has been carried out that no completed *)
(* rotation stands for; when it has arrived, one has been.                 *)
(***************************************************************************)
OneUncounted(m) == Cardinality(CompletedSighted(m)) < panel[m].done

ChangesInv ==
  /\ sighted \subseteq Jobs /\ trusted \subseteq DOMAIN rotations
  /\ \A j \in sighted : job[j].pc \in Waiting \union Arrived
  /\ \A j \in Jobs : InHistory(j) /\ job[j].row \in trusted => j \in sighted
  /\ \A j \in sighted : job[j].pc \in Waiting =>
       OneUncounted(job[j].machine) \/ panel[job[j].machine].ip = job[j].old
  /\ \A j \in sighted : job[j].pc \in Arrived => OneUncounted(job[j].machine)
  /\ CompletedWereCarriedOut

LEMMA NewlyTrusted ==
  ASSUME RotationTypeOK, ChangesInv, [Next]_vars, NoteAddresses, NEW i \in trusted' \ trusted
  PROVE  \E k \in sighted : /\ k \in sighted' /\ Enrols(k) /\ InHistory(k)'
                            /\ job'[k].row = i /\ i = Len(rotations) + 1
<1>1. PICK k \in sighted : job[k].pc = "insert" /\ job'[k].pc = "change" /\ job'[k].row = i
  BY DEF NoteAddresses
<1>2. k \in Jobs /\ InHistory(k)' /\ ~InHistory(k)
  BY <1>1 DEF ChangesInv, InHistory
<1>3. Enrols(k)
  BY <1>2, HistoryBefore DEF Keeps
<1> QED BY <1>1, <1>2, <1>3 DEF Enrols, NoteAddresses

LEMMA SightedFinite ==
  ASSUME RotationTypeOK, trusted \subseteq DOMAIN rotations, NEW m \in Machines
  PROVE  IsFiniteSet(CompletedSighted(m)) /\ Cardinality(CompletedSighted(m)) \in Nat
<1>1. CompletedSighted(m) \subseteq DOMAIN rotations
  BY DEF CompletedSighted
<1> QED BY <1>1, RowsFinite, FS_CardinalityType

(* Only the end of the last step closes a row as completed. *)
LEMMA CompletingStep ==
  ASSUME RotationTypeOK, RowsAreOwned, NEW k \in Jobs, JobStep(k), InHistory(k),
         rotations'[job[k].row].status = "completed"
  PROVE  job[k].pc = "finish"
<1>1. /\ rotations \in Seq(RotationRow) /\ job[k].row \in DOMAIN rotations
      /\ rotations[job[k].row].status = "running"
  BY OpenRow, HistoryType DEF RotationTypeOK
<1>2. ~UNCHANGED rotations
  BY <1>1
<1>3. ~FailRotation(k)
  <2>1. rotations[job[k].row] \in RotationRow
    BY <1>1
  <2>2. rotations' # [rotations EXCEPT ![job[k].row].status = "failed"]
    BY <1>1, <2>1 DEF RotationRow
  <2> QED BY <2>2 DEF FailRotation
<1>4. ~InsertRow(k)
  BY DEF InsertRow, InHistory
<1> QED
  BY <1>2, <1>3, <1>4
  DEF JobStep, LoadMachine, CountLimit, Confirm, PostCheck, JobCheckLoad, JobCheckStore,
      ListOld, AskChange, Poll, RecordAddress, FinishRotation, rotationVars

(* What counts changes only by the rotation that completes. *)
CompletesSighted(k, m) ==
  /\ k \in sighted /\ job[k].pc = "finish" /\ job[k].machine = m /\ Returns(k)
  /\ CompletedSighted(m)' = CompletedSighted(m) \union {job[k].row}

LEMMA CompletedStep ==
  ASSUME RotationTypeOK, RowsAreOwned, ChangesInv, [Next]_vars, NoteAddresses,
         NEW m \in Machines
  PROVE  \/ CompletedSighted(m)' = CompletedSighted(m)
         \/ \E k \in Jobs : CompletesSighted(k, m)
<1>0. trusted \subseteq DOMAIN rotations /\ trusted \subseteq trusted'
  BY DEF ChangesInv, NoteAddresses
<1> DEFINE Done(i) == rotations[i].machine = m /\ rotations[i].status = "completed"
<1>1. \A i \in trusted' \ trusted : ~Done(i)'
  <2> SUFFICES ASSUME NEW i \in trusted' \ trusted PROVE rotations'[i].status = "running"
    OBVIOUS
  <2>1. PICK k \in Jobs : Enrols(k) /\ i = Len(rotations) + 1
    BY NewlyTrusted DEF ChangesInv
  <2> QED BY <2>1, InsertedRow DEF Enrols
<1>2. CASE \A i \in trusted : rotations'[i] = rotations[i]
  BY <1>0, <1>1, <1>2 DEF CompletedSighted
<1>3. ASSUME NEW k \in Jobs, InHistory(k), JobStep(k), Returns(k), Closes(k)
      PROVE  CompletedSighted(m)' = CompletedSighted(m) \/ CompletesSighted(k, m)
  <2> SUFFICES ASSUME NEW r, r = job[k].row
               PROVE  CompletedSighted(m)' = CompletedSighted(m) \/ CompletesSighted(k, m)
    OBVIOUS
  <2>1. /\ r \in DOMAIN rotations /\ rotations[r].machine = job[k].machine
        /\ rotations[r].status = "running"
    BY <1>3, OpenRow, HistoryType
  <2>2. /\ \A i \in DOMAIN rotations \ {r} : rotations'[i] = rotations[i]
        /\ rotations'[r].machine = job[k].machine
    BY <1>3, <2>1, CloseKeeps
  <2>3. rotations'[r].status = "completed" => job[k].pc = "finish"
    BY <1>3, CompletingStep
  <2>4. r \in trusted => k \in sighted
    BY <1>3 DEF ChangesInv
  <2>5. ~Done(r) /\ \A i \in trusted \ {r} : Done(i)' <=> Done(i)
    BY <1>0, <2>1, <2>2
  <2>6. /\ CompletedSighted(m) = {i \in trusted : Done(i)}
        /\ CompletedSighted(m)' = {i \in trusted' : Done(i)'}
    BY DEF CompletedSighted
  <2>7. CASE r \in trusted /\ Done(r)'
    <3>1. CompletedSighted(m)' = CompletedSighted(m) \union {r}
      <4> HIDE DEF Done
      <4> QED BY <1>0, <1>1, <2>5, <2>6, <2>7
    <3>2. job[k].machine = m /\ job[k].pc = "finish" /\ k \in sighted
      BY <2>2, <2>3, <2>4, <2>7
    <3> QED BY <1>3, <3>1, <3>2 DEF CompletesSighted
  <2>8. CASE ~(r \in trusted /\ Done(r)')
    <3> HIDE DEF Done
    <3> QED BY <1>0, <1>1, <2>5, <2>6, <2>8
  <2> QED BY <2>7, <2>8
<1>4. ASSUME NEW k \in Jobs, Inserts(k) PROVE \A i \in trusted : rotations'[i] = rotations[i]
  BY <1>0, <1>4, InsertKeeps
<1> QED BY <1>2, <1>3, <1>4, RowsStep

(* While a rotation goes on, no other of its machine completes. *)
LEMMA CompletedKept ==
  ASSUME RotationTypeOK, LockInv, RowsAreOwned, ChangesInv, [Next]_vars, NoteAddresses,
         NEW j \in Jobs, Live(j), job'[j].pc # "idle",
         NEW m \in Machines, job[j].machine = m
  PROVE  CompletedSighted(m)' = CompletedSighted(m)
<1>1. ASSUME NEW k \in Jobs, CompletesSighted(k, m) PROVE FALSE
  <2>1. Live(k) /\ job[k].machine = m /\ Returns(k)
    BY <1>1 DEF CompletesSighted, Returns
  <2>2. k = j
    BY <2>1 DEF LockInv, OneRotationPerMachine
  <2>3. job'[k].pc = "idle"
    BY <2>1 DEF Returns, Return, IdleJob, RotationTypeOK
  <2> QED BY <2>2, <2>3
<1> QED BY <1>1, CompletedStep

LEMMA TrustedStep ==
  ASSUME RotationTypeOK, RowsAreOwned, RowsAreOwned', ChangesInv, [Next]_vars, NoteAddresses
  PROVE  /\ sighted' \subseteq Jobs /\ trusted' \subseteq DOMAIN rotations'
         /\ \A j \in Jobs : InHistory(j)' /\ job'[j].row \in trusted' => j \in sighted'
<1>1. sighted' \subseteq Jobs
  BY DEF NoteAddresses
<1>2. trusted' \subseteq DOMAIN rotations'
  <2> SUFFICES ASSUME NEW i \in trusted' PROVE i \in DOMAIN rotations'
    OBVIOUS
  <2>1. CASE i \in trusted
    BY <2>1, RowsStay DEF ChangesInv
  <2>2. CASE i \notin trusted
    <3>1. PICK k \in Jobs : Inserts(k) /\ i = Len(rotations) + 1
      BY <2>2, NewlyTrusted DEF ChangesInv, Enrols
    <3> QED BY <3>1, InsertKeeps
  <2> QED BY <2>1, <2>2
<1>3. ASSUME NEW j \in Jobs, InHistory(j)', job'[j].row \in trusted' PROVE j \in sighted'
  <2>1. CASE job'[j].row \in trusted
    <3>1. job'[j].row \in DOMAIN rotations
      BY <2>1 DEF ChangesInv
    <3>2. ~Enrols(j)
      BY <3>1, InsertKeeps DEF Enrols
    <3>3. Keeps(j)
      BY <1>3, <3>2, HistoryBefore
    <3>4. j \in sighted /\ job'[j].pc # "idle"
      BY <1>3, <2>1, <3>3 DEF ChangesInv, Keeps, InHistory
    <3> QED BY <3>4 DEF NoteAddresses
  <2>2. CASE job'[j].row \notin trusted
    <3>1. PICK k \in sighted : /\ k \in sighted' /\ Enrols(k) /\ InHistory(k)'
                               /\ job'[k].row = job'[j].row /\ job'[k].row = Len(rotations) + 1
      BY <1>3, <2>2, NewlyTrusted
    <3>2. k \in Jobs
      BY <1>1, <3>1
    <3>3. ~Keeps(j)
      <4> SUFFICES ASSUME Keeps(j) PROVE FALSE
        OBVIOUS
      <4>1. job'[j].row \in DOMAIN rotations
        BY <1>3, KeptRow DEF Keeps
      <4>2. DOMAIN rotations = 1..Len(rotations) /\ Len(rotations) \in Nat
        BY HistoryType
      <4> QED BY <3>1, <4>1, <4>2
    <3>4. Enrols(j)
      BY <1>3, <3>3, HistoryBefore
    <3>5. j # k => job'[k] = job[k]
      BY <3>2, <3>4 DEF Enrols, Moves, RotationTypeOK
    <3>6. job'[k] # job[k]
      BY <3>1 DEF Enrols, InHistory
    <3> QED BY <3>1, <3>5, <3>6
  <2> QED BY <2>1, <2>2
<1> QED BY <1>1, <1>2, <1>3

(* A rotation that learns the provider's address learns the one it has by then. *)
LEMMA SightsStep ==
  ASSUME RotationTypeOK, [Next]_vars, NEW j \in Jobs, Sights(j)
  PROVE  Live(j) /\ job'[j].machine = job[j].machine /\ UNCHANGED panel
<1>0. job \in [Jobs -> Job]
  BY DEF RotationTypeOK
<1>1. job[j].pc = "list" /\ job'[j].pc = "insert"
  BY DEF Sights
<1>2. JobStep(j) /\ Live(j)
  BY <1>1, OwnStep, CancelKeeps
<1>3. ListOld(j)
  BY <1>1, <1>2
  DEF JobStep, LoadMachine, CountLimit, Confirm, PostCheck, JobCheckLoad, JobCheckStore,
      InsertRow, AskChange, Poll, RecordAddress, FinishRotation, rotationVars
<1>4. UNCHANGED panel
  BY <1>3 DEF ListOld
<1>5. job'[j].machine = job[j].machine
  BY <1>0, <1>3 DEF ListOld, Go, Return, IdleJob, Job
<1> QED BY <1>2, <1>4, <1>5

(* What a rotation that is sighted after the step stands on. *)
Grounded(j) ==
  /\ job[j].pc \in Waiting \union Arrived
  /\ job[j].pc \in Waiting =>
       OneUncounted(job[j].machine) \/ panel[job[j].machine].ip = job[j].old
  /\ job[j].pc \in Arrived => OneUncounted(job[j].machine)

LEMMA GroundedStep ==
  ASSUME RotationTypeOK, LockInv, RowsAreOwned, ChangesInv, [Next]_vars, NoteAddresses,
         NEW j \in sighted'
  PROVE  Grounded(j)'
<1>0. j \in Jobs /\ job'[j].pc # "idle" /\ (j \in sighted \/ Sights(j))
  BY DEF NoteAddresses
<1> DEFINE m == job[j].machine
<1>1. m \in Machines
  BY <1>0 DEF RotationTypeOK, Job
<1>2. CASE j \in sighted
  <2>1. job[j].pc \in Waiting \union Arrived
    BY <1>2 DEF ChangesInv
  <2>2. OnItsWay(j)
    BY <1>0, <2>1, StaysOnItsWay
  <2>3. SUFFICES ASSUME NEW n \in Machines, n = m PROVE Grounded(j)'
    BY <1>1
  <2>4. CompletedSighted(n)' = CompletedSighted(n)
    <3>1. Live(j)
      BY <2>1 DEF Live, Waiting, Arrived
    <3> QED BY <1>0, <2>3, <3>1, CompletedKept
  <2>5. /\ Cardinality(CompletedSighted(n)) <= panel[n].done
        /\ Cardinality(CompletedSighted(n)) \in Nat
        /\ panel[n].done \in Nat /\ panel'[n].done \in Nat /\ panel'[n].done >= panel[n].done
        /\ panel'[n].ip = panel[n].ip \/ panel'[n].done > panel[n].done
    BY SightedFinite, PanelForward DEF ChangesInv, CompletedWereCarriedOut
  <2>6. OneUncounted(n) => OneUncounted(n)'
    BY <2>4, <2>5 DEF OneUncounted
  <2>7. panel'[n].ip # panel[n].ip => OneUncounted(n)'
    BY <2>4, <2>5 DEF OneUncounted
  <2>8. /\ job[j].pc \in Waiting => OneUncounted(n) \/ panel[n].ip = job[j].old
        /\ job[j].pc \in Arrived => OneUncounted(n)
    BY <1>2, <2>3 DEF ChangesInv
  <2>9. /\ job'[j].machine = n /\ job'[j].old = job[j].old
        /\ job'[j].pc \in Waiting \union Arrived
        /\ job'[j].pc \in Waiting => job[j].pc \in Waiting
        /\ job'[j].pc \in Arrived =>
             job[j].pc \in Arrived \/ (job[j].pc \in Waiting /\ panel[n].ip # job[j].old)
    BY <2>2, <2>3 DEF OnItsWay, Waiting, Arrived
  <2> QED BY <2>6, <2>7, <2>8, <2>9 DEF Grounded
<1>3. CASE Sights(j)
  <2>1. job'[j].machine = job[j].machine /\ panel' = panel
    BY <1>0, <1>3, SightsStep
  <2> QED BY <1>3, <2>1 DEF Grounded, Sights, Waiting, Arrived
<1> QED BY <1>0, <1>2, <1>3

LEMMA CarriedOutStep ==
  ASSUME RotationTypeOK, RowsAreOwned, ChangesInv, [Next]_vars, NoteAddresses
  PROVE  CompletedWereCarriedOut'
<1> SUFFICES ASSUME NEW m \in Machines
             PROVE  Cardinality(CompletedSighted(m)') <= panel'[m].done
  BY DEF CompletedWereCarriedOut
<1>1. /\ panel[m].done \in Nat /\ panel'[m].done \in Nat /\ panel'[m].done >= panel[m].done
      /\ Cardinality(CompletedSighted(m)) <= panel[m].done
      /\ IsFiniteSet(CompletedSighted(m)) /\ Cardinality(CompletedSighted(m)) \in Nat
  BY PanelForward, SightedFinite DEF ChangesInv, CompletedWereCarriedOut
<1>2. CASE CompletedSighted(m)' = CompletedSighted(m)
  BY <1>1, <1>2
<1>3. ASSUME NEW k \in Jobs, CompletesSighted(k, m)
      PROVE  Cardinality(CompletedSighted(m)') <= panel'[m].done
  <2>1. Cardinality(CompletedSighted(m)) < panel[m].done
    BY <1>3 DEF CompletesSighted, ChangesInv, OneUncounted, Arrived
  <2>2. PICK i : CompletedSighted(m)' = CompletedSighted(m) \union {i}
    BY <1>3 DEF CompletesSighted
  <2>3. /\ IsFiniteSet(CompletedSighted(m) \union {i})
        /\ Cardinality(CompletedSighted(m) \union {i})
             = IF i \in CompletedSighted(m) THEN Cardinality(CompletedSighted(m))
               ELSE Cardinality(CompletedSighted(m)) + 1
    BY <1>1, FS_AddElement
  <2> QED BY <1>1, <2>1, <2>2, <2>3
<1> QED BY <1>2, <1>3, CompletedStep

LEMMA ChangesStep ==
  ASSUME RotationTypeOK, LockInv, RowsAreOwned, RowsAreOwned', ChangesInv,
         [HistoricNext]_historicVars
  PROVE  ChangesInv'
<1>1. CASE HistoricNext
  <2>1. [Next]_vars /\ NoteAddresses
    BY <1>1 DEF HistoricNext
  <2>2. \A j \in sighted' : Grounded(j)'
    BY <2>1, GroundedStep
  <2> QED BY <2>1, <2>2, TrustedStep, CarriedOutStep DEF ChangesInv, Grounded
<1>2. CASE UNCHANGED historicVars
  BY <1>2
  DEF historicVars, vars, ChangesInv, CompletedWereCarriedOut, CompletedSighted, OneUncounted,
      InHistory
<1> QED BY <1>1, <1>2

LEMMA ChangesInit == HistoricInit => ChangesInv
<1> SUFFICES ASSUME HistoricInit PROVE ChangesInv
  OBVIOUS
<1>1. \A m \in Machines : CompletedSighted(m) = {}
  BY DEF HistoricInit, CompletedSighted
<1>2. \A m \in Machines : panel[m].done = 0
  BY DEF HistoricInit, RotationInit
<1>3. CompletedWereCarriedOut
  <2>1. Cardinality({}) = 0 /\ 0 <= 0
    BY FS_EmptySet
  <2> QED BY <1>1, <1>2, <2>1 DEF CompletedWereCarriedOut
<1> QED BY <1>3 DEF ChangesInv, HistoricInit

(***************************************************************************)
(* However late the provider carries a change out, and whichever rotation  *)
(* takes it for its own: the completed rotations of a machine that knew    *)
(* the address they replaced are no more than the changes carried out.     *)
(***************************************************************************)
THEOREM ChangesCorrect == HistoricSpec => []CompletedWereCarriedOut
<1>1. ChangesInv => CompletedWereCarriedOut
  BY DEF ChangesInv
<1> QED
  BY <1>1, ChangesInit, ChangesStep, HistoricIsSpec, RotationTypeCorrect, LockInvariant,
     RowsCorrect, PTL DEF HistoricSpec
=============================================================================
