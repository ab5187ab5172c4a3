--------------------------- MODULE RotationProofs ---------------------------
(* Theorems about Rotation, for every number of machines, jobs and checks. *)
EXTENDS RotationEvidence, HealthProofs

-----------------------------------------------------------------------------
(* What a step can do to the jobs and the lock. *)

(* j goes on, with its machine and its trigger. *)
Moves(j) ==
  /\ Live(j) /\ lock' = lock
  /\ \E r \in Job : /\ r.pc # "idle" /\ r.machine = job[j].machine /\ r.auto = job[j].auto
                    /\ job' = [job EXCEPT ![j] = r]

Returns(j) == Live(j) /\ Return(j)

LEMMA GoMoves ==
  ASSUME RotationTypeOK, NEW j \in Jobs, NEW pc \in PCs \ {"idle"}, Live(j), Go(j, pc)
  PROVE  Moves(j)
<1>1. [job[j] EXCEPT !.pc = pc] \in Job
  BY DEF RotationTypeOK, Job
<1>2. job' = [job EXCEPT ![j] = [job[j] EXCEPT !.pc = pc]]
  BY DEF Go, RotationTypeOK
<1>3. [job[j] EXCEPT !.pc = pc].pc # "idle"
      /\ [job[j] EXCEPT !.pc = pc].machine = job[j].machine
      /\ [job[j] EXCEPT !.pc = pc].auto = job[j].auto
  BY DEF RotationTypeOK, Job
<1> QED BY <1>1, <1>2, <1>3 DEF Moves, Go

LEMMA JobStepClass ==
  ASSUME RotationTypeOK, NEW j \in Jobs, JobStep(j)
  PROVE  Moves(j) \/ Returns(j) \/ UNCHANGED <<job, lock>>
<1>0. /\ job[j] \in Job /\ job[j].machine \in Machines /\ job \in [Jobs -> Job]
      /\ machine \in [Machines -> Row] /\ panel \in [Machines -> Panel]
      /\ rotations \in Seq(RotationRow)
  BY DEF RotationTypeOK, HealthTypeOK, Job
<1>1. CASE LoadMachine(j)
  <2>1. Live(j) /\ (Return(j) \/ ~Return(j))
    BY <1>1 DEF LoadMachine, Live
  <2>2. CASE Return(j)
    BY <2>1, <2>2 DEF Returns
  <2>3. CASE ~Return(j)
    <3> DEFINE r == [job[j] EXCEPT !.pc = IF job[j].auto THEN "limit" ELSE "list",
                                   !.old = machine[job[j].machine].ip]
    <3>1. r \in Job /\ r.pc # "idle" /\ r.machine = job[j].machine /\ r.auto = job[j].auto
      BY <1>0 DEF Job, PCs, Row
    <3>2. job' = [job EXCEPT ![j] = r] /\ lock' = lock
      BY <1>0, <1>1, <2>3 DEF LoadMachine
    <3> QED BY <2>1, <3>1, <3>2 DEF Moves
  <2> QED BY <2>2, <2>3
<1>2. CASE CountLimit(j)
  BY <1>2, GoMoves DEF CountLimit, Live, Returns, PCs
<1>3. ASSUME NEW score \in Scores, Confirm(j, score) PROVE Moves(j) \/ Returns(j)
  BY <1>3, GoMoves DEF Confirm, Live, Returns, PCs
<1>4. ASSUME NEW score \in Scores, PostCheck(j, score) PROVE Moves(j) \/ Returns(j)
  BY <1>4, GoMoves DEF PostCheck, Live, Returns, PCs
<1>5. CASE JobCheckLoad(j)
  BY <1>5 DEF JobCheckLoad, rotationVars
<1>6. CASE JobCheckStore(j)
  BY <1>6, GoMoves DEF JobCheckStore, Live, Returns, PCs
<1>7. CASE ListOld(j)
  <2>1. CASE Return(j) \/ Go(j, "insert")
    BY <1>7, <2>1, GoMoves DEF ListOld, Live, Returns, PCs
  <2>2. CASE ~(Return(j) \/ Go(j, "insert"))
    <3> DEFINE r == [job[j] EXCEPT !.pc = "insert", !.old = panel[job[j].machine].ip]
    <3>1. r \in Job /\ r.pc # "idle" /\ r.machine = job[j].machine /\ r.auto = job[j].auto
      BY <1>0 DEF Job, PCs, Panel
    <3>2. job' = [job EXCEPT ![j] = r] /\ lock' = lock
      BY <1>0, <1>7, <2>2 DEF ListOld
    <3>3. Live(j)
      BY <1>7 DEF ListOld, Live
    <3> QED BY <3>1, <3>2, <3>3 DEF Moves
  <2> QED BY <2>1, <2>2
<1>8. CASE InsertRow(j)
  <2>1. CASE Return(j)
    BY <1>8, <2>1 DEF InsertRow, Live, Returns
  <2>2. CASE ~Return(j)
    <3> DEFINE r == [job[j] EXCEPT !.pc = "change", !.row = Len(rotations) + 1]
    <3>1. Len(rotations) + 1 \in Nat
      BY <1>0
    <3>2. r \in Job /\ r.pc # "idle" /\ r.machine = job[j].machine /\ r.auto = job[j].auto
      BY <1>0, <3>1 DEF Job, PCs
    <3>3. job' = [job EXCEPT ![j] = r] /\ lock' = lock
      BY <1>0, <1>8, <2>2 DEF InsertRow
    <3>4. Live(j)
      BY <1>8 DEF InsertRow, Live
    <3> QED BY <3>2, <3>3, <3>4 DEF Moves
  <2> QED BY <2>1, <2>2
<1>9. CASE AskChange(j)
  BY <1>9, GoMoves DEF AskChange, FailRotation, Live, Returns, PCs
<1>10. CASE Poll(j)
  <2>1. CASE Return(j)
    BY <1>10, <2>1 DEF Poll, Live, Returns
  <2>2. CASE ~Return(j)
    <3> DEFINE r == [job[j] EXCEPT !.pc = "record", !.new = panel[job[j].machine].ip]
    <3>1. r \in Job /\ r.pc # "idle" /\ r.machine = job[j].machine /\ r.auto = job[j].auto
      BY <1>0 DEF Job, PCs, Panel
    <3>2. job' = [job EXCEPT ![j] = r] /\ lock' = lock
      BY <1>0, <1>10, <2>2 DEF Poll, FailRotation
    <3>3. Live(j)
      BY <1>10 DEF Poll, Live
    <3> QED BY <3>1, <3>2, <3>3 DEF Moves
  <2> QED BY <2>1, <2>2
<1>11. CASE RecordAddress(j)
  BY <1>11, GoMoves DEF RecordAddress, Live, PCs
<1>12. CASE FinishRotation(j)
  BY <1>12 DEF FinishRotation, Live, Returns
<1> QED
  BY <1>1, <1>2, <1>3, <1>4, <1>5, <1>6, <1>7, <1>8, <1>9, <1>10, <1>11, <1>12 DEF JobStep

(* The whole of Next: a rotation enters, moves or returns, or none does, or all stop. *)
Crashes == lock' = {} /\ job' = [j \in Jobs |-> IdleJob(job[j].machine)]

LEMMA OtherWriteKeeps == \A m \in Machines : OtherWrite(m) => UNCHANGED rotationVars
  BY DEF OtherWrite, ReportAddress, UpdateMachine

LEMMA NextClass ==
  ASSUME RotationTypeOK, [Next]_vars
  PROVE  \/ \E j \in Jobs, m \in Machines, auto \in BOOLEAN : Enter(j, m, auto)
         \/ \E j \in Jobs : Moves(j) \/ Returns(j)
         \/ Crashes
         \/ UNCHANGED <<job, lock>>
<1>1. ASSUME NEW j \in Jobs, NEW m \in Machines, EnterManual(j, m) \/ EnterAuto(j, m)
      PROVE  Enter(j, m, FALSE) \/ Enter(j, m, TRUE)
  BY <1>1 DEF EnterManual, EnterAuto
<1>2. ASSUME NEW j \in Jobs, CancelRequest(j) PROVE Moves(j)
  <2> DEFINE r == [job[j] EXCEPT !.cancelled = TRUE]
  <2>1. r \in Job /\ r.pc # "idle" /\ r.machine = job[j].machine /\ r.auto = job[j].auto
    BY <1>2 DEF CancelRequest, RotationTypeOK, Job
  <2>2. job' = [job EXCEPT ![j] = r] /\ lock' = lock
    BY <1>2 DEF CancelRequest, RotationTypeOK
  <2> QED BY <1>2, <2>1, <2>2 DEF Moves, CancelRequest, Live
<1>3. ASSUME NEW c \in Callers, OtherCheck(c) PROVE UNCHANGED <<job, lock>>
  BY <1>3 DEF OtherCheck, rotationVars
<1>4. CASE Crash
  BY <1>4 DEF Crash, Crashes
<1>5. CASE Tick
  BY <1>5 DEF Tick
<1>6. ASSUME NEW m \in Machines,
             AutoBusy(m) \/ OtherWrite(m) \/ \E ip \in IPs : PanelAssign(m, ip)
      PROVE  UNCHANGED <<job, lock>>
  BY <1>6, OtherWriteKeeps DEF AutoBusy, PanelAssign, rotationVars
<1> QED BY <1>1, <1>2, <1>3, <1>4, <1>5, <1>6, JobStepClass DEF Next, vars

-----------------------------------------------------------------------------
(* Type correctness, one variable after the other. *)

LEMMA IdleJobType == \A m \in Machines : IdleJob(m) \in Job
<1>1. NoIP \in Address /\ "idle" \in PCs /\ FALSE \in BOOLEAN /\ 0 \in Nat
  BY DEF Address, PCs
<1> QED BY <1>1 DEF IdleJob, Job

LEMMA JobTypeStep ==
  ASSUME RotationTypeOK, [Next]_vars
  PROVE  job' \in [Jobs -> Job] /\ lock' \subseteq Machines
<1>0. job \in [Jobs -> Job] /\ lock \subseteq Machines
      /\ \A j \in Jobs : job[j].machine \in Machines
  BY DEF RotationTypeOK, Job
<1>1. ASSUME NEW j \in Jobs, NEW m \in Machines, NEW auto \in BOOLEAN, Enter(j, m, auto)
      PROVE  job' \in [Jobs -> Job] /\ lock' \subseteq Machines
  <2>1. [IdleJob(m) EXCEPT !.pc = "load", !.auto = auto] \in Job
    <3>1. IdleJob(m) \in Job /\ "load" \in PCs
      BY IdleJobType DEF PCs
    <3> QED BY <3>1 DEF Job
  <2> QED BY <1>0, <1>1, <2>1 DEF Enter
<1>2. ASSUME NEW j \in Jobs, Moves(j) PROVE job' \in [Jobs -> Job] /\ lock' \subseteq Machines
  BY <1>0, <1>2 DEF Moves
<1>3. ASSUME NEW j \in Jobs, Returns(j) PROVE job' \in [Jobs -> Job] /\ lock' \subseteq Machines
  BY <1>0, <1>3, IdleJobType DEF Returns, Return
<1>4. CASE Crashes
  BY <1>0, <1>4, IdleJobType DEF Crashes
<1>5. CASE UNCHANGED <<job, lock>>
  BY <1>0, <1>5
<1> QED BY <1>1, <1>2, <1>3, <1>4, <1>5, NextClass

(* Every step is a step of HealthCheck for the health variables, or one of these. *)
WritesRow ==
  \/ \E j \in Jobs : RecordAddress(j)
  \/ \E m \in Machines, ip \in Address : ReportAddress(m, ip)
  \/ \E m \in Machines, auto \in BOOLEAN : UpdateMachine(m, auto)

LEMMA HealthClass ==
  ASSUME RotationTypeOK, [Next]_vars
  PROVE  \/ [HealthNext]_healthVars
         \/ WritesRow
         \/ (\E j \in Jobs : CancelRequest(j)) \/ Crash
<1>0. Jobs \subseteq Callers
  BY RotationConstants
<1>1. ASSUME NEW j \in Jobs, JobStep(j) PROVE [HealthNext]_healthVars \/ RecordAddress(j)
  <2>1. /\ j \in Callers /\ job[j].machine \in Machines
    BY <1>0 DEF RotationTypeOK, Job
  <2> QED
    BY <1>1, <2>1
    DEF JobStep, LoadMachine, CountLimit, Confirm, PostCheck, JobCheckLoad, JobCheckStore,
        ListOld, InsertRow, AskChange, Poll, FinishRotation, HealthNext, healthVars
<1>2. ASSUME NEW j \in Jobs, NEW m \in Machines, EnterManual(j, m) \/ EnterAuto(j, m)
      PROVE  [HealthNext]_healthVars
  BY <1>2 DEF EnterManual, EnterAuto, HealthNext
<1>3. ASSUME NEW c \in Callers, OtherCheck(c) PROVE HealthNext
  BY <1>3 DEF OtherCheck, HealthNext
<1>4. ASSUME NEW m \in Machines, AutoBusy(m) \/ \E ip \in IPs : PanelAssign(m, ip)
      PROVE  [HealthNext]_healthVars
  BY <1>4 DEF AutoBusy, PanelAssign, HealthNext
<1>5. ASSUME NEW m \in Machines, OtherWrite(m) PROVE [HealthNext]_healthVars \/ WritesRow
  BY <1>5 DEF OtherWrite, WritesRow, HealthNext
<1>6. CASE Tick \/ UNCHANGED vars
  BY <1>6 DEF Tick, vars, healthVars
<1> QED BY <1>1, <1>2, <1>3, <1>4, <1>5, <1>6 DEF Next, WritesRow

(* The other writers of a row set whole columns of it, to values of their types. *)
LEMMA WrittenRow ==
  ASSUME RotationTypeOK, WritesRow
  PROVE  /\ UNCHANGED <<check, spawned>>
         /\ \A m \in Machines :
              /\ machine'[m] \in Row
              /\ \/ /\ machine'[m].health = machine[m].health
                    /\ machine'[m].failure = machine[m].failure
                    /\ machine'[m].success = machine[m].success
                 \/ /\ machine'[m].health = "unknown"
                    /\ machine'[m].failure = 0 /\ machine'[m].success = 0
         /\ machine' \in [Machines -> Row]
<1>0. machine \in [Machines -> Row]
  BY DEF RotationTypeOK, HealthTypeOK
<1> DEFINE Same(old, new) == \/ /\ new.health = old.health
                                /\ new.failure = old.failure /\ new.success = old.success
                             \/ /\ new.health = "unknown"
                                /\ new.failure = 0 /\ new.success = 0
<1>1. ASSUME NEW n \in Machines, NEW row \in Row, machine' = [machine EXCEPT ![n] = row],
             Same(machine[n], row)
      PROVE  /\ machine' \in [Machines -> Row]
             /\ \A m \in Machines : machine'[m] \in Row /\ Same(machine[m], machine'[m])
  <2>1. \A m \in Machines : machine'[m] = IF m = n THEN row ELSE machine[m]
    BY <1>0, <1>1
  <2> QED BY <1>0, <1>1, <2>1
<1>2. ASSUME NEW j \in Jobs, RecordAddress(j)
      PROVE  /\ machine' \in [Machines -> Row]
             /\ \A m \in Machines : machine'[m] \in Row /\ Same(machine[m], machine'[m])
  <2> DEFINE n == job[j].machine
             row == Recorded(machine[n], job[j].new, now + RotationCooldown)
  <2>1. n \in Machines /\ job[j].new \in Address /\ now + RotationCooldown \in Nat
    BY RotationConstants DEF RotationTypeOK, Job
  <2>2. row \in Row
    BY <1>0, <2>1, RecordedType
  <2>3. Same(machine[n], row)
    BY <1>0, <2>1 DEF Recorded, Row
  <2>4. machine' = machine \/ machine' = [machine EXCEPT ![n] = row]
    BY <1>2 DEF RecordAddress
  <2> HIDE DEF n, row
  <2> QED BY <1>0, <1>1, <2>1, <2>2, <2>3, <2>4
<1>3. ASSUME NEW n \in Machines, NEW ip \in Address, ReportAddress(n, ip)
      PROVE  /\ machine' \in [Machines -> Row]
             /\ \A m \in Machines : machine'[m] \in Row /\ Same(machine[m], machine'[m])
  <2> DEFINE row == [(IF machine[n].exists THEN machine[n] ELSE NewRow) EXCEPT !.ip = ip]
  <2>1. row \in Row /\ Same(machine[n], row)
    <3>1. PICK old \in Row : old = IF machine[n].exists THEN machine[n] ELSE NewRow
      BY <1>0, RowValues
    <3>2. Same(machine[n], old)
      BY <3>1 DEF NewRow
    <3>3. row = [old EXCEPT !.ip = ip]
      BY <3>1
    <3>4. /\ row \in Row
          /\ row.health = old.health /\ row.failure = old.failure /\ row.success = old.success
      BY <3>3 DEF Row
    <3> HIDE DEF row
    <3> QED BY <3>2, <3>4
  <2>2. machine' = [machine EXCEPT ![n] = row]
    BY <1>3 DEF ReportAddress
  <2> HIDE DEF row, Same
  <2> QED BY <1>1, <2>1, <2>2
<1>4. ASSUME NEW n \in Machines, NEW auto \in BOOLEAN, UpdateMachine(n, auto)
      PROVE  /\ machine' \in [Machines -> Row]
             /\ \A m \in Machines : machine'[m] \in Row /\ Same(machine[m], machine'[m])
  <2> DEFINE row == [machine[n] EXCEPT !.auto = auto]
  <2>1. row \in Row /\ Same(machine[n], row)
    BY <1>0 DEF Row
  <2>2. machine' = [machine EXCEPT ![n] = row]
    BY <1>0, <1>4 DEF UpdateMachine
  <2> HIDE DEF row, Same
  <2> QED BY <1>1, <2>1, <2>2
<1>5. UNCHANGED <<check, spawned>>
  BY DEF WritesRow, RecordAddress, ReportAddress, UpdateMachine
<1> QED BY <1>2, <1>3, <1>4, <1>5 DEF WritesRow

(* The end of a request and a restart write no row, and take no count anywhere. *)
LEMMA CutShort ==
  ASSUME RotationTypeOK, (\E j \in Jobs : CancelRequest(j)) \/ Crash
  PROVE  /\ UNCHANGED machine
         /\ check' \in [Callers -> Check]
         /\ \A c \in Callers : \/ check'[c].failure = 0
                               \/ /\ check'[c].machine = check[c].machine
                                  /\ check'[c].failure = check[c].failure
         /\ \A m \in Machines : spawned'[m] = spawned[m] \/ spawned'[m] = 0
         /\ spawned' \in [Machines -> 0..MaxSpawned]
<1>0. /\ check \in [Callers -> Check] /\ spawned \in [Machines -> 0..MaxSpawned]
      /\ \A c \in Callers : check[c].machine \in Machines
  BY DEF RotationTypeOK, HealthTypeOK, Check
<1>1. ASSUME NEW j \in Jobs, CancelRequest(j)
      PROVE  /\ check' \in [Callers -> Check]
             /\ \A c \in Callers : /\ check'[c].machine = check[c].machine
                                   /\ check'[c].failure = check[c].failure
  <2> DEFINE cut == [check[j] EXCEPT !.pc = "cancelled"]
  <2>1. j \in Callers
    BY RotationConstants
  <2>2. cut \in Check /\ cut.machine = check[j].machine /\ cut.failure = check[j].failure
    BY <1>0, <2>1 DEF Check
  <2>3. check' = check \/ check' = [check EXCEPT ![j] = cut]
    BY <1>0, <1>1, <2>1 DEF CancelRequest
  <2> HIDE DEF cut
  <2> QED BY <1>0, <2>1, <2>2, <2>3
<1>2. CASE Crash
  <2>1. \A c \in Callers : /\ IdleCheck(check[c].machine) \in Check
                          /\ IdleCheck(check[c].machine).failure = 0
    BY <1>0, RowValues DEF IdleCheck
  <2>2. check' = [c \in Callers |-> IdleCheck(check[c].machine)]
        /\ spawned' = [m \in Machines |-> 0] /\ UNCHANGED machine
    BY <1>2 DEF Crash
  <2> QED BY <2>1, <2>2, HealthConstants
<1>3. ASSUME NEW j \in Jobs, CancelRequest(j) PROVE UNCHANGED <<machine, spawned>>
  BY <1>3 DEF CancelRequest
<1>4. CASE \E j \in Jobs : CancelRequest(j)
  BY <1>0, <1>1, <1>3, <1>4
<1> QED BY <1>2, <1>4

LEMMA HealthPart ==
  ASSUME RotationTypeOK, [Next]_vars
  PROVE  HealthTypeOK'
<1>0. HealthTypeOK
  BY DEF RotationTypeOK
<1>1. CASE [HealthNext]_healthVars
  BY <1>0, <1>1, HealthTypeStep
<1>2. CASE WritesRow
  BY <1>0, <1>2, WrittenRow DEF HealthTypeOK
<1>3. CASE (\E j \in Jobs : CancelRequest(j)) \/ Crash
  BY <1>0, <1>3, CutShort DEF HealthTypeOK
<1> QED BY <1>1, <1>2, <1>3, HealthClass

(* The table changes by an insertion, or in one row of it, whose keys stay. *)
Inserts(j) == rotations' = Append(rotations,
  [machine |-> job[j].machine, auto |-> job[j].auto, old |-> job[j].old,
   new |-> NoIP, status |-> "running", started |-> now])

Closes(j) ==
  \/ rotations' = [rotations EXCEPT ![job[j].row].status = "failed"]
  \/ rotations' = [rotations EXCEPT ![job[j].row].status = "completed",
                                    ![job[j].row].new = job[j].new]

LEMMA PanelTypeStep ==
  ASSUME RotationTypeOK, [Next]_vars
  PROVE  now' \in Nat /\ panel' \in [Machines -> Panel]
<1>0. now \in Nat /\ panel \in [Machines -> Panel]
      /\ \A j \in Jobs : job[j].machine \in Machines
  BY DEF RotationTypeOK, Job
<1>1. ASSUME NEW j \in Jobs, AskChange(j) PROVE now' \in Nat /\ panel' \in [Machines -> Panel]
  <2> DEFINE m == job[j].machine
             asked == [panel[m] EXCEPT !.asked = @ + 1]
  <2>1. m \in Machines /\ asked \in Panel
    BY <1>0 DEF Panel
  <2>2. panel' = panel \/ panel' = [panel EXCEPT ![m] = asked]
    BY <1>0, <1>1 DEF AskChange
  <2> QED BY <1>0, <1>1, <2>1, <2>2 DEF AskChange
<1>2. ASSUME NEW m \in Machines, NEW ip \in IPs, PanelAssign(m, ip)
      PROVE  now' \in Nat /\ panel' \in [Machines -> Panel]
  <2>1. panel[m] \in Panel /\ ip \in Address /\ panel[m].done + 1 \in Nat
    BY <1>0 DEF Panel, Address
  <2>2. [panel[m] EXCEPT !.ip = ip, !.done = @ + 1] \in Panel
    BY <2>1 DEF Panel
  <2> QED BY <1>0, <1>2, <2>2 DEF PanelAssign
<1>3. CASE Tick
  BY <1>0, <1>3 DEF Tick
<1>4. CASE UNCHANGED <<now, panel>>
  BY <1>0, <1>4
<1>5. ASSUME NEW j \in Jobs, JobStep(j), ~AskChange(j) PROVE UNCHANGED <<now, panel>>
  BY <1>5
  DEF JobStep, LoadMachine, CountLimit, Confirm, PostCheck, JobCheckLoad, JobCheckStore,
      ListOld, InsertRow, Poll, RecordAddress, FinishRotation, rotationVars
<1>6. ASSUME NEW j \in Jobs,
             CancelRequest(j) \/ \E m \in Machines : EnterManual(j, m) \/ EnterAuto(j, m)
      PROVE  UNCHANGED <<now, panel>>
  BY <1>6 DEF EnterManual, EnterAuto, Enter, CancelRequest
<1>7. ASSUME NEW c \in Callers, OtherCheck(c) PROVE UNCHANGED <<now, panel>>
  BY <1>7 DEF OtherCheck, rotationVars
<1>8. ASSUME NEW m \in Machines, AutoBusy(m) \/ OtherWrite(m) PROVE UNCHANGED <<now, panel>>
  BY <1>8, OtherWriteKeeps DEF AutoBusy, rotationVars
<1>9. CASE Crash \/ UNCHANGED vars
  BY <1>0, <1>9 DEF Crash, vars
<1>10. ASSUME NEW j \in Jobs, JobStep(j) PROVE now' \in Nat /\ panel' \in [Machines -> Panel]
  BY <1>1, <1>4, <1>5, <1>10
<1> QED BY <1>2, <1>3, <1>4, <1>6, <1>7, <1>8, <1>9, <1>10 DEF Next, vars

LEMMA RowsStep ==
  ASSUME RotationTypeOK, [Next]_vars
  PROVE  \/ UNCHANGED rotations
         \/ \E j \in Jobs : job[j].pc = "insert" /\ InsertRow(j) /\ Inserts(j)
         \/ \E j \in Jobs : InHistory(j) /\ JobStep(j) /\ Returns(j) /\ Closes(j)
<1>1. ASSUME NEW j \in Jobs, FailRotation(j) PROVE Closes(j)
  BY <1>1 DEF FailRotation, Closes
<1>2. ASSUME NEW j \in Jobs, JobStep(j)
      PROVE  \/ UNCHANGED rotations
             \/ job[j].pc = "insert" /\ InsertRow(j) /\ Inserts(j)
             \/ InHistory(j) /\ Returns(j) /\ Closes(j)
  <2>1. CASE InsertRow(j)
    BY <2>1 DEF InsertRow, Inserts
  <2>2. CASE AskChange(j)
    BY <1>1, <2>2 DEF AskChange, FailRotation, Returns, Live, InHistory
  <2>3. CASE Poll(j)
    BY <1>1, <2>3 DEF Poll, FailRotation, Returns, Live, InHistory
  <2>4. CASE FinishRotation(j)
    BY <2>4 DEF FinishRotation, Returns, Live, InHistory, Closes
  <2> QED
    BY <1>2, <2>1, <2>2, <2>3, <2>4
    DEF JobStep, LoadMachine, CountLimit, Confirm, PostCheck, JobCheckLoad, JobCheckStore,
        ListOld, RecordAddress, rotationVars
<1>3. ASSUME NEW j \in Jobs,
             CancelRequest(j) \/ \E m \in Machines : EnterManual(j, m) \/ EnterAuto(j, m)
      PROVE  UNCHANGED rotations
  BY <1>3 DEF EnterManual, EnterAuto, Enter, CancelRequest
<1>4. ASSUME NEW c \in Callers, OtherCheck(c) PROVE UNCHANGED rotations
  BY <1>4 DEF OtherCheck, rotationVars
<1>5. ASSUME NEW m \in Machines,
             AutoBusy(m) \/ OtherWrite(m) \/ \E ip \in IPs : PanelAssign(m, ip)
      PROVE  UNCHANGED rotations
  BY <1>5, OtherWriteKeeps DEF AutoBusy, PanelAssign, rotationVars
<1>6. CASE Crash \/ Tick \/ UNCHANGED vars
  BY <1>6 DEF Crash, Tick, vars
<1> QED BY <1>2, <1>3, <1>4, <1>5, <1>6 DEF Next, vars

LEMMA RowsTypeStep ==
  ASSUME RotationTypeOK, [Next]_vars
  PROVE  rotations' \in Seq(RotationRow)
<1>0. /\ rotations \in Seq(RotationRow) /\ now \in Nat /\ NoIP \in Address
      /\ \A j \in Jobs : job[j] \in Job
  BY DEF RotationTypeOK, Address
<1>1. ASSUME NEW j \in Jobs, Inserts(j) PROVE rotations' \in Seq(RotationRow)
  <2>1. [machine |-> job[j].machine, auto |-> job[j].auto, old |-> job[j].old,
         new |-> NoIP, status |-> "running", started |-> now] \in RotationRow
    BY <1>0 DEF RotationRow, Job
  <2> QED BY <1>0, <1>1, <2>1 DEF Inserts
<1>2. ASSUME NEW j \in Jobs, Closes(j) PROVE rotations' \in Seq(RotationRow)
  <2> DEFINE i == job[j].row
             fails == [rotations[i] EXCEPT !.status = "failed"]
             done == [rotations[i] EXCEPT !.status = "completed", !.new = job[j].new]
  <2>1. rotations' = [rotations EXCEPT ![i] = fails] \/ rotations' = [rotations EXCEPT ![i] = done]
    BY <1>2 DEF Closes
  <2>2. i \in DOMAIN rotations => fails \in RotationRow /\ done \in RotationRow
    <3> SUFFICES ASSUME i \in DOMAIN rotations
                 PROVE  fails \in RotationRow /\ done \in RotationRow
      OBVIOUS
    <3>1. rotations[i] \in RotationRow /\ job[j].new \in Address
      BY <1>0 DEF Job
    <3> QED BY <3>1 DEF RotationRow
  <2> HIDE DEF i, fails, done
  <2> QED BY <1>0, <2>1, <2>2
<1> QED BY <1>0, <1>1, <1>2, RowsStep

LEMMA RotationTypeInit == RotationInit => RotationTypeOK
<1> SUFFICES ASSUME RotationInit PROVE RotationTypeOK
  OBVIOUS
<1>1. HealthTypeOK
  BY HealthTypeInit DEF RotationInit
<1>2. job \in [Jobs -> Job]
  BY IdleJobType DEF RotationInit
<1>3. panel \in [Machines -> Panel]
  BY DEF RotationInit, Panel, Address
<1>4. now \in Nat /\ lock \subseteq Machines /\ rotations \in Seq(RotationRow)
  BY DEF RotationInit
<1> QED BY <1>1, <1>2, <1>3, <1>4 DEF RotationTypeOK

LEMMA RotationTypeStep == RotationTypeOK /\ [Next]_vars => RotationTypeOK'
  BY HealthPart, JobTypeStep, PanelTypeStep, RowsTypeStep DEF RotationTypeOK

(* Rows, jobs, history and provider keep their types. *)
THEOREM RotationTypeCorrect == Spec => []RotationTypeOK
  BY RotationTypeInit, RotationTypeStep, PTL DEF Spec

-----------------------------------------------------------------------------
(* Mutual exclusion. *)

LockInv == OneRotationPerMachine /\ LockIsOwned

LEMMA LockStep ==
  ASSUME RotationTypeOK, LockInv, [Next]_vars
  PROVE  LockInv'
<1>0. /\ job \in [Jobs -> Job] /\ \A j \in Jobs : job[j].machine \in Machines
      /\ lock = {job[j].machine : j \in {k \in Jobs : Live(k)}}
      /\ \A j, k \in Jobs :
           Live(j) /\ Live(k) /\ job[j].machine = job[k].machine => j = k
  BY DEF RotationTypeOK, Job, LockInv, OneRotationPerMachine, LockIsOwned
<1> SUFFICES /\ \A j, k \in Jobs : /\ job'[j].pc # "idle" /\ job'[k].pc # "idle"
                                   /\ job'[j].machine = job'[k].machine
                                   => j = k
             /\ lock' = {job'[j].machine : j \in {k \in Jobs : job'[k].pc # "idle"}}
  BY DEF LockInv, OneRotationPerMachine, LockIsOwned, Live
<1>1. ASSUME NEW i \in Jobs, NEW m \in Machines, NEW auto \in BOOLEAN, Enter(i, m, auto)
      PROVE  /\ \A j, k \in Jobs : /\ job'[j].pc # "idle" /\ job'[k].pc # "idle"
                                   /\ job'[j].machine = job'[k].machine
                                   => j = k
             /\ lock' = {job'[j].machine : j \in {k \in Jobs : job'[k].pc # "idle"}}
  <2>1. /\ m \notin lock /\ lock' = lock \union {m}
        /\ job'[i].pc # "idle" /\ job'[i].machine = m /\ ~Live(i)
        /\ \A j \in Jobs \ {i} : job'[j] = job[j]
    BY <1>0, <1>1 DEF Enter, IdleJob, Live
  <2> QED BY <1>0, <2>1 DEF Live
<1>2. ASSUME NEW i \in Jobs, Moves(i)
      PROVE  /\ \A j, k \in Jobs : /\ job'[j].pc # "idle" /\ job'[k].pc # "idle"
                                   /\ job'[j].machine = job'[k].machine
                                   => j = k
             /\ lock' = {job'[j].machine : j \in {k \in Jobs : job'[k].pc # "idle"}}
  <2>1. /\ Live(i) /\ lock' = lock
        /\ job'[i].pc # "idle" /\ job'[i].machine = job[i].machine
        /\ \A j \in Jobs \ {i} : job'[j] = job[j]
    BY <1>0, <1>2 DEF Moves
  <2> QED BY <1>0, <2>1 DEF Live
<1>3. ASSUME NEW i \in Jobs, Returns(i)
      PROVE  /\ \A j, k \in Jobs : /\ job'[j].pc # "idle" /\ job'[k].pc # "idle"
                                   /\ job'[j].machine = job'[k].machine
                                   => j = k
             /\ lock' = {job'[j].machine : j \in {k \in Jobs : job'[k].pc # "idle"}}
  <2>1. /\ Live(i) /\ lock' = lock \ {job[i].machine}
        /\ job'[i].pc = "idle"
        /\ \A j \in Jobs \ {i} : job'[j] = job[j]
    BY <1>0, <1>3 DEF Returns, Return, IdleJob
  <2> QED BY <1>0, <2>1 DEF Live
<1>4. CASE Crashes
  BY <1>0, <1>4 DEF Crashes, IdleJob
<1>5. CASE UNCHANGED <<job, lock>>
  BY <1>0, <1>5 DEF Live
<1> QED BY <1>1, <1>2, <1>3, <1>4, <1>5, NextClass

LEMMA LockInit == RotationInit => LockInv
<1> SUFFICES ASSUME RotationInit PROVE LockInv
  OBVIOUS
<1>1. \A j \in Jobs : job[j].pc = "idle"
  BY DEF RotationInit, IdleJob
<1> QED BY <1>1 DEF RotationInit, LockInv, OneRotationPerMachine, LockIsOwned, Live

LEMMA LockInvariant == Spec => []LockInv
  BY LockInit, LockStep, RotationTypeCorrect, PTL DEF Spec

(* No machine is ever in two rotations, manual or automatic. *)
THEOREM OneRotationCorrect == Spec => []OneRotationPerMachine
  BY LockInvariant, PTL DEF LockInv

(* The lock names exactly the machines with a rotation in progress. *)
THEOREM LockCorrect == Spec => []LockIsOwned
  BY LockInvariant, PTL DEF LockInv

-----------------------------------------------------------------------------
(* The cooldown. *)

(* Only a rotation of the machine moves its cooldown ahead. *)
LEMMA CooldownWrite ==
  ASSUME RotationTypeOK, [Next]_vars, NEW m \in Machines
  PROVE  \/ machine'[m].cooldown = machine[m].cooldown
         \/ machine'[m].cooldown = 0
         \/ \E k \in Jobs : RecordAddress(k) /\ job[k].machine = m
<1> DEFINE Kept == \/ machine'[m].cooldown = machine[m].cooldown
                   \/ machine'[m].cooldown = 0
<1>0. /\ machine \in [Machines -> Row]
      /\ NewRow.cooldown = 0 /\ NoRow.cooldown = 0
      /\ \A c \in Callers : check[c].machine \in Machines
  BY DEF RotationTypeOK, HealthTypeOK, NewRow, NoRow, Check
<1>1. ASSUME NEW c \in Callers, CheckStore(c) PROVE Kept
  <2> DEFINE n == check[c].machine
             v == Verdict(check[c].score, check[c].failure, check[c].success)
             row == [machine[n] EXCEPT !.health = v.health, !.failure = v.failure,
                                       !.success = v.success]
  <2>1. machine' = machine \/ machine' = [machine EXCEPT ![n] = row]
    BY <1>1 DEF CheckStore
  <2>2. row.cooldown = machine[n].cooldown
    BY <1>0 DEF Row
  <2> HIDE DEF n, row
  <2> QED BY <1>0, <2>1, <2>2
<1>2. ASSUME NEW n \in Machines, OtherWrite(n) PROVE Kept
  <2>1. ASSUME NEW ip \in Address, ReportAddress(n, ip) PROVE Kept
    <3> DEFINE row == [(IF machine[n].exists THEN machine[n] ELSE NewRow) EXCEPT !.ip = ip]
    <3>1. machine' = [machine EXCEPT ![n] = row]
      BY <2>1 DEF ReportAddress
    <3>2. row.cooldown = machine[n].cooldown \/ row.cooldown = 0
      BY <1>0, RowValues DEF Row
    <3> HIDE DEF row
    <3> QED BY <1>0, <3>1, <3>2
  <2>2. ASSUME NEW auto \in BOOLEAN, UpdateMachine(n, auto) PROVE Kept
    <3>1. [machine[n] EXCEPT !.auto = auto].cooldown = machine[n].cooldown
      BY <1>0 DEF Row
    <3> QED BY <1>0, <2>2, <3>1 DEF UpdateMachine
  <2>3. CASE DeleteMachine(n)
    BY <1>0, <2>3 DEF DeleteMachine
  <2>4. ASSUME NEW auto \in BOOLEAN, CreateMachine(n, auto) PROVE Kept
    <3>1. [NewRow EXCEPT !.auto = auto].cooldown = 0
      BY DEF NewRow
    <3> QED BY <1>0, <2>4, <3>1 DEF CreateMachine
  <2> QED BY <1>2, <2>1, <2>2, <2>3, <2>4 DEF OtherWrite
<1>3. ASSUME NEW k \in Jobs, RecordAddress(k)
      PROVE  Kept \/ job[k].machine = m
  BY <1>0, <1>3 DEF RecordAddress
<1>4. ASSUME NEW k \in Jobs, JobStep(k) PROVE UNCHANGED machine \/ RecordAddress(k) \/ CheckStore(k)
  BY <1>4
  DEF JobStep, LoadMachine, CountLimit, Confirm, PostCheck, JobCheckLoad, JobCheckStore,
      ListOld, InsertRow, AskChange, Poll, FinishRotation, CheckProbe, CheckLoad, healthVars
<1>5. ASSUME NEW k \in Jobs,
             CancelRequest(k) \/ \E n \in Machines : EnterManual(k, n) \/ EnterAuto(k, n)
      PROVE  UNCHANGED machine
  BY <1>5 DEF CancelRequest, EnterManual, EnterAuto, RunSpawned, healthVars
<1>6. ASSUME NEW c \in Callers, OtherCheck(c) PROVE UNCHANGED machine \/ CheckStore(c)
  BY <1>6 DEF OtherCheck, CheckProbe, CheckLoad, CheckCancel
<1>7. ASSUME NEW n \in Machines, AutoBusy(n) \/ \E ip \in IPs : PanelAssign(n, ip)
      PROVE  UNCHANGED machine
  BY <1>7 DEF AutoBusy, PanelAssign, RunSpawned, healthVars
<1>8. CASE Crash \/ Tick \/ UNCHANGED vars
  BY <1>8 DEF Crash, Tick, vars, healthVars
<1>9. Jobs \subseteq Callers
  BY RotationConstants
<1> QED BY <1>1, <1>2, <1>3, <1>4, <1>5, <1>6, <1>7, <1>8, <1>9 DEF Next, vars

(* Only its own steps, the end of its request and a crash change a rotation in progress. *)
LEMMA WhoMoves ==
  ASSUME RotationTypeOK, [Next]_vars, NEW j \in Jobs, Live(j), job'[j] # job[j]
  PROVE  JobStep(j) \/ CancelRequest(j) \/ Crash
<1>0. job \in [Jobs -> Job]
  BY DEF RotationTypeOK
<1>1. ASSUME NEW i \in Jobs, NEW m \in Machines, EnterManual(i, m) \/ EnterAuto(i, m)
      PROVE  FALSE
  BY <1>0, <1>1 DEF EnterManual, EnterAuto, Enter, Live
<1>2. ASSUME NEW i \in Jobs, JobStep(i) PROVE i = j
  <2>1. Moves(i) \/ Returns(i)
    BY <1>2, JobStepClass
  <2> QED BY <1>0, <2>1 DEF Moves, Returns, Return
<1>3. ASSUME NEW i \in Jobs, CancelRequest(i) PROVE i = j
  BY <1>0, <1>3 DEF CancelRequest
<1>4. ASSUME NEW c \in Callers, OtherCheck(c) PROVE FALSE
  BY <1>4 DEF OtherCheck, rotationVars
<1>5. ASSUME NEW m \in Machines,
             AutoBusy(m) \/ OtherWrite(m) \/ \E ip \in IPs : PanelAssign(m, ip)
      PROVE  FALSE
  BY <1>5, OtherWriteKeeps DEF AutoBusy, PanelAssign, rotationVars
<1>6. ~Tick /\ ~UNCHANGED vars
  BY DEF Tick, vars
<1> QED BY <1>1, <1>2, <1>3, <1>4, <1>5, <1>6 DEF Next

(* A step of a rotation that is under way after it was so before, or reads the row. *)
LEMMA UnderWayStep ==
  ASSUME RotationTypeOK, NEW j \in Jobs, JobStep(j), AutoUnderWay(j)'
  PROVE  /\ job'[j].machine = job[j].machine
         /\ \/ AutoUnderWay(j)
            \/ UNCHANGED <<machine, now>> /\ now >= machine[job[j].machine].cooldown
<1>0. job \in [Jobs -> Job] /\ job[j] \in Job
  BY DEF RotationTypeOK
<1>1. ~Return(j)
  BY <1>0 DEF Return, IdleJob, AutoUnderWay
<1>12. \A pc \in PCs : Go(j, pc) => job'[j].pc = pc
  BY <1>0 DEF Go, Job
<1>13. {"post", "posting", "finish"} \subseteq PCs
  BY DEF PCs
<1>2. job'[j].machine = job[j].machine /\ job'[j].auto = job[j].auto
  BY <1>0, <1>1, JobStepClass DEF Moves, Returns
<1>3. job[j].auto
  BY <1>2 DEF AutoUnderWay
<1>4. CASE LoadMachine(j)
  BY <1>1, <1>2, <1>3, <1>4 DEF LoadMachine, MayRotate, healthVars
<1>5. ASSUME NEW score \in Scores, PostCheck(j, score) PROVE FALSE
  BY <1>5, <1>12, <1>13 DEF PostCheck, AutoUnderWay
<1>6. CASE JobCheckStore(j)
  <2>1. job[j].pc = "confirming" \/ job'[j].pc = "finish"
    BY <1>6, <1>12, <1>13 DEF JobCheckStore
  <2> QED BY <1>2, <1>3, <2>1 DEF AutoUnderWay
<1>7. CASE JobCheckLoad(j)
  BY <1>2, <1>7 DEF JobCheckLoad, rotationVars, AutoUnderWay
<1>8. ~RecordAddress(j)
  BY <1>12, <1>13 DEF RecordAddress, AutoUnderWay
<1>9. ~FinishRotation(j)
  BY <1>1 DEF FinishRotation
<1>10. ASSUME CountLimit(j) \/ ListOld(j) \/ InsertRow(j) \/ AskChange(j) \/ Poll(j)
       PROVE  AutoUnderWay(j)
  BY <1>3, <1>10 DEF CountLimit, ListOld, InsertRow, AskChange, Poll, AutoUnderWay
<1>11. ASSUME NEW score \in Scores, Confirm(j, score) PROVE AutoUnderWay(j)
  BY <1>3, <1>11 DEF Confirm, AutoUnderWay
<1> QED
  BY <1>2, <1>4, <1>5, <1>6, <1>7, <1>8, <1>9, <1>10, <1>11 DEF JobStep

LEMMA UnderWayBefore ==
  ASSUME RotationTypeOK, [Next]_vars, NEW j \in Jobs, AutoUnderWay(j)'
  PROVE  /\ job'[j].machine = job[j].machine
         /\ \/ AutoUnderWay(j)
            \/ UNCHANGED <<machine, now>> /\ now >= machine[job[j].machine].cooldown
<1>0. job \in [Jobs -> Job]
  BY DEF RotationTypeOK
<1>1. CASE job'[j] = job[j]
  BY <1>1 DEF AutoUnderWay
<1>2. CASE job'[j] # job[j]
  <2>1. Live(j)
    <3>1. ASSUME NEW i \in Jobs, NEW m \in Machines, NEW auto \in BOOLEAN, Enter(i, m, auto)
          PROVE  FALSE
      BY <1>0, <1>2, <3>1 DEF Enter, IdleJob, AutoUnderWay
    <3>2. ASSUME NEW i \in Jobs, Moves(i) \/ Returns(i) PROVE Live(j)
      BY <1>0, <1>2, <3>2 DEF Moves, Returns, Return
    <3>3. ~Crashes
      BY <1>0 DEF Crashes, IdleJob, AutoUnderWay
    <3> QED BY <1>2, <3>1, <3>2, <3>3, NextClass
  <2>2. CASE JobStep(j)
    BY <2>2, UnderWayStep
  <2>3. CASE CancelRequest(j)
    <3>1. job'[j].auto = job[j].auto
      BY <1>0, <2>3 DEF CancelRequest, RotationTypeOK, Job
    <3> QED BY <2>3, <3>1 DEF CancelRequest, AutoUnderWay
  <2>4. ~Crash
    BY <1>0 DEF Crash, IdleJob, AutoUnderWay
  <2> QED BY <1>2, <2>1, <2>2, <2>3, <2>4, WhoMoves
<1> QED BY <1>1, <1>2

LEMMA TimeForward ==
  ASSUME RotationTypeOK, [Next]_vars
  PROVE  now' \in Nat /\ now' >= now
<1>0. now \in Nat
  BY DEF RotationTypeOK
<1>1. CASE Tick
  BY <1>0, <1>1 DEF Tick
<1>2. CASE ~Tick
  <2>1. ASSUME NEW j \in Jobs, JobStep(j) PROVE UNCHANGED now
    BY <2>1
    DEF JobStep, LoadMachine, CountLimit, Confirm, PostCheck, JobCheckLoad, JobCheckStore,
        ListOld, InsertRow, AskChange, Poll, RecordAddress, FinishRotation, rotationVars
  <2>2. ASSUME NEW j \in Jobs,
               CancelRequest(j) \/ \E m \in Machines : EnterManual(j, m) \/ EnterAuto(j, m)
        PROVE  UNCHANGED now
    BY <2>2 DEF EnterManual, EnterAuto, Enter, CancelRequest
  <2>3. ASSUME NEW c \in Callers, OtherCheck(c) PROVE UNCHANGED now
    BY <2>3 DEF OtherCheck, rotationVars
  <2>4. ASSUME NEW m \in Machines,
               AutoBusy(m) \/ OtherWrite(m) \/ \E ip \in IPs : PanelAssign(m, ip)
        PROVE  UNCHANGED now
    BY <2>4, OtherWriteKeeps DEF AutoBusy, PanelAssign, rotationVars
  <2>5. (Crash => UNCHANGED now) /\ (UNCHANGED vars => UNCHANGED now)
    BY DEF Crash, vars
  <2>6. UNCHANGED now
    BY <1>2, <2>1, <2>2, <2>3, <2>4, <2>5 DEF Next, vars
  <2> QED BY <1>0, <2>6
<1> QED BY <1>1, <1>2

(***************************************************************************)
(* The lock is what makes the cooldown hold: between the read and the      *)
(* write of a rotation, only another rotation of the same machine could    *)
(* move the cooldown ahead, and there is none.                             *)
(***************************************************************************)
LEMMA CooldownStep ==
  ASSUME RotationTypeOK, LockInv, CooldownHonoured, [Next]_vars
  PROVE  CooldownHonoured'
<1> SUFFICES ASSUME NEW j \in Jobs, AutoUnderWay(j)'
             PROVE  now' >= machine'[job'[j].machine].cooldown
  BY DEF CooldownHonoured
<1> DEFINE m == job[j].machine
<1>0. /\ m \in Machines /\ machine[m].cooldown \in Nat /\ now \in Nat
      /\ job \in [Jobs -> Job]
  BY DEF RotationTypeOK, HealthTypeOK, Job, Row
<1>1. job'[j].machine = m
  BY UnderWayBefore
<1>2. now' \in Nat /\ now' >= now
  BY TimeForward
<1>3. CASE UNCHANGED <<machine, now>> /\ now >= machine[m].cooldown
  BY <1>1, <1>3
<1>4. CASE AutoUnderWay(j)
  <2>1. now >= machine[m].cooldown
    BY <1>4 DEF CooldownHonoured
  <2>2. ASSUME NEW k \in Jobs, RecordAddress(k), job[k].machine = m PROVE FALSE
    <3>1. k = j
      BY <1>4, <2>2 DEF LockInv, OneRotationPerMachine, Live, RecordAddress, AutoUnderWay
    <3> QED BY <1>0, <2>2, <3>1 DEF RecordAddress, Go, AutoUnderWay
  <2>3. machine'[m].cooldown = machine[m].cooldown \/ machine'[m].cooldown = 0
    BY <1>0, <2>2, CooldownWrite
  <2> HIDE DEF m
  <2> QED BY <1>0, <1>1, <1>2, <2>1, <2>3
<1> QED BY <1>3, <1>4, UnderWayBefore

(* No automatic rotation gets past its checks, or records an address, in a cooldown. *)
THEOREM CooldownCorrect == Spec => []CooldownHonoured
<1>1. RotationInit => CooldownHonoured
  BY DEF RotationInit, CooldownHonoured, AutoUnderWay, IdleJob
<1> QED BY <1>1, CooldownStep, LockInvariant, RotationTypeCorrect, PTL DEF Spec

-----------------------------------------------------------------------------
(* Why a machine's address is changed. *)

LEMMA HealthAgrees ==
  ASSUME RotationTypeOK, HealthMatchesCounters, [Next]_vars
  PROVE  HealthMatchesCounters'
<1>0. HealthTypeOK
  BY DEF RotationTypeOK
<1>1. CASE [HealthNext]_healthVars
  BY <1>0, <1>1, MatchStep
<1>2. CASE WritesRow
  <2> SUFFICES ASSUME NEW m \in Machines PROVE RowAgrees(machine'[m])
    BY DEF HealthMatchesCounters
  <2>1. RowAgrees(machine[m])
    BY DEF HealthMatchesCounters
  <2> QED BY <1>2, <2>1, WrittenRow DEF RowAgrees
<1>3. CASE UNCHANGED machine
  BY <1>3 DEF HealthMatchesCounters
<1> QED BY <1>1, <1>2, <1>3, HealthClass, CutShort

(***************************************************************************)
(* Health and counters of a row tell one story beside rotations, too,      *)
(* which reset them, and beside registrations, syncs and restarts.         *)
(***************************************************************************)
THEOREM RotationMatchCorrect == Spec => []HealthMatchesCounters
<1>1. RotationInit => HealthMatchesCounters
  BY MatchInit DEF RotationInit
<1> QED BY <1>1, HealthAgrees, RotationTypeCorrect, PTL DEF Spec

(* Whatever ends no check leaves every count as it is, zero, or read from a row. *)
LEMMA QuietHealth ==
  ASSUME HealthTypeOK, [HealthNext]_healthVars, \A c \in Callers : ~CheckStore(c)
  PROVE  /\ \A m \in Machines : \/ machine'[m].failure = machine[m].failure
                               \/ machine'[m].failure = 0
         /\ \A c \in Callers :
              \/ check'[c].failure = 0 /\ check'[c].machine \in Machines
              \/ /\ check'[c].machine = check[c].machine
                 /\ \/ check'[c].failure = check[c].failure
                    \/ check'[c].failure = machine[check[c].machine].failure
         /\ \A m \in Machines : spawned'[m] > 0 => spawned[m] > 0
<1>0. /\ machine \in [Machines -> Row] /\ check \in [Callers -> Check]
      /\ spawned \in [Machines -> 0..MaxSpawned]
  BY DEF HealthTypeOK
<1>1. ASSUME NEW c \in Callers, NEW m \in Machines, NEW score \in Scores,
             CheckProbe(c, m, score) \/ CheckAbandon(c, m, score)
      PROVE  /\ UNCHANGED <<machine, spawned>>
             /\ \A d \in Callers : \/ check'[d].failure = 0 /\ check'[d].machine \in Machines
                                  \/ check'[d] = check[d]
  BY <1>0, <1>1 DEF CheckProbe, CheckAbandon
<1>2. ASSUME NEW c \in Callers, CheckLoad(c) \/ CheckCancel(c)
      PROVE  /\ UNCHANGED <<machine, spawned>>
             /\ \A d \in Callers :
                  \/ check'[d].failure = 0 /\ check'[d].machine \in Machines
                  \/ /\ check'[d].machine = check[d].machine
                     /\ \/ check'[d].failure = check[d].failure
                        \/ check'[d].failure = machine[check[d].machine].failure
  BY <1>0, <1>2 DEF CheckLoad, CheckCancel, Check
<1>3. ASSUME NEW m \in Machines, ResetCounters(m) PROVE machine'[m].failure = 0
  <2>1. Recorded(machine[m], machine[m].ip, machine[m].cooldown).failure = 0
    BY <1>0 DEF Recorded, Row
  <2>2. machine' = [machine EXCEPT ![m] = Recorded(machine[m], machine[m].ip,
                                                   machine[m].cooldown)]
    BY <1>3 DEF ResetCounters
  <2> QED BY <1>0, <2>1, <2>2
<1>4. ASSUME NEW m \in Machines,
             \/ ResetCounters(m) \/ DeleteMachine(m)
             \/ \E auto \in BOOLEAN : CreateMachine(m, auto)
      PROVE  /\ UNCHANGED <<check, spawned>>
             /\ \A n \in Machines : machine'[n] = machine[n] \/ machine'[n].failure = 0
  <2>1. NoRow.failure = 0 /\ \A auto \in BOOLEAN : [NewRow EXCEPT !.auto = auto].failure = 0
    BY DEF NoRow, NewRow
  <2> QED BY <1>0, <1>3, <1>4, <2>1 DEF ResetCounters, DeleteMachine, CreateMachine
<1>5. ASSUME NEW m \in Machines, RunSpawned(m)
      PROVE  /\ UNCHANGED <<machine, check>>
             /\ \A n \in Machines : spawned'[n] > 0 => spawned[n] > 0
  BY <1>0, <1>5 DEF RunSpawned
<1>6. CASE UNCHANGED healthVars
  BY <1>6 DEF healthVars
<1> QED BY <1>1, <1>2, <1>4, <1>5, <1>6 DEF HealthNext

(* A count begins anew with a row that reads zero, and no other row changes. *)
LEMMA RenewedRow ==
  ASSUME RotationTypeOK, [Next]_vars, NEW m \in Machines, Renews(m)
  PROVE  /\ UNCHANGED <<check, spawned>> /\ machine'[m].failure = 0
         /\ \A n \in Machines : n # m => machine'[n] = machine[n]
<1>0. machine \in [Machines -> Row]
  BY DEF RotationTypeOK, HealthTypeOK
<1>1. ASSUME NEW j \in Jobs, Records(j), job[j].machine = m
      PROVE  /\ UNCHANGED <<check, spawned>> /\ machine'[m].failure = 0
             /\ \A n \in Machines : n # m => machine'[n] = machine[n]
  <2> DEFINE row == Recorded(machine[m], job[j].new, now + RotationCooldown)
  <2>1. machine' = [machine EXCEPT ![m] = row] /\ UNCHANGED <<check, spawned>>
    BY <1>1 DEF Records, RecordAddress
  <2>2. row.failure = 0
    BY <1>0 DEF Recorded, Row
  <2> HIDE DEF row
  <2> QED BY <1>0, <2>1, <2>2
<1>2. ASSUME NEW j \in Jobs, RecordAddress(j) PROVE machine'[m].exists = machine[m].exists
  <2> DEFINE n == job[j].machine
             row == Recorded(machine[n], job[j].new, now + RotationCooldown)
  <2>1. n \in Machines
    BY DEF RotationTypeOK, Job
  <2>2. row.exists = machine[n].exists
    BY <1>0, <2>1 DEF Recorded, Row
  <2>3. machine' = machine \/ machine' = [machine EXCEPT ![n] = row]
    BY <1>2 DEF RecordAddress
  <2> HIDE DEF row, n
  <2> QED BY <1>0, <2>1, <2>2, <2>3
<1>3. ASSUME NEW c \in Callers, CheckStore(c) PROVE machine'[m].exists = machine[m].exists
  BY <1>0, <1>3 DEF CheckStore, Row
<1>4. ASSUME NEW n \in Machines, ResetCounters(n)
      PROVE  machine'[m].exists = machine[m].exists
  <2>1. Recorded(machine[n], machine[n].ip, machine[n].cooldown).exists = machine[n].exists
    BY <1>0 DEF Recorded, Row
  <2>2. machine' = [machine EXCEPT ![n] = Recorded(machine[n], machine[n].ip,
                                                   machine[n].cooldown)]
    BY <1>4 DEF ResetCounters
  <2> QED BY <1>0, <2>1, <2>2
<1>5. ASSUME NEW n \in Machines, NEW auto \in BOOLEAN, UpdateMachine(n, auto)
      PROVE  machine'[m].exists = machine[m].exists
  BY <1>0, <1>5 DEF UpdateMachine, Row
<1>6. ASSUME machine'[m].exists # machine[m].exists
      PROVE  /\ UNCHANGED <<check, spawned>> /\ machine'[m].failure = 0
             /\ \A n \in Machines : n # m => machine'[n] = machine[n]
  <2>1. ASSUME NEW n \in Machines, NEW ip \in Address, ReportAddress(n, ip)
        PROVE  /\ n = m /\ machine'[m].failure = 0 /\ UNCHANGED <<check, spawned>>
               /\ \A k \in Machines : k # m => machine'[k] = machine[k]
    <3> DEFINE old == IF machine[n].exists THEN machine[n] ELSE NewRow
               row == [old EXCEPT !.ip = ip]
    <3>1. machine' = [machine EXCEPT ![n] = row] /\ UNCHANGED <<check, spawned>>
      BY <2>1 DEF ReportAddress
    <3>2. old \in Row
      BY <1>0, RowValues
    <3>3. row.exists = old.exists /\ row.failure = old.failure
      BY <3>2 DEF Row
    <3>4. NewRow.failure = 0
      BY DEF NewRow
    <3>5. machine'[n] = row /\ \A k \in Machines : k # n => machine'[k] = machine[k]
      BY <1>0, <3>1
    <3>6. n = m
      BY <1>6, <3>5
    <3>7. ~machine[n].exists
      BY <1>6, <3>3, <3>5, <3>6
    <3> HIDE DEF row
    <3> QED BY <3>1, <3>3, <3>4, <3>5, <3>6, <3>7
  <2>2. ASSUME NEW n \in Machines,
               DeleteMachine(n) \/ \E auto \in BOOLEAN : CreateMachine(n, auto)
        PROVE  /\ n = m /\ machine'[m].failure = 0 /\ UNCHANGED <<check, spawned>>
               /\ \A k \in Machines : k # m => machine'[k] = machine[k]
    <3>1. NoRow.failure = 0 /\ \A auto \in BOOLEAN : [NewRow EXCEPT !.auto = auto].failure = 0
      BY DEF NoRow, NewRow
    <3> QED BY <1>0, <1>6, <2>2, <3>1 DEF DeleteMachine, CreateMachine
  <2>3. machine' # machine
    BY <1>6
  <2>4. ~(\E j \in Jobs : CancelRequest(j)) /\ ~Crash
    BY <2>3, CutShort
  <2>5. CASE WritesRow
    BY <1>2, <1>5, <1>6, <2>1, <2>5 DEF WritesRow
  <2>6. CASE [HealthNext]_healthVars
    <3>1. ASSUME NEW c \in Callers, NEW n \in Machines, NEW score \in Scores
          PROVE  /\ ~CheckProbe(c, n, score) /\ ~CheckAbandon(c, n, score)
                 /\ ~CheckLoad(c) /\ ~CheckCancel(c)
      BY <2>3 DEF CheckProbe, CheckAbandon, CheckLoad, CheckCancel
    <3>2. \A n \in Machines : ~RunSpawned(n)
      BY <2>3 DEF RunSpawned
    <3>3. ~UNCHANGED healthVars
      BY <2>3 DEF healthVars
    <3>4. \E n \in Machines : \/ DeleteMachine(n)
                             \/ \E auto \in BOOLEAN : CreateMachine(n, auto)
      BY <1>3, <1>4, <1>6, <2>6, <3>1, <3>2, <3>3 DEF HealthNext, Scores
    <3> QED BY <2>2, <3>4
  <2> QED BY <2>4, <2>5, <2>6, HealthClass
<1> QED BY <1>1, <1>6 DEF Renews

(* The history variables of Rotation keep the invariant of those of HealthHistory. *)
LEMMA EvidenceKept ==
  ASSUME RotationTypeOK, EvidenceInv, [Next]_vars, NoteChecks \/ UNCHANGED historicVars
  PROVE  EvidenceInv'
<1>0. HealthTypeOK' /\ HealthMatchesCounters'
  BY HealthPart, HealthAgrees DEF EvidenceInv
<1>1. ASSUME NEW c \in Callers, CheckStore(c), NoteCheck(c) PROVE EvidenceInv'
  BY <1>1, EvidenceStep DEF HistoryNext
<1>2. ASSUME NEW m \in Machines, Renews(m), NoteRenewal(m) PROVE EvidenceInv'
  <2>1. HistoryTypeOK'
    BY <1>0, <1>2, ThresholdAssumption DEF NoteRenewal, EvidenceInv, HistoryTypeOK
  <2>2. UNCHANGED failed
    BY <1>2 DEF NoteRenewal
  <2>3. /\ UNCHANGED <<check, spawned>> /\ machine'[m].failure = 0
        /\ \A n \in Machines : n # m => machine'[n] = machine[n]
    BY <1>2, RenewedRow
  <2>4. CountersHaveEvidence' /\ SpawnedHasEvidence'
    BY <2>1, <2>2, <2>3, QuietEvidence
  <2>5. CountersHaveGrounds'
    BY <1>2, <2>3, RenewalGrounds
  <2> QED BY <1>0, <2>1, <2>4, <2>5 DEF EvidenceInv
<1>3. ASSUME Crash, late' = {}, UNCHANGED <<failed, grounds>> PROVE EvidenceInv'
  <2>1. HistoryTypeOK'
    BY <1>0, <1>3 DEF EvidenceInv, HistoryTypeOK
  <2>2. /\ UNCHANGED machine /\ \A m \in Machines : spawned'[m] = 0
        /\ check' = [c \in Callers |-> IdleCheck(check[c].machine)]
    BY <1>3 DEF Crash
  <2>3. \A c \in Callers : check'[c].failure = 0 /\ check'[c].machine \in Machines
    BY <2>2 DEF IdleCheck, RotationTypeOK, HealthTypeOK, Check
  <2>4. CountersHaveEvidence' /\ SpawnedHasEvidence'
    BY <1>3, <2>1, <2>2, <2>3 DEF CountersHaveEvidence, SpawnedHasEvidence, EvidenceInv,
                                  HistoryTypeOK
  <2>5. CountersHaveGrounds'
    BY <1>3, <2>1, <2>2, <2>3 DEF CountersHaveGrounds, EvidenceInv, HistoryTypeOK
  <2> QED BY <1>0, <2>1, <2>4, <2>5 DEF EvidenceInv
<1>4. ASSUME Unnoted, (\A c \in Callers : ~CheckStore(c)) \/ UNCHANGED vars
      PROVE  EvidenceInv'
  <2> DEFINE Quiet ==
        /\ \A m \in Machines : \/ machine'[m].failure = machine[m].failure
                              \/ machine'[m].failure = 0
        /\ \A c \in Callers :
             \/ check'[c].failure = 0 /\ check'[c].machine \in Machines
             \/ /\ check'[c].machine = check[c].machine
                /\ \/ check'[c].failure = check[c].failure
                   \/ check'[c].failure = machine[check[c].machine].failure
        /\ \A m \in Machines : spawned'[m] > 0 => spawned[m] > 0
  <2>1. HistoryTypeOK'
    BY <1>0, <1>4 DEF Unnoted, EvidenceInv, HistoryTypeOK
  <2>2. Quiet
    <3>1. CASE UNCHANGED vars
      BY <3>1 DEF vars, healthVars
    <3>2. CASE WritesRow
      BY <3>2, WrittenRow
    <3>3. CASE (\E j \in Jobs : CancelRequest(j)) \/ Crash
      <4>1. \A c \in Callers : check'[c].machine \in Machines
        BY <1>0 DEF HealthTypeOK, Check
      <4>2. \A m \in Machines : spawned'[m] > 0 => spawned[m] > 0
        BY <3>3, CutShort
      <4> QED BY <3>3, <4>1, <4>2, CutShort
    <3>4. CASE [HealthNext]_healthVars /\ \A c \in Callers : ~CheckStore(c)
      BY <3>4, QuietHealth DEF RotationTypeOK
    <3> HIDE DEF Quiet
    <3> QED BY <1>4, <3>1, <3>2, <3>3, <3>4, HealthClass
  <2>3. CountersHaveEvidence' /\ SpawnedHasEvidence'
    BY <1>4, <2>1, <2>2, QuietEvidence DEF Unnoted
  <2>4. CountersHaveGrounds'
    BY <1>4, <2>2, QuietGrounds DEF Unnoted
  <2> QED BY <1>0, <2>1, <2>3, <2>4 DEF EvidenceInv
<1> QED BY <1>1, <1>2, <1>3, <1>4 DEF NoteChecks, historicVars, Unnoted

(* An automatic rotation in progress was one before, or has been started by a check. *)
LEMMA AutoBefore ==
  ASSUME RotationTypeOK, [Next]_vars, NEW j \in Jobs, Live(j)', job'[j].auto
  PROVE  \/ Live(j) /\ job[j].auto /\ job'[j].machine = job[j].machine
         \/ job'[j].machine \in Machines /\ spawned[job'[j].machine] > 0
<1>0. job \in [Jobs -> Job]
  BY DEF RotationTypeOK
<1>1. ASSUME NEW i \in Jobs, NEW m \in Machines, NEW auto \in BOOLEAN, Enter(i, m, auto)
      PROVE  \/ job'[j] = job[j]
             \/ i = j /\ job'[j].machine = m /\ job'[j].auto = auto
  BY <1>0, <1>1 DEF Enter, IdleJob
<1>2. ASSUME NEW i \in Jobs, NEW m \in Machines, EnterManual(i, m) PROVE job'[j] = job[j]
  BY <1>1, <1>2 DEF EnterManual
<1>3. ASSUME NEW i \in Jobs, NEW m \in Machines, EnterAuto(i, m)
      PROVE  job'[j] = job[j] \/ (job'[j].machine = m /\ spawned[m] > 0)
  BY <1>1, <1>3 DEF EnterAuto, RunSpawned
<1>4. ASSUME NEW i \in Jobs, Moves(i) \/ Returns(i)
      PROVE  \/ job'[j] = job[j]
             \/ Live(j) /\ job[j].auto /\ job'[j].machine = job[j].machine
  BY <1>0, <1>4 DEF Moves, Returns, Return, IdleJob, Live
<1>5. CASE job'[j] = job[j]
  BY <1>5 DEF Live
<1>6. ~Crash
  BY DEF Crash, IdleJob, Live
<1>7. ASSUME NEW i \in Jobs, JobStep(i)
      PROVE  \/ job'[j] = job[j]
             \/ Live(j) /\ job[j].auto /\ job'[j].machine = job[j].machine
  BY <1>4, <1>7, JobStepClass
<1>8. ASSUME NEW i \in Jobs, CancelRequest(i)
      PROVE  \/ job'[j] = job[j]
             \/ Live(j) /\ job[j].auto /\ job'[j].machine = job[j].machine
  BY <1>0, <1>8 DEF CancelRequest, Live, Job
<1>9. ASSUME NEW c \in Callers, OtherCheck(c) PROVE job' = job
  BY <1>9 DEF OtherCheck, rotationVars
<1>10. ASSUME NEW m \in Machines,
              AutoBusy(m) \/ OtherWrite(m) \/ \E ip \in IPs : PanelAssign(m, ip)
       PROVE  job' = job
  BY <1>10, OtherWriteKeeps DEF AutoBusy, PanelAssign, rotationVars
<1>11. CASE Tick \/ UNCHANGED vars
  BY <1>5, <1>11 DEF Tick, vars
<1> QED BY <1>2, <1>3, <1>5, <1>6, <1>7, <1>8, <1>9, <1>10, <1>11 DEF Next

(***************************************************************************)
(* The inductive invariant: the evidence that started a rotation is never  *)
(* taken back while it goes on, since no step lowers the evidence.         *)
(***************************************************************************)
LiveHasEvidence ==
  \A j \in Jobs : Live(j) /\ job[j].auto => failed[job[j].machine] = FailureThreshold

GroundsInv == EvidenceInv /\ LiveHasEvidence

LEMMA FailedStays ==
  ASSUME HistoryTypeOK, NoteChecks \/ UNCHANGED historicVars,
         NEW m \in Machines, failed[m] = FailureThreshold
  PROVE  failed'[m] = FailureThreshold
<1>1. CASE UNCHANGED failed
  BY <1>1
<1>2. ASSUME NEW c \in Callers, NoteCheck(c) PROVE failed'[m] = FailureThreshold
  <2>1. failed' = failed \/ failed' = [failed EXCEPT ![check[c].machine] = OneMore(@)]
    BY <1>2 DEF NoteCheck
  <2>2. OneMore(FailureThreshold) = FailureThreshold
    BY ThresholdAssumption DEF OneMore, UpTo
  <2> QED BY <2>1, <2>2 DEF HistoryTypeOK
<1> QED BY <1>1, <1>2 DEF NoteChecks, NoteRenewal, Unnoted, historicVars

LEMMA GroundsStep ==
  ASSUME RotationTypeOK, GroundsInv, [HistoricNext]_historicVars
  PROVE  GroundsInv'
<1>1. [Next]_vars /\ (NoteChecks \/ UNCHANGED historicVars)
  BY DEF HistoricNext, historicVars, vars
<1>2. EvidenceInv'
  BY <1>1, EvidenceKept DEF GroundsInv
<1>3. ASSUME NEW j \in Jobs, Live(j)', job'[j].auto
      PROVE  failed'[job'[j].machine] = FailureThreshold
  <2>1. job[j].machine \in Machines /\ HistoryTypeOK
    BY DEF RotationTypeOK, Job, GroundsInv, EvidenceInv
  <2>2. job'[j].machine \in Machines /\ failed[job'[j].machine] = FailureThreshold
    BY <1>1, <1>3, <2>1, AutoBefore
    DEF GroundsInv, LiveHasEvidence, EvidenceInv, SpawnedHasEvidence
  <2> QED BY <1>1, <2>1, <2>2, FailedStays
<1> QED BY <1>2, <1>3 DEF GroundsInv, LiveHasEvidence

LEMMA HistoricIsSpec == HistoricSpec => Spec
<1>1. HistoricInit => RotationInit
  BY DEF HistoricInit
<1>2. [HistoricNext]_historicVars => [Next]_vars
  BY DEF HistoricNext, historicVars, vars
<1> QED BY <1>1, <1>2, PTL DEF HistoricSpec, Spec

(***************************************************************************)
(* An automatic rotation of a machine is in progress or about to start     *)
(* only after FailureThreshold of its checks really failed, however the    *)
(* checks overlap with one another, with rotations, which reset the        *)
(* counters, and with restarts.                                            *)
(***************************************************************************)
THEOREM GroundsCorrect == HistoricSpec => []EvidenceBeforeRotation
<1>1. HistoricInit => GroundsInv
  <2> SUFFICES ASSUME HistoricInit PROVE GroundsInv
    OBVIOUS
  <2>1. EvidenceInv
    BY EvidenceInit DEF HistoricInit, RotationInit, HistoryInit
  <2>2. \A j \in Jobs : job[j].pc = "idle"
    BY DEF HistoricInit, RotationInit, IdleJob
  <2> QED BY <2>1, <2>2 DEF GroundsInv, LiveHasEvidence, Live
<1>2. GroundsInv => EvidenceBeforeRotation
  BY EvidenceImplies DEF GroundsInv, LiveHasEvidence, EvidenceBeforeRotation
<1> QED
  BY <1>1, <1>2, GroundsStep, HistoricIsSpec, RotationTypeCorrect, PTL DEF HistoricSpec
=============================================================================
