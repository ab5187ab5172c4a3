------------------------------ MODULE Rotation ------------------------------
(***************************************************************************)
(* Rotation of a machine's public address (rotate in                       *)
(* backend/internal/api/rotation.go), composed with the checks that start  *)
(* it, confirm it and follow it (module HealthCheck).                      *)
(*                                                                         *)
(* A rotation is a sequence of statements and calls with no transaction    *)
(* around them: it takes an in-memory lock on the machine, reads the row,  *)
(* checks the limits, asks the provider's panel for a new address, polls   *)
(* until it sees one, and records it.  An automatic rotation is a          *)
(* goroutine of its own; a manual one runs under the context of the HTTP   *)
(* request, so when the client gives up its later statements fail, and     *)
(* those whose error is ignored silently do nothing.  The process may die  *)
(* between any two steps: the lock is gone and the tables stay.            *)
(*                                                                         *)
(* Left out here: the DNS records updated after the address is recorded,   *)
(* and notifications.                                                      *)
(***************************************************************************)
EXTENDS HealthCheck, Sequences, FiniteSets

CONSTANTS
  Jobs,                \* goroutines that may be inside rotate
  RotationCooldown,    \* ROTATION_COOLDOWN_MINUTES, in ticks
  MaxRotationsPerDay,  \* MAX_ROTATIONS_PER_DAY
  RequireConfirmation, \* REQUIRE_CONFIRMATION_CHECK
  DayLength,           \* ticks in a day
  MayCrash,            \* may the process die?
  MaxTime,             \* bound of the clock
  MaxRows              \* bound of the rotations table

ASSUME RotationConstants ==
  /\ Jobs \subseteq Callers /\ Jobs \intersect Requests = {}
  /\ RotationCooldown \in Nat /\ MaxRotationsPerDay \in Nat
  /\ RequireConfirmation \in BOOLEAN /\ MayCrash \in BOOLEAN
  /\ DayLength \in Nat \ {0}
  /\ MaxTime \in Nat /\ MaxRows \in Nat

VARIABLES
  now,        \* the clock
  lock,       \* a.rotations: machines with a rotation in progress
  job,        \* local state of each rotate
  rotations,  \* the rotations table, by id
  panel       \* the provider: assigned address, changes asked for and done

rotationVars == <<now, lock, job, rotations, panel>>
vars == <<machine, check, spawned, now, lock, job, rotations, panel>>

-----------------------------------------------------------------------------

PCs == {"idle", "load", "limit", "confirm", "confirming", "list", "insert",
        "change", "poll", "record", "post", "posting", "finish"}

Job == [pc        : PCs,
        machine   : Machines,
        auto      : BOOLEAN,    \* trigger_type
        cancelled : BOOLEAN,    \* the client of the request has gone
        old       : Address,
        new       : Address,
        row       : Nat]        \* id in the rotations table

IdleJob(m) == [pc |-> "idle", machine |-> m, auto |-> FALSE, cancelled |-> FALSE,
               old |-> NoIP, new |-> NoIP, row |-> 0]

RotationRow == [machine : Machines, auto : BOOLEAN, old : Address, new : Address,
                status  : {"running", "failed", "completed"},
                started : Nat]

Panel == [ip : Address, asked : Nat, done : Nat]

Day(t) == t \div DayLength

RotationInit ==
  /\ HealthInit
  /\ now = 0
  /\ lock = {}
  /\ job \in [Jobs -> {IdleJob(m) : m \in Machines}]
  /\ rotations = <<>>
  /\ panel \in [Machines -> [ip : IPs, asked : {0}, done : {0}]]

Go(j, pc) ==
  /\ job' = [job EXCEPT ![j].pc = pc]
  /\ UNCHANGED lock

(* Mutant of Return: the Delete is not deferred, and this return forgets it. *)
ReturnLocked(j) ==
  /\ job' = [job EXCEPT ![j] = IdleJob(job[j].machine)]
  /\ UNCHANGED lock

(* Every return runs the deferred a.rotations.Delete. *)
Return(j) ==
  /\ job' = [job EXCEPT ![j] = IdleJob(job[j].machine)]
  /\ lock' = lock \ {job[j].machine}

-----------------------------------------------------------------------------
(* Mutant of Enter: a.rotations.Store, whoever holds the lock. *)
EnterUnlocked(j, m, auto) ==
  /\ job[j].pc = "idle"
  /\ Len(rotations) + Cardinality(lock) < MaxRows
  /\ lock' = lock \union {m}
  /\ job' = [job EXCEPT ![j] = [IdleJob(m) EXCEPT !.pc = "load", !.auto = auto]]
  /\ UNCHANGED <<now, rotations, panel>>

(* Entering rotate: a.rotations.LoadOrStore. *)
Enter(j, m, auto) ==
  /\ job[j].pc = "idle"
  /\ m \notin lock
  /\ Len(rotations) + Cardinality(lock) < MaxRows
  /\ lock' = lock \union {m}
  /\ job' = [job EXCEPT ![j] = [IdleJob(m) EXCEPT !.pc = "load", !.auto = auto]]
  /\ UNCHANGED <<now, rotations, panel>>

(* POST /machines/{id}/change-ip; a busy machine is refused, with no effect. *)
EnterManual(j, m) == Enter(j, m, FALSE) /\ UNCHANGED healthVars

EnterAuto(j, m) == RunSpawned(m) /\ Enter(j, m, TRUE)

AutoBusy(m) ==
  /\ m \in lock
  /\ RunSpawned(m)
  /\ UNCHANGED rotationVars

(* Mutant of MayRotate: the cooldown column is selected and not looked at. *)
MayRotateSoon(j) ==
  LET row == machine[job[j].machine] IN
  /\ row.exists /\ ~job[j].cancelled
  /\ job[j].auto => AutoRotateGlobal /\ row.auto

(***************************************************************************)
(* SELECT the machine; an automatic rotation also needs both opt-ins and   *)
(* no cooldown.                                                            *)
(***************************************************************************)
MayRotate(j) ==
  LET row == machine[job[j].machine] IN
  /\ row.exists /\ ~job[j].cancelled
  /\ job[j].auto => AutoRotateGlobal /\ row.auto /\ now >= row.cooldown

LoadMachine(j) ==
  /\ job[j].pc = "load"
  /\ \/ ~MayRotate(j) /\ Return(j)
     \/ /\ MayRotate(j)
        /\ job' = [job EXCEPT ![j].pc = IF job[j].auto THEN "limit" ELSE "list",
                              ![j].old = machine[job[j].machine].ip]
        /\ UNCHANGED lock
  /\ UNCHANGED <<healthVars, now, rotations, panel>>

(* Completed rotations of m, of either trigger, that started on day d or later. *)
CompletedSince(m, d) ==
  {i \in DOMAIN rotations : /\ rotations[i].machine = m
                            /\ rotations[i].status = "completed"
                            /\ Day(rotations[i].started) >= d}

(* Mutant of BelowLimit: the last rotation of the day is one too many. *)
BelowLimitOrAt(m) == Cardinality(CompletedSince(m, Day(now))) <= MaxRotationsPerDay

BelowLimit(m) == Cardinality(CompletedSince(m, Day(now))) < MaxRotationsPerDay

CountLimit(j) ==
  /\ job[j].pc = "limit"
  /\ \/ ~BelowLimit(job[j].machine) /\ Return(j)
     \/ /\ BelowLimit(job[j].machine)
        /\ Go(j, IF RequireConfirmation THEN "confirm" ELSE "list")
  /\ UNCHANGED <<healthVars, now, rotations, panel>>

(***************************************************************************)
(* checkMachineNow as confirmation and, further down, as check of the new  *)
(* address.  With no enabled probe, or a cancelled context, it returns an  *)
(* error at once: no confirmation, and no post check either.               *)
(***************************************************************************)
Confirm(j, score) ==
  /\ job[j].pc = "confirm"
  /\ \/ CheckProbe(j, job[j].machine, score) /\ Go(j, "confirming")
     \/ Return(j) /\ UNCHANGED healthVars
  /\ UNCHANGED <<now, rotations, panel>>

PostCheck(j, score) ==
  /\ job[j].pc = "post"
  /\ \/ ~job[j].cancelled /\ CheckProbe(j, job[j].machine, score) /\ Go(j, "posting")
     \/ Go(j, "finish") /\ UNCHANGED healthVars
  /\ UNCHANGED <<now, rotations, panel>>

JobCheckLoad(j) == CheckLoad(j) /\ UNCHANGED rotationVars

JobCheckStore(j) ==
  /\ CheckStore(j)
  /\ \/ job[j].pc = "confirming" /\ check[j].score = "high" /\ Go(j, "list")
     \/ job[j].pc = "confirming" /\ check[j].score # "high" /\ Return(j)
     \/ job[j].pc = "posting" /\ Go(j, "finish")
  /\ UNCHANGED <<now, rotations, panel>>

-----------------------------------------------------------------------------
(***************************************************************************)
(* The provider's panel is asked for the current address.  The rotation    *)
(* ends when the panel's configuration cannot be read; when its answer is  *)
(* an error or does not show the machine with an address, the address read *)
(* from the row is kept as the old one.                                    *)
(***************************************************************************)
ListOld(j) ==
  /\ job[j].pc = "list"
  /\ \/ Return(j)
     \/ Go(j, "insert")
     \/ /\ ~job[j].cancelled
        /\ job' = [job EXCEPT ![j].pc = "insert", ![j].old = panel[job[j].machine].ip]
        /\ UNCHANGED lock
  /\ UNCHANGED <<healthVars, now, rotations, panel>>

(* Mutant of InsertRow: the old address is the one the row shows by now. *)
InsertRowStored(j) ==
  /\ job[j].pc = "insert"
  /\ \/ job[j].cancelled /\ Return(j) /\ UNCHANGED rotations
     \/ /\ ~job[j].cancelled
        /\ rotations' = Append(rotations,
             [machine |-> job[j].machine, auto |-> job[j].auto,
              old |-> machine[job[j].machine].ip,
              new |-> NoIP, status |-> "running", started |-> now])
        /\ job' = [job EXCEPT ![j].pc = "change", ![j].row = Len(rotations) + 1]
        /\ UNCHANGED lock
  /\ UNCHANGED <<healthVars, now, panel>>

InsertRow(j) ==
  /\ job[j].pc = "insert"
  /\ \/ job[j].cancelled /\ Return(j) /\ UNCHANGED rotations
     \/ /\ ~job[j].cancelled
        /\ rotations' = Append(rotations,
             [machine |-> job[j].machine, auto |-> job[j].auto, old |-> job[j].old,
              new |-> NoIP, status |-> "running", started |-> now])
        /\ job' = [job EXCEPT ![j].pc = "change", ![j].row = Len(rotations) + 1]
        /\ UNCHANGED lock
  /\ UNCHANGED <<healthVars, now, panel>>

(* Mutant of FailRotation: a status the history does not know. *)
FailRotationError(j) ==
  /\ rotations' = [rotations EXCEPT ![job[j].row].status = "error"]
  /\ Return(j)

(* failRotation uses no context: its UPDATE is not lost with the request. *)
FailRotation(j) ==
  /\ rotations' = [rotations EXCEPT ![job[j].row].status = "failed"]
  /\ Return(j)

(* Mutant of AskChange: a request whose answer was lost is sent again. *)
AskChangeAgain(j) ==
  LET asked == [panel EXCEPT ![job[j].machine].asked = @ + 1] IN
  /\ job[j].pc = "change"
  /\ \/ ~job[j].cancelled /\ panel' = asked /\ Go(j, "poll") /\ UNCHANGED rotations
     \/ panel' = asked /\ Go(j, "change") /\ UNCHANGED rotations
     \/ panel' = panel /\ FailRotation(j)
  /\ UNCHANGED <<healthVars, now>>

(* changeIp: accepted, refused, or accepted with the answer lost. *)
AskChange(j) ==
  LET asked == [panel EXCEPT ![job[j].machine].asked = @ + 1] IN
  /\ job[j].pc = "change"
  /\ \/ ~job[j].cancelled /\ panel' = asked /\ Go(j, "poll") /\ UNCHANGED rotations
     \/ panel' \in {panel, asked} /\ FailRotation(j)
  /\ UNCHANGED <<healthVars, now>>

(* Mutant of Poll: no deadline. *)
PollForever(j) ==
  LET ip == panel[job[j].machine].ip IN
  /\ job[j].pc = "poll"
  /\ ip # job[j].old /\ ~job[j].cancelled
  /\ job' = [job EXCEPT ![j].pc = "record", ![j].new = ip]
  /\ UNCHANGED <<healthVars, now, panel, lock, rotations>>

(* Mutant of Poll: every address the provider shows is taken for the new one. *)
PollAny(j) ==
  LET ip == panel[job[j].machine].ip IN
  /\ job[j].pc = "poll"
  /\ \/ /\ ~job[j].cancelled
        /\ job' = [job EXCEPT ![j].pc = "record", ![j].new = ip]
        /\ UNCHANGED <<lock, rotations>>
     \/ FailRotation(j)
  /\ UNCHANGED <<healthVars, now, panel>>

(***************************************************************************)
(* The wait and the polls every 10 s: an answer that shows an address      *)
(* other than the old one ends them, as do the deadline and the end of the *)
(* request.  Every other answer leaves the state alone.                    *)
(***************************************************************************)
Poll(j) ==
  LET ip == panel[job[j].machine].ip IN
  /\ job[j].pc = "poll"
  /\ \/ /\ ip # job[j].old /\ ~job[j].cancelled
        /\ job' = [job EXCEPT ![j].pc = "record", ![j].new = ip]
        /\ UNCHANGED <<lock, rotations>>
     \/ FailRotation(j)
  /\ UNCHANGED <<healthVars, now, panel>>

(* UPDATE machines, under the context and with its error ignored. *)
RecordAddress(j) ==
  LET m == job[j].machine IN
  /\ job[j].pc = "record"
  /\ machine' = IF machine[m].exists /\ ~job[j].cancelled
                THEN [machine EXCEPT ![m] = Recorded(@, job[j].new, now + RotationCooldown)]
                ELSE machine
  /\ Go(j, "post")
  /\ UNCHANGED <<check, spawned, now, rotations, panel>>

(* UPDATE rotations, likewise. *)
FinishRotation(j) ==
  /\ job[j].pc = "finish"
  /\ rotations' = IF job[j].cancelled THEN rotations
                  ELSE [rotations EXCEPT ![job[j].row].status = "completed",
                                         ![job[j].row].new = job[j].new]
  /\ Return(j)
  /\ UNCHANGED <<healthVars, now, panel>>

(* The client of a manual rotation goes away, during a check or not. *)
CancelRequest(j) ==
  /\ job[j].pc # "idle" /\ ~job[j].auto /\ ~job[j].cancelled
  /\ job' = [job EXCEPT ![j].cancelled = TRUE]
  /\ check' = IF check[j].pc = "idle" THEN check
              ELSE [check EXCEPT ![j].pc = "cancelled"]
  /\ UNCHANGED <<machine, spawned, now, lock, rotations, panel>>

-----------------------------------------------------------------------------
(* Everything else that moves. *)

Tick ==
  /\ now < MaxTime
  /\ now' = now + 1
  /\ UNCHANGED <<healthVars, lock, job, rotations, panel>>

(* The provider carries out a change it was asked for, at its own pace. *)
PanelAssign(m, ip) ==
  /\ panel[m].done < panel[m].asked
  /\ ip # panel[m].ip
  /\ panel' = [panel EXCEPT ![m].ip = ip, ![m].done = @ + 1]
  /\ UNCHANGED <<healthVars, now, lock, job, rotations>>

(* A provider sync, a registration or a heartbeat writes the address it was told. *)
ReportAddress(m, ip) ==
  /\ machine' = [machine EXCEPT ![m] =
       [(IF machine[m].exists THEN @ ELSE NewRow) EXCEPT !.ip = ip]]
  /\ UNCHANGED <<check, spawned, rotationVars>>

(* PATCH of a machine writes auto_rotate_enabled, given or as read before. *)
UpdateMachine(m, auto) ==
  /\ machine[m].exists
  /\ machine' = [machine EXCEPT ![m].auto = auto]
  /\ UNCHANGED <<check, spawned, rotationVars>>

(* The process stops and starts again: what is in memory is lost. *)
Crash ==
  /\ MayCrash
  /\ lock' = {}
  /\ job' = [j \in Jobs |-> IdleJob(job[j].machine)]
  /\ check' = [c \in Callers |-> IdleCheck(check[c].machine)]
  /\ spawned' = [m \in Machines |-> 0]
  /\ UNCHANGED <<machine, now, rotations, panel>>

(* A statement or call of rotate itself, or of the check it has started. *)
JobStep(j) ==
  \/ LoadMachine(j)
  \/ CountLimit(j)
  \/ \E score \in Scores : Confirm(j, score) \/ PostCheck(j, score)
  \/ JobCheckLoad(j)
  \/ JobCheckStore(j)
  \/ ListOld(j)
  \/ InsertRow(j)
  \/ AskChange(j)
  \/ Poll(j)
  \/ RecordAddress(j)
  \/ FinishRotation(j)

(* Checks that no rotation runs. *)
OtherCheck(c) ==
  /\ \/ \E m \in Machines, score \in Scores : CheckProbe(c, m, score)
     \/ CheckLoad(c)
     \/ CheckCancel(c)
     \/ CheckStore(c)
  /\ UNCHANGED rotationVars

(* What others write of machine m. *)
OtherWrite(m) ==
  \/ \E ip \in Address : ReportAddress(m, ip)
  \/ \E auto \in BOOLEAN : UpdateMachine(m, auto)
  \/ DeleteMachine(m) /\ UNCHANGED rotationVars
  \/ \E auto \in BOOLEAN : CreateMachine(m, auto) /\ UNCHANGED rotationVars

Next ==
  \/ \E j \in Jobs :
       \/ \E m \in Machines : EnterManual(j, m) \/ EnterAuto(j, m)
       \/ JobStep(j)
       \/ CancelRequest(j)
  \/ \E c \in Callers \ Jobs : OtherCheck(c)
  \/ \E m \in Machines :
       \/ AutoBusy(m)
       \/ OtherWrite(m)
       \/ \E ip \in IPs : PanelAssign(m, ip)
  \/ Tick
  \/ Crash

Spec == RotationInit /\ [][Next]_vars

(***************************************************************************)
(* A rotation that runs ends: provider calls time out, the poll has a      *)
(* deadline and the database answers, so each job takes its next step.     *)
(* (Strong fairness only makes up for the bound MaxSpawned in the guard of *)
(* CheckStore: nothing in the code disables a step.)  Goroutines that were *)
(* started get to run.                                                     *)
(***************************************************************************)
Fairness ==
  /\ \A j \in Jobs : SF_vars(JobStep(j))
  /\ \A m \in Machines : WF_vars(AutoBusy(m))

FairSpec == Spec /\ Fairness

-----------------------------------------------------------------------------

RotationTypeOK ==
  /\ HealthTypeOK
  /\ now \in Nat
  /\ lock \subseteq Machines
  /\ job \in [Jobs -> Job]
  /\ rotations \in Seq(RotationRow)
  /\ panel \in [Machines -> Panel]

Live(j) == job[j].pc # "idle"

(* One rotation of a machine at a time, whatever starts it. *)
OneRotationPerMachine ==
  \A j, k \in Jobs :
    Live(j) /\ Live(k) /\ job[j].machine = job[k].machine => j = k

(***************************************************************************)
(* The lock is held by the rotations in progress and by nothing else: no   *)
(* return leaves a machine that can never be rotated again, and no second  *)
(* caller releases the lock of the first.                                  *)
(***************************************************************************)
LockIsOwned == lock = {job[j].machine : j \in {k \in Jobs : Live(k)}}

(* Steps of a rotation after its row has been inserted. *)
InHistory(j) == job[j].pc \in {"change", "poll", "record", "post", "posting", "finish"}

(***************************************************************************)
(* A rotation in progress has a row of its own, still running, with its    *)
(* machine, trigger and old address: no other rotation and no restart      *)
(* takes the row over or closes it.                                        *)
(***************************************************************************)
RowsAreOwned ==
  /\ \A j \in Jobs : InHistory(j) =>
       /\ job[j].row \in DOMAIN rotations
       /\ rotations[job[j].row] =
            [machine |-> job[j].machine, auto |-> job[j].auto, old |-> job[j].old,
             new |-> NoIP, status |-> "running", started |-> rotations[job[j].row].started]
  /\ \A j, k \in Jobs : InHistory(j) /\ InHistory(k) /\ job[j].row = job[k].row => j = k

(* An automatic rotation that is past its checks and has not recorded an address. *)
AutoUnderWay(j) ==
  /\ job[j].auto
  /\ job[j].pc \in {"limit", "confirm", "confirming", "list", "insert", "change",
                     "poll", "record"}

(***************************************************************************)
(* The cooldown is read once, minutes before the new address is recorded.  *)
(* It still holds then: no other rotation records one in between.          *)
(***************************************************************************)
CooldownHonoured ==
  \A j \in Jobs : AutoUnderWay(j) => now >= machine[job[j].machine].cooldown

(* Completed rotations of m that started on day d, whoever asked for them. *)
CompletedOnDay(m, d) ==
  {i \in DOMAIN rotations : /\ rotations[i].machine = m
                            /\ rotations[i].status = "completed"
                            /\ Day(rotations[i].started) = d}

(* Those that entered the history before row i did. *)
Before(i) ==
  {k \in CompletedOnDay(rotations[i].machine, Day(rotations[i].started)) : k < i}

(***************************************************************************)
(* An automatic rotation is completed only as one of the first             *)
(* MaxRotationsPerDay of its machine that start on its day, manual ones    *)
(* included, although the count is read before the row is inserted and a   *)
(* row is counted only when it is completed.                               *)
(***************************************************************************)
DailyLimit ==
  \A i \in DOMAIN rotations :
    rotations[i].auto /\ rotations[i].status = "completed" =>
      Cardinality(Before(i)) < MaxRotationsPerDay

(* Every rotation releases its lock in the end (or the process restarts). *)
LockReleased == \A m \in Machines : m \in lock ~> m \notin lock

-----------------------------------------------------------------------------
(* What the documents say, and the code does not do (see the README). *)

(***************************************************************************)
(* DESIGN: cooldown prevents repeated IP changes.  The provider carries    *)
(* out no more than one change per cooldown for a machine that is rotated  *)
(* automatically only.                                                     *)
(***************************************************************************)
CooldownPreventsRepeats ==
  \A m \in Machines :
    (\A i \in DOMAIN rotations : rotations[i].machine = m => rotations[i].auto)
      => panel[m].done <= 1 + now \div RotationCooldown

(***************************************************************************)
(* DESIGN: rotation history records old IP and new IP.  A rotation that    *)
(* got a new address ends with the address in its row.                     *)
(***************************************************************************)
NewAddressInHistory ==
  [][\A j \in Jobs : job[j].pc = "finish" /\ job'[j].pc = "idle"
       => rotations'[job[j].row].new = job[j].new]_vars
=============================================================================
