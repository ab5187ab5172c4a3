------------------------------ MODULE Scheduler ------------------------------
(***************************************************************************)
(* The probe scheduler (backend/internal/api/scheduler.go) and the results *)
(* it goes by.  A tick selects the enabled controller probes without a     *)
(* result inside their interval and starts a check of each of their        *)
(* machines, in a goroutine the scheduler does not wait for; the check     *)
(* runs every enabled probe of the machine and stores a result for each.   *)
(*                                                                         *)
(* The query compares two texts.  Results are stored in RFC 3339           *)
(* ("2006-01-02T15:04:05Z"), SQLite's datetime() answers with a blank      *)
(* where the T is ("2006-01-02 15:04:05"), and T sorts after the blank.    *)
(***************************************************************************)
EXTENDS Integers, FiniteSets

CONSTANTS
  Machines,
  Probes,       \* ids of probe rules
  Intervals,    \* interval_seconds a rule may have
  DayLength,    \* seconds in a day
  Start,        \* time at which the controller starts
  MaxTime,      \* bound of the clock
  MaxStarted,   \* bound: checks of a machine started and not running yet
  MaxInFlight   \* bound: runs of a probe in flight

ASSUME SchedulerConstants ==
  /\ Intervals \subseteq Nat \ {0}
  /\ DayLength \in Nat \ {0}
  /\ Start \in Nat /\ MaxTime \in Nat
  /\ MaxStarted \in Nat /\ MaxInFlight \in Nat
  /\ \A n \in Intervals : n <= Start

VARIABLES
  clock,
  rule,      \* rows of probe_configs
  last,      \* checked_at of the latest result of each probe, or None
  started,   \* goroutines "checkMachineNow" that have not read the probes yet
  inFlight   \* checks that have, and still have to run the probe

vars == <<clock, rule, last, started, inFlight>>

None == -1

(***************************************************************************)
(* A rule as far as the scheduler reads it: active when it is enabled and  *)
(* has source "controller".  (One that is not there yet, or has been       *)
(* deleted, is one that is not active.)                                    *)
(***************************************************************************)
Rule == [active : BOOLEAN, machine : Machines, interval : Intervals]

-----------------------------------------------------------------------------
(* Timestamps as texts: a date, the separator, the seconds of the day. *)

Blank == 0
T     == 1

Text(t, separator) == <<t \div DayLength, separator, t % DayLength>>

After(a, b) ==
  \/ a[1] > b[1]
  \/ a[1] = b[1] /\ a[2] > b[2]
  \/ a[1] = b[1] /\ a[2] = b[2] /\ a[3] > b[3]

(* Mutant of Recent: the interval is left out of the cutoff. *)
RecentToday(p) == last[p] # None /\ After(Text(last[p], T), Text(clock, Blank))

(* Mutant of Recent: an inner join with the results, so a new probe is never due. *)
RecentOrNew(p) ==
  last[p] = None \/ After(Text(last[p], T), Text(clock - rule[p].interval, Blank))

(* r.checked_at > datetime('now', '-' || p.interval_seconds || ' seconds') *)
Recent(p) == last[p] # None /\ After(Text(last[p], T), Text(clock - rule[p].interval, Blank))

Active == {p \in Probes : rule[p].active}

Due == {p \in Active : ~Recent(p)}

SchedulerInit ==
  /\ clock = Start
  /\ rule \in [Probes -> Rule]
  /\ last = [p \in Probes |-> None]
  /\ started = [m \in Machines |-> 0]
  /\ inFlight = [p \in Probes |-> 0]

(* One check per machine, however many of its probes are due. *)
DueMachines == {rule[p].machine : p \in Due}

SchedulerTick ==
  /\ \A m \in DueMachines : started[m] < MaxStarted
  /\ started' = [m \in Machines |->
       IF m \in DueMachines THEN started[m] + 1 ELSE started[m]]
  /\ UNCHANGED <<clock, rule, last, inFlight>>

ProbesOf(m) == {p \in Active : rule[p].machine = m}

(* Mutant of SelectProbes: one goroutine is counted off for each probe. *)
SelectProbesEach(m) ==
  /\ started[m] > 0
  /\ \A p \in ProbesOf(m) : inFlight[p] < MaxInFlight
  /\ started' = [started EXCEPT ![m] = @ - Cardinality(ProbesOf(m))]
  /\ inFlight' = [p \in Probes |->
       IF p \in ProbesOf(m) THEN inFlight[p] + 1 ELSE inFlight[p]]
  /\ UNCHANGED <<clock, rule, last>>

(* The goroutine runs: it selects the probes the machine has by then. *)
SelectProbes(m) ==
  /\ started[m] > 0
  /\ \A p \in ProbesOf(m) : inFlight[p] < MaxInFlight
  /\ started' = [started EXCEPT ![m] = @ - 1]
  /\ inFlight' = [p \in Probes |->
       IF p \in ProbesOf(m) THEN inFlight[p] + 1 ELSE inFlight[p]]
  /\ UNCHANGED <<clock, rule, last>>

(* A check in flight runs a probe and stores the result (executeProbe). *)
ExecuteProbe(p) ==
  /\ inFlight[p] > 0
  /\ inFlight' = [inFlight EXCEPT ![p] = @ - 1]
  /\ last' = [last EXCEPT ![p] = clock]
  /\ UNCHANGED <<clock, rule, started>>

(* An administrator, or a check the scheduler did not start, runs the probe. *)
RunProbe(p) ==
  /\ last' = [last EXCEPT ![p] = clock]
  /\ UNCHANGED <<clock, rule, started, inFlight>>

(* PUT of a rule sets all its columns, whatever checks have read before. *)
UpdateProbe(p, new) ==
  /\ rule' = [rule EXCEPT ![p] = new]
  /\ UNCHANGED <<clock, last, started, inFlight>>

(* A restart loses the checks in flight; the results stay. *)
Restart ==
  /\ started' = [m \in Machines |-> 0]
  /\ inFlight' = [p \in Probes |-> 0]
  /\ UNCHANGED <<clock, rule, last>>

TimePasses ==
  /\ clock < MaxTime
  /\ clock' = clock + 1
  /\ UNCHANGED <<rule, last, started, inFlight>>

SchedulerNext ==
  \/ SchedulerTick
  \/ \E m \in Machines : SelectProbes(m)
  \/ \E p \in Probes : \/ ExecuteProbe(p) \/ RunProbe(p)
                       \/ \E new \in Rule : UpdateProbe(p, new)
  \/ Restart
  \/ TimePasses

SchedulerSpec == SchedulerInit /\ [][SchedulerNext]_vars

-----------------------------------------------------------------------------

SchedulerTypeOK ==
  /\ clock \in Nat /\ clock >= Start
  /\ rule \in [Probes -> Rule]
  /\ last \in [Probes -> Nat \union {None}]
  /\ started \in [Machines -> Nat]
  /\ inFlight \in [Probes -> Nat]

(* For n seconds at least, p has had no result in its interval by the clock. *)
LapsedFor(p, n) == last[p] = None \/ last[p] + rule[p].interval + n <= clock

(***************************************************************************)
(* A tick starts a check only of a machine that has an active probe whose  *)
(* interval has passed: comparing the texts never makes a probe due early. *)
(* (It judges the tick.  The goroutine goes by the rules of its own time.) *)
(***************************************************************************)
NeverEarly ==
  [][\A m \in Machines : started'[m] > started[m] =>
       \E p \in ProbesOf(m) : LapsedFor(p, 0)]_vars

(***************************************************************************)
(* Nor does it starve one: a tick leaves no machine without a check when   *)
(* the interval of an active probe passed a whole day ago.  The fairness   *)
(* assumed in Reachability rests on this.                                  *)
(***************************************************************************)
NeverStarved ==
  [][SchedulerTick =>
       \A p \in Active : LapsedFor(p, DayLength) => started'[rule[p].machine] > 0]_vars

(***************************************************************************)
(* DESIGN: check interval 300 seconds.  A tick leaves no machine without a *)
(* check when the interval of an active probe has passed.                  *)
(***************************************************************************)
OnTime ==
  [][SchedulerTick =>
       \A p \in Active : LapsedFor(p, 0) =>
         started'[rule[p].machine] > 0 \/ inFlight[p] > 0]_vars
=============================================================================
