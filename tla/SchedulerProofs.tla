--------------------------- MODULE SchedulerProofs ---------------------------
(* Theorems about Scheduler, for every day length, set of rules and intervals. *)
EXTENDS Scheduler, TLAPS

(* Later times are not on earlier days. *)
LEMMA DayMonotone ==
  ASSUME NEW t \in Nat, NEW u \in Nat, t <= u
  PROVE  t \div DayLength <= u \div DayLength
  BY SchedulerConstants, Z3

(* A day later is on a later day. *)
LEMMA NextDay ==
  ASSUME NEW t \in Nat, NEW u \in Nat, t + DayLength <= u
  PROVE  t \div DayLength < u \div DayLength
  BY SchedulerConstants, Z3

(* The separators decide: a result is recent when its day is the day of the bound. *)
LEMMA TextOrder ==
  ASSUME NEW t \in Nat, NEW u \in Nat
  PROVE  After(Text(t, T), Text(u, Blank)) <=> t \div DayLength >= u \div DayLength
<1>1. t \div DayLength \in Nat /\ u \div DayLength \in Nat
  BY SchedulerConstants, Z3
<1> QED BY <1>1 DEF After, Text, T, Blank

-----------------------------------------------------------------------------

LEMMA SchedulerTypeInit == SchedulerInit => SchedulerTypeOK
  BY SchedulerConstants DEF SchedulerInit, SchedulerTypeOK, None

LEMMA SchedulerTypeStep == SchedulerTypeOK /\ [SchedulerNext]_vars => SchedulerTypeOK'
<1> SUFFICES ASSUME SchedulerTypeOK, [SchedulerNext]_vars PROVE SchedulerTypeOK'
  OBVIOUS
<1> USE SchedulerConstants DEF SchedulerTypeOK
<1>1. CASE SchedulerTick
  BY <1>1 DEF SchedulerTick
<1>2. ASSUME NEW m \in Machines, SelectProbes(m) PROVE SchedulerTypeOK'
  BY <1>2 DEF SelectProbes
<1>3. ASSUME NEW p \in Probes, ExecuteProbe(p) PROVE SchedulerTypeOK'
  BY <1>3 DEF ExecuteProbe
<1>4. ASSUME NEW p \in Probes, RunProbe(p) PROVE SchedulerTypeOK'
  BY <1>4 DEF RunProbe
<1>5. ASSUME NEW p \in Probes, NEW new \in Rule, UpdateProbe(p, new) PROVE SchedulerTypeOK'
  BY <1>5 DEF UpdateProbe
<1>6. CASE Restart
  BY <1>6 DEF Restart
<1>7. CASE TimePasses
  BY <1>7 DEF TimePasses
<1>8. CASE UNCHANGED vars
  BY <1>8 DEF vars
<1> QED BY <1>1, <1>2, <1>3, <1>4, <1>5, <1>6, <1>7, <1>8 DEF SchedulerNext

(* Clock, results and counts of checks keep their types. *)
THEOREM SchedulerTypeCorrect == SchedulerSpec => []SchedulerTypeOK
  BY SchedulerTypeInit, SchedulerTypeStep, PTL DEF SchedulerSpec

-----------------------------------------------------------------------------
(* What the text comparison says about a probe. *)

LEMMA DueDay ==
  ASSUME SchedulerTypeOK, NEW p \in Probes
  PROVE  /\ rule[p].interval \in Nat /\ clock - rule[p].interval \in Nat
         /\ last[p] # None => last[p] \in Nat
         /\ ~Recent(p) <=>
              \/ last[p] = None
              \/ last[p] \div DayLength < (clock - rule[p].interval) \div DayLength
<1>1. rule[p].interval \in Nat /\ clock - rule[p].interval \in Nat
  <2>1. rule[p].interval \in Intervals
    BY DEF SchedulerTypeOK, Rule
  <2>2. rule[p].interval \in Nat /\ rule[p].interval <= Start
    BY <2>1, SchedulerConstants
  <2>3. clock \in Nat /\ Start \in Nat /\ clock >= Start
    BY SchedulerConstants DEF SchedulerTypeOK
  <2> QED BY <2>2, <2>3
<1>2. last[p] # None => last[p] \in Nat
  BY DEF SchedulerTypeOK
<1>3. \A t \in Nat : t \div DayLength \in Nat
  BY SchedulerConstants, Z3
<1> QED BY <1>1, <1>2, <1>3, TextOrder DEF Recent

(* A due probe has lapsed. *)
LEMMA DueHasLapsed ==
  ASSUME SchedulerTypeOK, NEW p \in Due
  PROVE  p \in Active /\ LapsedFor(p, 0)
<1>1. p \in Active /\ p \in Probes /\ ~Recent(p)
  BY DEF Due, Active
<1>2. /\ clock \in Nat /\ rule[p].interval \in Nat /\ clock - rule[p].interval \in Nat
      /\ last[p] # None => last[p] \in Nat
  BY <1>1, DueDay, SchedulerConstants DEF SchedulerTypeOK
<1>3. CASE last[p] = None
  BY <1>1, <1>3 DEF LapsedFor
<1>4. CASE last[p] # None
  <2>1. last[p] \div DayLength < (clock - rule[p].interval) \div DayLength
    BY <1>1, <1>4, DueDay
  <2>2. ~(clock - rule[p].interval <= last[p])
    <3>1. \A t \in Nat : t \div DayLength \in Nat
      BY SchedulerConstants, Z3
    <3> QED BY <1>2, <1>4, <2>1, <3>1, DayMonotone
  <2>3. last[p] + rule[p].interval + 0 <= clock
    BY <1>2, <1>4, <2>2
  <2> QED BY <1>1, <2>3 DEF LapsedFor
<1> QED BY <1>3, <1>4

(* A probe that lapsed a day ago is due. *)
LEMMA LapsedIsDue ==
  ASSUME SchedulerTypeOK, NEW p \in Active, LapsedFor(p, DayLength)
  PROVE  p \in Due
<1>1. p \in Probes
  BY DEF Active
<1>2. /\ clock \in Nat /\ rule[p].interval \in Nat /\ clock - rule[p].interval \in Nat
      /\ last[p] # None => last[p] \in Nat
  BY <1>1, DueDay, SchedulerConstants DEF SchedulerTypeOK
<1>3. CASE last[p] = None
  BY <1>1, <1>3, DueDay DEF Due
<1>4. CASE last[p] # None
  <2>1. last[p] + DayLength <= clock - rule[p].interval
    BY <1>2, <1>4, SchedulerConstants DEF LapsedFor
  <2>2. last[p] \div DayLength < (clock - rule[p].interval) \div DayLength
    BY <1>2, <1>4, <2>1, NextDay
  <2> QED BY <1>1, <2>2, DueDay DEF Due
<1> QED BY <1>3, <1>4

(***************************************************************************)
(* A tick starts no check of a machine before the interval of one of its   *)
(* probes has passed.                                                      *)
(***************************************************************************)
THEOREM NeverEarlyCorrect == SchedulerSpec => NeverEarly
<1>1. ASSUME SchedulerTypeOK, [SchedulerNext]_vars, NEW m \in Machines,
             started'[m] > started[m]
      PROVE  \E p \in ProbesOf(m) : LapsedFor(p, 0)
  <2>1. started \in [Machines -> Nat]
    BY <1>1 DEF SchedulerTypeOK
  <2>2. SchedulerTick
    BY <1>1, <2>1
    DEF SchedulerNext, vars, SelectProbes, ExecuteProbe, RunProbe, UpdateProbe,
        Restart, TimePasses
  <2>3. m \in DueMachines
    BY <1>1, <2>1, <2>2 DEF SchedulerTick
  <2>4. PICK p \in Due : rule[p].machine = m
    BY <2>3 DEF DueMachines
  <2> QED BY <1>1, <2>4, DueHasLapsed DEF ProbesOf
<1>2. SchedulerTypeOK /\ [SchedulerNext]_vars =>
        [\A m \in Machines : started'[m] > started[m] =>
           \E p \in ProbesOf(m) : LapsedFor(p, 0)]_vars
  BY <1>1
<1> QED BY <1>2, SchedulerTypeCorrect, PTL DEF SchedulerSpec, NeverEarly

(***************************************************************************)
(* A tick leaves no machine without a check when the interval of one of    *)
(* its active probes passed a day ago.                                     *)
(***************************************************************************)
THEOREM NeverStarvedCorrect == SchedulerSpec => NeverStarved
<1>1. ASSUME SchedulerTypeOK, SchedulerTick, NEW p \in Active, LapsedFor(p, DayLength)
      PROVE  started'[rule[p].machine] > 0
  <2>1. p \in Due /\ p \in Probes
    BY <1>1, LapsedIsDue DEF Active
  <2>2. rule[p].machine \in DueMachines /\ rule[p].machine \in Machines
    BY <1>1, <2>1 DEF DueMachines, SchedulerTypeOK, Rule
  <2>3. started'[rule[p].machine] = started[rule[p].machine] + 1
    BY <1>1, <2>2 DEF SchedulerTick
  <2> QED BY <1>1, <2>2, <2>3 DEF SchedulerTypeOK
<1>2. SchedulerTypeOK /\ [SchedulerNext]_vars =>
        [SchedulerTick =>
           \A p \in Active : LapsedFor(p, DayLength) => started'[rule[p].machine] > 0]_vars
  BY <1>1
<1> QED BY <1>2, SchedulerTypeCorrect, PTL DEF SchedulerSpec, NeverStarved
=============================================================================
