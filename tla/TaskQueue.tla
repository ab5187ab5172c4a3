----------------------------- MODULE TaskQueue -----------------------------
(***************************************************************************)
(* What the controller and its agents promise of a queued task, with no    *)
(* calls in between: the agent it was queued for may execute it, once, and *)
(* the result on record, if there ever is one, is what that execution      *)
(* reported.  A restart of the agent ends its executions without a report, *)
(* and a report may be lost; neither is made good.  Module AgentTasks      *)
(* implements it (AgentImplements).                                        *)
(***************************************************************************)
EXTENDS Naturals, Sequences

CONSTANT Agents

VARIABLES
  owner,      \* the agent of each task, by creation
  begun,      \* tasks whose execution has begun
  running,    \* tasks that are being executed
  reported,   \* results on their way: pairs of a task and whether it succeeded
  completed,  \* tasks on record as completed
  failed      \* tasks on record as failed

queueVars == <<owner, begun, running, reported, completed, failed>>

QueueInit ==
  /\ owner = <<>> /\ begun = {} /\ running = {} /\ reported = {}
  /\ completed = {} /\ failed = {}

TasksOf(a) == {i \in DOMAIN owner : owner[i] = a}

Enqueue(a) ==
  /\ owner' = Append(owner, a)
  /\ UNCHANGED <<begun, running, reported, completed, failed>>

(* Some tasks of a that were never begun are. *)
Execute(a) ==
  \E new \in SUBSET (TasksOf(a) \ begun) :
    /\ begun' = begun \union new
    /\ running' = running \union new
    /\ UNCHANGED <<owner, reported, completed, failed>>

Restart(a) ==
  /\ running' = running \ TasksOf(a)
  /\ UNCHANGED <<owner, begun, reported, completed, failed>>

Report(i, ok) ==
  /\ running' = running \ {i}
  /\ reported' = reported \union {<<i, ok>>}
  /\ UNCHANGED <<owner, begun, completed, failed>>

LoseReport(x) ==
  /\ reported' = reported \ {x}
  /\ UNCHANGED <<owner, begun, running, completed, failed>>

Record(i, ok) ==
  /\ reported' = reported \ {<<i, ok>>}
  /\ completed' = completed \union {k \in {i} : ok}
  /\ failed' = failed \union {k \in {i} : ~ok}
  /\ UNCHANGED <<owner, begun, running>>

QueueNext ==
  \/ \E a \in Agents : Enqueue(a) \/ Execute(a) \/ Restart(a)
  \/ \E i \in running, ok \in BOOLEAN : Report(i, ok)
  \/ \E x \in reported : LoseReport(x) \/ Record(x[1], x[2])

QueueSpec == QueueInit /\ [][QueueNext]_queueVars
=============================================================================
