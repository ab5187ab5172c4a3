-------------------------- MODULE AgentImplements --------------------------
(***************************************************************************)
(* Module AgentTasks implements the queue of module TaskQueue: the calls   *)
(* of polls, what they selected and what is marked running are hidden, and *)
(* a report is on its way as long as a call that carries it may be stored. *)
(***************************************************************************)
EXTENDS AgentTasks

Reporting == {c \in DOMAIN call : /\ call[c].kind = "result"
                                  /\ call[c].pc \in {"sent", "handling"}}

Owner     == [i \in DOMAIN tasks |-> tasks[i].agent]
Begun     == {i \in Ids : begun[i] # 0}
Running   == UNION {executing[a] : a \in Agents}
Reported  == {<<call[c].task, call[c].ok>> : c \in Reporting}
OnRecord(status) == {i \in DOMAIN tasks : tasks[i].status = status}

Queue == INSTANCE TaskQueue WITH
  owner <- Owner, begun <- Begun, running <- Running, reported <- Reported,
  completed <- OnRecord("completed"), failed <- OnRecord("failed")

(***************************************************************************)
(* Every step of the controller and the agents, whatever calls are lost,   *)
(* late or cut short, is a step of the queue or leaves it alone: a task is *)
(* executed by the agent it was queued for, no result is recorded that no  *)
(* execution reported, none other than it reported, and none after it was  *)
(* lost.                                                                   *)
(***************************************************************************)
ImplementsQueue == Queue!QueueSpec
=============================================================================
