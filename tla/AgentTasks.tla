------------------------------ MODULE AgentTasks ------------------------------
(***************************************************************************)
(* Agents and their tasks: the controller's /api/agent handlers            *)
(* (backend/internal/api/agents.go), the queueing of tasks (probes.go and  *)
(* machines.go) and the agent's two loops and task goroutines              *)
(* (agent/cmd/agent/main.go).                                              *)
(*                                                                         *)
(* Every exchange is an HTTP call of the agent.  The controller handles it *)
(* in steps: agentAuth reads the agent's row, then the handler runs one    *)
(* statement at a time.  The client may go at any moment (its timeout, a   *)
(* broken connection, a restart); once the controller notices, the         *)
(* request's context is cancelled and the statements left fail.  A crash   *)
(* of the controller is the same thing happening to every call.            *)
(*                                                                         *)
(* An agent row belongs to one running agent process: install-agent.sh     *)
(* removes the container it replaces.  Abstracted: what a task probes, the *)
(* addresses agents report (ReportAddress of module Rotation), and agents  *)
(* deleted with their machine, which from here look revoked.               *)
(***************************************************************************)
EXTENDS Naturals, Sequences, FiniteSets

CONSTANTS
  Agents,      \* rows of agents, each with its process
  TaskKinds,   \* what is queued: "probe", "upgrade"
  Calls,       \* calls of registrations, polls and results
  Beats,       \* calls of heartbeats
  TaskLimit,   \* LIMIT 10 of a poll
  MaxTasks,    \* bound of agent_tasks
  MaxFailures  \* bound of clients that go and agents that restart

ASSUME AgentConstants ==
  /\ TaskKinds \subseteq {"probe", "upgrade"}
  /\ Calls \intersect Beats = {}
  /\ TaskLimit \in Nat \ {0} /\ MaxTasks \in Nat /\ MaxFailures \in Nat

VARIABLES
  agent,      \* the agents table
  tasks,      \* the agent_tasks table, by creation
  chosen,     \* agents selected for a task that is not inserted yet
  call,       \* the HTTP calls
  registered, \* agents past their registration loop
  executing,  \* tasks each agent runs
  begun,      \* how often each task was begun, for the properties
  failures    \* clients gone and restarts so far

vars == <<agent, tasks, chosen, call, registered, executing, begun, failures>>

-----------------------------------------------------------------------------

Ids == 1..MaxTasks
AgentRow == [status : {"pending", "online", "offline", "revoked"},
             revoked : BOOLEAN,
             silent : BOOLEAN]   \* last_heartbeat_at is two minutes old

Finished == {"completed", "failed"}
Task == [agent : Agents, kind : TaskKinds,
         status : {"pending", "running"} \union Finished]

(***************************************************************************)
(* A call.  client: does the client wait for the answer, is it gone, has   *)
(* the controller noticed that it is?  given are the tasks a poll selected *)
(* and todo those it has still to mark; task and ok are a result's.        *)
(***************************************************************************)
CallKinds == {"register", "heartbeat", "poll", "result"}

Call == [pc : {"free", "sent", "handling", "marking", "answered"},
         kind : CallKinds,
         agent : Agents,
         client : {"waits", "gone", "noticed"},
         given : SUBSET Ids, todo : SUBSET Ids,
         task : Ids \union {0}, ok : BOOLEAN]

NewCall(kind, a) == [pc |-> "sent", kind |-> kind, agent |-> a, client |-> "waits",
                     given |-> {}, todo |-> {}, task |-> 0, ok |-> FALSE]

NoCall(a) == [NewCall("poll", a) EXCEPT !.pc = "free"]

Init ==
  /\ agent = [a \in Agents |-> [status |-> "pending", revoked |-> FALSE, silent |-> FALSE]]
  /\ tasks = <<>> /\ chosen = {}
  /\ call \in [Calls \union Beats -> {NoCall(a) : a \in Agents}]
  /\ registered = {}
  /\ executing = [a \in Agents |-> {}]
  /\ begun = [i \in Ids |-> 0]
  /\ failures = 0

-----------------------------------------------------------------------------
(* Queueing: executeProbe picks an online agent, upgradeAgent any one.     *)

ChooseAgent(a, kind) ==
  /\ ~agent[a].revoked
  /\ kind = "probe" => agent[a].status = "online"
  /\ <<a, kind>> \notin chosen
  /\ chosen' = chosen \union {<<a, kind>>}
  /\ UNCHANGED <<agent, tasks, call, registered, executing, begun, failures>>

(* The INSERT, which fails silently when the request was cancelled. *)
InsertTask(a, kind) ==
  /\ <<a, kind>> \in chosen
  /\ chosen' = chosen \ {<<a, kind>>}
  /\ \/ /\ Len(tasks) < MaxTasks
        /\ tasks' = Append(tasks, [agent |-> a, kind |-> kind, status |-> "pending"])
     \/ UNCHANGED tasks
  /\ UNCHANGED <<agent, call, registered, executing, begun, failures>>

Revoke(a) ==
  /\ agent' = [agent EXCEPT ![a].revoked = TRUE, ![a].status = "revoked"]
  /\ UNCHANGED <<tasks, chosen, call, registered, executing, begun, failures>>

(* Two minutes without a heartbeat. *)
FallSilent(a) ==
  /\ agent[a].status # "pending"
  /\ agent' = [agent EXCEPT ![a].silent = TRUE]
  /\ UNCHANGED <<tasks, chosen, call, registered, executing, begun, failures>>

(* GET /agents marks the silent agents before it lists them. *)
ListAgents ==
  /\ agent' = [a \in Agents |->
                 IF agent[a].status = "online" /\ agent[a].silent
                 THEN [agent[a] EXCEPT !.status = "offline"] ELSE agent[a]]
  /\ UNCHANGED <<tasks, chosen, call, registered, executing, begun, failures>>

-----------------------------------------------------------------------------
(* The agent sends its calls.                                              *)

Free(slots) == {c \in slots : call[c].pc = "free"}

Open(slots, request) ==
  /\ Free(slots) # {}
  /\ call' = [call EXCEPT ![CHOOSE c \in Free(slots) : TRUE] = request]

Waiting(a, kinds) == {c \in DOMAIN call : /\ call[c].pc # "free"
                                          /\ call[c].agent = a
                                          /\ call[c].kind \in kinds
                                          /\ call[c].client = "waits"}

SendRegister(a) ==
  /\ a \notin registered
  /\ Waiting(a, {"register"}) = {}
  /\ Open(Calls, NewCall("register", a))
  /\ UNCHANGED <<agent, tasks, chosen, registered, executing, begun, failures>>

SendHeartbeat(a) ==
  /\ a \in registered
  /\ Waiting(a, {"heartbeat"}) = {}
  /\ Open(Beats, NewCall("heartbeat", a))
  /\ UNCHANGED <<agent, tasks, chosen, registered, executing, begun, failures>>

(* Mutant of SendPoll: the next poll does not wait for the one before. *)
SendPollAnyway(a) ==
  /\ a \in registered
  /\ Open(Calls, NewCall("poll", a))
  /\ UNCHANGED <<agent, tasks, chosen, registered, executing, begun, failures>>

(* taskLoop: pollTasks returns before the next one starts. *)
SendPoll(a) ==
  /\ a \in registered
  /\ Waiting(a, {"poll"}) = {}
  /\ Open(Calls, NewCall("poll", a))
  /\ UNCHANGED <<agent, tasks, chosen, registered, executing, begun, failures>>

(* Mutant of SendResult: the result is kept, and posted again, whatever the answer. *)
SendResultAgain(a, i, ok) ==
  /\ i \in executing[a]
  /\ ok => tasks[i].kind = "probe"
  /\ Open(Calls, [NewCall("result", a) EXCEPT !.task = i, !.ok = ok])
  /\ UNCHANGED <<agent, tasks, chosen, registered, executing, begun, failures>>

(* execute ends and posts its result, once; an upgrade always fails. *)
SendResult(a, i, ok) ==
  /\ i \in executing[a]
  /\ ok => tasks[i].kind = "probe"
  /\ Open(Calls, [NewCall("result", a) EXCEPT !.task = i, !.ok = ok])
  /\ executing' = [executing EXCEPT ![a] = @ \ {i}]
  /\ UNCHANGED <<agent, tasks, chosen, registered, begun, failures>>

-----------------------------------------------------------------------------
(* The controller handles a call.                                          *)

Goto(c, pc) == call' = [call EXCEPT ![c].pc = pc]
Close(c) == call' = [call EXCEPT ![c] = NoCall(call[c].agent)]
Cancelled(c) == call[c].client = "noticed"

(* Mutant of Authenticate: the token alone is enough. *)
AuthenticateToken(c) ==
  /\ call[c].pc = "sent"
  /\ IF Cancelled(c) THEN Close(c) ELSE Goto(c, "handling")
  /\ UNCHANGED <<agent, tasks, chosen, registered, executing, begun, failures>>

Authenticate(c) ==
  /\ call[c].pc = "sent"
  /\ IF agent[call[c].agent].revoked \/ Cancelled(c) THEN Close(c) ELSE Goto(c, "handling")
  /\ UNCHANGED <<agent, tasks, chosen, registered, executing, begun, failures>>

(* Mutant of Online: a heartbeat leaves a status that was set before. *)
OnlineFirst(row) ==
  [row EXCEPT !.silent = FALSE, !.status = IF @ = "pending" THEN "online" ELSE @]

Online(row) == [row EXCEPT !.silent = FALSE, !.status = "online"]

(* agentRegister and agentHeartbeat: UPDATE agents SET status='online'. *)
GoOnline(c) ==
  /\ call[c].pc = "handling" /\ call[c].kind \in {"register", "heartbeat"}
  /\ \/ Cancelled(c) /\ Close(c) /\ UNCHANGED agent
     \/ /\ ~Cancelled(c) /\ Goto(c, "answered")
        /\ agent' = [agent EXCEPT ![call[c].agent] = Online(@)]
  /\ UNCHANGED <<tasks, chosen, registered, executing, begun, failures>>

(* Mutant of OldestPending: the limit counts tasks that are under way. *)
OldestUnfinished(a) ==
  LET open == {i \in DOMAIN tasks : tasks[i].agent = a /\ tasks[i].status \notin Finished}
  IN  {i \in open : /\ tasks[i].status = "pending"
                    /\ Cardinality({k \in open : k < i}) < TaskLimit}

(* The oldest pending tasks of an agent, as many as a poll hands out. *)
OldestPending(a) ==
  LET pending == {i \in DOMAIN tasks : tasks[i].agent = a /\ tasks[i].status = "pending"}
  IN  {i \in pending : Cardinality({k \in pending : k < i}) < TaskLimit}

(* agentTasks: SELECT the tasks... *)
SelectTasks(c) ==
  /\ call[c].pc = "handling" /\ call[c].kind = "poll"
  /\ \/ Cancelled(c) /\ Close(c)
     \/ /\ ~Cancelled(c)
        /\ LET ids == OldestPending(call[c].agent) IN
           call' = [call EXCEPT ![c].pc = "marking", ![c].given = ids, ![c].todo = ids]
  /\ UNCHANGED <<agent, tasks, chosen, registered, executing, begun, failures>>

(* Mutant of MarkTask: the UPDATE lacks AND status='pending'. *)
MarkAnyTask(c) ==
  /\ call[c].pc = "marking"
  /\ \E i \in call[c].todo :
       /\ \A k \in call[c].todo : i <= k
       /\ call' = [call EXCEPT ![c].todo = @ \ {i}]
       /\ tasks' = IF Cancelled(c) THEN tasks ELSE [tasks EXCEPT ![i].status = "running"]
  /\ UNCHANGED <<agent, chosen, registered, executing, begun, failures>>

(***************************************************************************)
(* ...mark each one that is still pending, one by one.  The error of the   *)
(* UPDATE is ignored; it fails when the client has gone.  (That the        *)
(* database refuses a write while the client waits is left out.)           *)
(***************************************************************************)
MarkTask(c) ==
  /\ call[c].pc = "marking"
  /\ \E i \in call[c].todo :
       /\ \A k \in call[c].todo : i <= k
       /\ call' = [call EXCEPT ![c].todo = @ \ {i}]
       /\ tasks' = IF Cancelled(c) \/ tasks[i].status # "pending" THEN tasks
                   ELSE [tasks EXCEPT ![i].status = "running"]
  /\ UNCHANGED <<agent, chosen, registered, executing, begun, failures>>

(* ...and answer with all that were selected. *)
AnswerPoll(c) ==
  /\ call[c].pc = "marking" /\ call[c].todo = {}
  /\ Goto(c, "answered")
  /\ UNCHANGED <<agent, tasks, chosen, registered, executing, begun, failures>>

(* Mutant of Outcome: the result's own word for it. *)
OutcomeNamed(ok) == IF ok THEN "success" ELSE "failed"

Outcome(ok) == IF ok THEN "completed" ELSE "failed"

(* Mutant of StoreResult: only an agent that is online may report. *)
StoreResultOnline(c) ==
  /\ call[c].pc = "handling" /\ call[c].kind = "result"
  /\ IF ~Cancelled(c) /\ agent[call[c].agent].status = "online"
     THEN /\ tasks' = [tasks EXCEPT ![call[c].task].status = Outcome(call[c].ok)]
          /\ Goto(c, "answered")
     ELSE UNCHANGED tasks /\ Close(c)
  /\ UNCHANGED <<agent, chosen, registered, executing, begun, failures>>

(* agentTaskResult: UPDATE agent_tasks WHERE id=? AND agent_id=?. *)
StoreResult(c) ==
  /\ call[c].pc = "handling" /\ call[c].kind = "result"
  /\ IF ~Cancelled(c) /\ tasks[call[c].task].agent = call[c].agent
     THEN /\ tasks' = [tasks EXCEPT ![call[c].task].status = Outcome(call[c].ok)]
          /\ Goto(c, "answered")
     ELSE UNCHANGED tasks /\ Close(c)
  /\ UNCHANGED <<agent, chosen, registered, executing, begun, failures>>

-----------------------------------------------------------------------------
(* The client receives the answer, or is gone.                             *)

(* pollTasks starts a goroutine for every task it was given. *)
Receive(c) ==
  LET a == call[c].agent IN
  /\ call[c].pc = "answered" /\ call[c].client = "waits"
  /\ Close(c)
  /\ registered' = registered \union {b \in {a} : call[c].kind = "register"}
  /\ executing' = [executing EXCEPT ![a] = @ \union call[c].given]
  /\ begun' = [i \in Ids |-> IF i \in call[c].given THEN begun[i] + 1 ELSE begun[i]]
  /\ UNCHANGED <<agent, tasks, chosen, failures>>

(* An answer, or a call the controller never saw, that nobody waits for. *)
Lose(c) ==
  /\ call[c].pc \in {"sent", "answered"} /\ call[c].client # "waits"
  /\ Close(c)
  /\ UNCHANGED <<agent, tasks, chosen, registered, executing, begun, failures>>

(* The client's timeout of 20 s, or the connection breaks. *)
GiveUp(c) ==
  /\ failures < MaxFailures
  /\ call[c].pc # "free" /\ call[c].client = "waits"
  /\ call' = [call EXCEPT ![c].client = "gone"]
  /\ failures' = failures + 1
  /\ UNCHANGED <<agent, tasks, chosen, registered, executing, begun>>

Notice(c) ==
  /\ call[c].pc # "free" /\ call[c].client = "gone"
  /\ call' = [call EXCEPT ![c].client = "noticed"]
  /\ UNCHANGED <<agent, tasks, chosen, registered, executing, begun, failures>>

(* The container restarts: its calls break and its tasks are forgotten. *)
RestartAgent(a) ==
  /\ failures < MaxFailures
  /\ failures' = failures + 1
  /\ call' = [c \in DOMAIN call |->
                IF c \in Waiting(a, CallKinds)
                THEN [call[c] EXCEPT !.client = "gone"] ELSE call[c]]
  /\ registered' = registered \ {a}
  /\ executing' = [executing EXCEPT ![a] = {}]
  /\ UNCHANGED <<agent, tasks, chosen, begun>>

-----------------------------------------------------------------------------

Handle(c) == \/ Authenticate(c) \/ GoOnline(c) \/ SelectTasks(c) \/ MarkTask(c)
             \/ AnswerPoll(c) \/ StoreResult(c)

Conclude(c) == Receive(c) \/ Lose(c)

Next ==
  \/ ListAgents
  \/ \E a \in Agents :
       \/ \E kind \in TaskKinds : ChooseAgent(a, kind) \/ InsertTask(a, kind)
       \/ Revoke(a) \/ FallSilent(a) \/ RestartAgent(a)
       \/ SendRegister(a) \/ SendHeartbeat(a) \/ SendPoll(a)
       \/ \E i \in executing[a], ok \in BOOLEAN : SendResult(a, i, ok)
  \/ \E c \in DOMAIN call : Handle(c) \/ Conclude(c) \/ GiveUp(c) \/ Notice(c)

Spec == Init /\ [][Next]_vars

(***************************************************************************)
(* The loops keep calling, tasks end (they have a timeout), the controller *)
(* handles what it received and answers.  Clients that go and restarts are *)
(* finitely many.  The calls are strongly fair because the calls of a      *)
(* model, unlike connections, run out and are free again.                  *)
(***************************************************************************)
Fairness ==
  /\ \A c \in Calls \union Beats : WF_vars(Handle(c) \/ Conclude(c))
  /\ \A a \in Agents :
       /\ SF_vars(SendRegister(a))
       /\ SF_vars(SendHeartbeat(a))
       /\ SF_vars(SendPoll(a))
       /\ \A i \in Ids : SF_vars(\E ok \in BOOLEAN : SendResult(a, i, ok))

FairSpec == Spec /\ Fairness

-----------------------------------------------------------------------------

(* Every variable has its type. *)
AgentTypeOK ==
  /\ agent \in [Agents -> AgentRow]
  /\ tasks \in Seq(Task) /\ Len(tasks) <= MaxTasks
  /\ chosen \subseteq Agents \X TaskKinds
  /\ call \in [Calls \union Beats -> Call]
  /\ registered \subseteq Agents
  /\ executing \in [Agents -> SUBSET Ids]
  /\ begun \in [Ids -> Nat]
  /\ failures \in Nat

(***************************************************************************)
(* An agent begins a task at most once, although a poll whose client has   *)
(* gone and the next one select the same pending tasks (agentTasks reads   *)
(* first and marks later), and although it answers with tasks it did not   *)
(* mark itself.                                                            *)
(***************************************************************************)
AtMostOnce == \A i \in Ids : begun[i] <= 1

(***************************************************************************)
(* A task that has a result keeps it: no late poll marks it running again, *)
(* and no second result overwrites it, though agentTaskResult does not     *)
(* look at the status it replaces.                                         *)
(***************************************************************************)
ResultIsFinal ==
  [][\A i \in DOMAIN tasks : tasks[i].status \in Finished => tasks'[i] = tasks[i]]_vars

Queued(i) == i \in DOMAIN tasks
AgentRevoked(i) == agent[tasks[i].agent].revoked

(***************************************************************************)
(* Every queued task is handed out, or its agent is revoked: polls that    *)
(* fail half-way leave their unmarked tasks to later ones, and tasks lost  *)
(* after they were marked do not use up the limit of a poll.               *)
(***************************************************************************)
PendingIsTaken ==
  \A i \in Ids :
    Queued(i) ~> Queued(i) /\ (tasks[i].status # "pending" \/ AgentRevoked(i))

(***************************************************************************)
(* As long as no client goes and no agent restarts, every queued task ends *)
(* with a result, or its agent is revoked.  (After a failure it may stay   *)
(* running for ever: nothing hands a marked task out again.)               *)
(***************************************************************************)
TaskFinishes ==
  \A i \in Ids :
    Queued(i) ~> \/ Queued(i) /\ (tasks[i].status \in Finished \/ AgentRevoked(i))
                 \/ failures > 0

(***************************************************************************)
(* A revoked agent is shut out for good: the calls that were past          *)
(* agentAuth when it was revoked end, and no other gets there.             *)
(***************************************************************************)
RevokedIsShutOut ==
  \A a \in Agents :
    agent[a].revoked ~> [](\A c \in DOMAIN call : call[c].agent = a =>
                             call[c].pc \notin {"handling", "marking"})

(***************************************************************************)
(* An agent that was shown offline while it fell silent is online again    *)
(* once its heartbeats arrive, unless it is revoked.                       *)
(***************************************************************************)
OnlineAgain ==
  \A a \in Agents :
    agent[a].status = "offline" ~> agent[a].status = "online" \/ agent[a].revoked

=============================================================================
