---------------------------- MODULE AgentProofs ----------------------------
(***************************************************************************)
(* Theorems about AgentTasks, for any agents, calls and limits.            *)
(*                                                                         *)
(* That a task begins at most once is not inductive: it rests on what a    *)
(* poll that is still awaited carries.  Each agent awaits one poll; the    *)
(* tasks such a poll carries were never begun, and those it is past are    *)
(* not pending; so once they are begun no later poll selects them.  That   *)
(* results are final rests on it: one execution has one result.            *)
(***************************************************************************)
EXTENDS AgentImplements, TLAPS

Slots == Calls \union Beats

(* What a call can carry. *)
CallsOK == \A c \in Slots :
  /\ call[c].todo \subseteq call[c].given
  /\ call[c].given # {} => call[c].kind = "poll" /\ call[c].pc \in {"marking", "answered"}
  /\ call[c].pc = "answered" => call[c].todo = {}
  /\ call[c].pc # "free" /\ call[c].kind = "result" => call[c].task \in Ids
  /\ \A i \in call[c].given : i \in DOMAIN tasks /\ tasks[i].agent = call[c].agent

AwaitedPoll(c) == call[c].pc # "free" /\ call[c].kind = "poll" /\ call[c].client = "waits"

OnePoll == \A c, d \in Slots :
  AwaitedPoll(c) /\ AwaitedPoll(d) /\ call[c].agent = call[d].agent => c = d

HandedOnce == \A c \in Slots : call[c].client = "waits" =>
  \A i \in call[c].given : /\ begun[i] = 0
                           /\ i \notin call[c].todo => tasks[i].status # "pending"

BegunOnce == \A i \in Ids : begun[i] # 0 =>
  begun[i] = 1 /\ i \in DOMAIN tasks /\ tasks[i].status # "pending"

ResultPending(c, i) ==
  call[c].kind = "result" /\ call[c].pc \in {"sent", "handling"} /\ call[c].task = i

(* An execution is under way in one place: at the agent or in a result's call. *)
OneExecution == \A i \in Ids :
  /\ \A a \in Agents : i \in executing[a] =>
       begun[i] # 0 /\ tasks[i].agent = a /\ \A c \in Slots : ~ResultPending(c, i)
  /\ \A c \in Slots : ResultPending(c, i) =>
       begun[i] # 0 /\ \A d \in Slots : ResultPending(d, i) => c = d

Ended == \A i \in DOMAIN tasks : tasks[i].status \in Finished =>
  /\ begun[i] # 0
  /\ \A a \in Agents : i \notin executing[a]
  /\ \A c \in Slots : ~ResultPending(c, i)

TaskInv == CallsOK /\ OnePoll /\ HandedOnce /\ BegunOnce /\ OneExecution /\ Ended
IInv == AgentTypeOK /\ TaskInv

-----------------------------------------------------------------------------
(* Type correctness. *)

LEMMA CallTypes ==
  ASSUME AgentTypeOK, NEW c \in Slots
  PROVE  /\ call[c] \in Call /\ call[c].agent \in Agents
         /\ NoCall(call[c].agent) \in Call
         /\ \A pc \in {"free", "sent", "handling", "marking", "answered"} :
              [call[c] EXCEPT !.pc = pc] \in Call
         /\ \A client \in {"waits", "gone", "noticed"} :
              [call[c] EXCEPT !.client = client] \in Call
<1>1. call[c] \in Call
  BY DEF AgentTypeOK, Slots
<1>2. call[c].agent \in Agents
  BY <1>1 DEF Call
<1>3. \A a \in Agents : NoCall(a) \in Call
  BY DEF NoCall, NewCall, Call, CallKinds, Ids
<1> QED BY <1>1, <1>2, <1>3 DEF Call

LEMMA NewCallType == \A a \in Agents, kind \in CallKinds :
                       NewCall(kind, a) \in Call
  BY DEF NewCall, Call, CallKinds, Ids

LEMMA OpenSlot ==
  ASSUME NEW S, NEW r, Open(S, r)
  PROVE  \E c \in S : call[c].pc = "free" /\ call' = [call EXCEPT ![c] = r]
  BY DEF Open, Free

LEMMA SetStatus ==
  ASSUME AgentTypeOK, NEW i \in DOMAIN tasks,
         NEW s \in {"pending", "running", "completed", "failed"},
         tasks' = [tasks EXCEPT ![i].status = s]
  PROVE  /\ tasks' \in Seq(Task) /\ Len(tasks') = Len(tasks)
         /\ DOMAIN tasks' = DOMAIN tasks
         /\ tasks'[i].status = s /\ tasks'[i].agent = tasks[i].agent
         /\ \A k \in DOMAIN tasks : k # i => tasks'[k] = tasks[k]
<1>1. tasks \in Seq(Task) /\ tasks[i] \in Task
  BY DEF AgentTypeOK
<1>2. [tasks[i] EXCEPT !.status = s] \in Task
  BY <1>1 DEF Task, Finished
<1>3. tasks' = [tasks EXCEPT ![i] = [tasks[i] EXCEPT !.status = s]]
  BY <1>1
<1>4. tasks' \in Seq(Task) /\ Len(tasks') = Len(tasks)
  BY <1>1, <1>2, <1>3
<1>5. tasks'[i] = [tasks[i] EXCEPT !.status = s]
  BY <1>1, <1>3
<1>6. DOMAIN tasks' = DOMAIN tasks /\ \A k \in DOMAIN tasks : k # i => tasks'[k] = tasks[k]
  BY <1>3
<1> QED BY <1>1, <1>4, <1>5, <1>6 DEF Task

LEMMA TaskIds == AgentTypeOK => DOMAIN tasks \subseteq Ids
  BY AgentConstants DEF AgentTypeOK, Ids

LEMMA TypeOpen ==
  ASSUME AgentTypeOK, NEW S \in SUBSET Slots, NEW r \in Call, Open(S, r)
  PROVE  call' \in [Slots -> Call]
  BY OpenSlot DEF AgentTypeOK, Slots

LEMMA TypeStep ==
  ASSUME AgentTypeOK, [Next]_vars
  PROVE  AgentTypeOK'
<1>0. /\ call \in [Slots -> Call] /\ agent \in [Agents -> AgentRow]
      /\ executing \in [Agents -> SUBSET Ids] /\ begun \in [Ids -> Nat]
      /\ tasks \in Seq(Task) /\ Len(tasks) <= MaxTasks
      /\ chosen \subseteq Agents \X TaskKinds /\ registered \subseteq Agents /\ failures \in Nat
      /\ DOMAIN call = Slots /\ DOMAIN tasks \subseteq Ids
      /\ Calls \subseteq Slots /\ Beats \subseteq Slots
  BY TaskIds DEF AgentTypeOK, Slots
<1> USE DEF Slots
<1>1. ASSUME NEW a \in Agents, NEW kind \in TaskKinds, ChooseAgent(a, kind)
      PROVE  AgentTypeOK'
  BY <1>0, <1>1 DEF ChooseAgent, AgentTypeOK
<1>2. ASSUME NEW a \in Agents, NEW kind \in TaskKinds, InsertTask(a, kind)
      PROVE  AgentTypeOK'
  <2>1. [agent |-> a, kind |-> kind, status |-> "pending"] \in Task
    BY DEF Task
  <2>2. tasks' \in Seq(Task) /\ Len(tasks') <= MaxTasks
    <3>1. CASE UNCHANGED tasks
      BY <1>0, <3>1
    <3>2. CASE /\ Len(tasks) < MaxTasks
               /\ tasks' = Append(tasks, [agent |-> a, kind |-> kind, status |-> "pending"])
      <4>1. tasks' \in Seq(Task) /\ Len(tasks') = Len(tasks) + 1 /\ Len(tasks) \in Nat
        BY <1>0, <2>1, <3>2
      <4> QED BY <3>2, <4>1, AgentConstants
    <3> QED BY <1>2, <3>1, <3>2 DEF InsertTask
  <2> QED BY <1>0, <1>2, <2>2 DEF InsertTask, AgentTypeOK
<1>3. ASSUME NEW a \in Agents, Revoke(a) \/ FallSilent(a) PROVE AgentTypeOK'
  <2>1. /\ [agent[a] EXCEPT !.revoked = TRUE, !.status = "revoked"] \in AgentRow
        /\ [agent[a] EXCEPT !.silent = TRUE] \in AgentRow
    BY <1>0 DEF AgentRow
  <2>2. agent' \in [Agents -> AgentRow]
    BY <1>0, <1>3, <2>1 DEF Revoke, FallSilent
  <2> QED BY <1>0, <1>3, <2>2 DEF Revoke, FallSilent, AgentTypeOK
<1>4. CASE ListAgents
  <2>1. agent' \in [Agents -> AgentRow]
    BY <1>0, <1>4 DEF ListAgents, AgentRow
  <2> QED BY <1>0, <1>4, <2>1 DEF ListAgents, AgentTypeOK
<1>5. ASSUME NEW a \in Agents, SendRegister(a) \/ SendHeartbeat(a) \/ SendPoll(a)
      PROVE  AgentTypeOK'
  <2>1. call' \in [Slots -> Call]
    BY <1>0, <1>5, TypeOpen, NewCallType DEF SendRegister, SendHeartbeat, SendPoll, CallKinds
  <2> QED BY <1>0, <1>5, <2>1 DEF SendRegister, SendHeartbeat, SendPoll, AgentTypeOK
<1>6. ASSUME NEW a \in Agents, NEW i \in executing[a], NEW ok \in BOOLEAN, SendResult(a, i, ok)
      PROVE  AgentTypeOK'
  <2>1. i \in Ids /\ executing' \in [Agents -> SUBSET Ids]
    BY <1>0, <1>6 DEF SendResult
  <2>2. [NewCall("result", a) EXCEPT !.task = i, !.ok = ok] \in Call
    BY <2>1 DEF NewCall, Call, CallKinds
  <2>3. call' \in [Slots -> Call]
    BY <1>0, <1>6, <2>2, TypeOpen DEF SendResult
  <2> QED BY <1>0, <1>6, <2>1, <2>3 DEF SendResult, AgentTypeOK
<1>7. ASSUME NEW c \in Slots, Authenticate(c) \/ AnswerPoll(c) \/ Lose(c)
      PROVE  AgentTypeOK'
  <2>1. call' \in [Slots -> Call]
    BY <1>0, <1>7, CallTypes DEF Authenticate, AnswerPoll, Lose, Close, Goto
  <2> QED BY <1>0, <1>7, <2>1 DEF Authenticate, AnswerPoll, Lose, AgentTypeOK
<1>8. ASSUME NEW c \in Slots, GoOnline(c) PROVE AgentTypeOK'
  <2>1. call' \in [Slots -> Call]
    <3>1. Close(c) \/ Goto(c, "answered")
      BY <1>8 DEF GoOnline
    <3> QED BY <1>0, <3>1, CallTypes DEF Close, Goto
  <2>2. call[c].agent \in Agents
    BY CallTypes
  <2>3. Online(agent[call[c].agent]) \in AgentRow
    <3> DEFINE row == agent[call[c].agent]
    <3>1. row \in AgentRow
      BY <1>0, <2>2
    <3> HIDE DEF row
    <3>2. [row EXCEPT !.silent = FALSE, !.status = "online"] \in AgentRow
      BY <3>1 DEF AgentRow
    <3> QED BY <3>2 DEF Online, row
  <2>4. agent' \in [Agents -> AgentRow]
    BY <1>0, <1>8, <2>3 DEF GoOnline
  <2> QED BY <1>0, <1>8, <2>1, <2>4 DEF GoOnline, AgentTypeOK
<1>9. ASSUME NEW c \in Slots, SelectTasks(c) PROVE AgentTypeOK'
  <2> DEFINE ids == OldestPending(call[c].agent)
  <2>1. ids \subseteq Ids
    BY <1>0 DEF OldestPending
  <2>2. [call[c] EXCEPT !.pc = "marking", !.given = ids, !.todo = ids] \in Call
    <3>1. call[c] \in Call
      BY CallTypes
    <3> QED BY <2>1, <3>1 DEF Call
  <2>3. \/ call' = [call EXCEPT ![c] = NoCall(call[c].agent)]
        \/ call' = [call EXCEPT ![c] = [call[c] EXCEPT !.pc = "marking", !.given = ids, !.todo = ids]]
    BY <1>0, <1>9 DEF SelectTasks, Close
  <2>4. call' \in [Slots -> Call]
    BY <1>0, <2>2, <2>3, CallTypes
  <2> QED BY <1>0, <1>9, <2>4 DEF SelectTasks, AgentTypeOK
<1>10. ASSUME NEW c \in Slots, MarkTask(c) PROVE AgentTypeOK'
  <2>1. PICK i \in call[c].todo :
          /\ call' = [call EXCEPT ![c].todo = @ \ {i}]
          /\ tasks' = IF Cancelled(c) \/ tasks[i].status # "pending" THEN tasks
                      ELSE [tasks EXCEPT ![i].status = "running"]
    BY <1>10 DEF MarkTask
  <2>2. [call[c] EXCEPT !.todo = call[c].todo \ {i}] \in Call
    <3>1. call[c] \in Call
      BY CallTypes
    <3>2. call[c].todo \ {i} \in SUBSET Ids
      BY <3>1 DEF Call
    <3> QED BY <3>1, <3>2 DEF Call
  <2>3. call' \in [Slots -> Call]
    BY <1>0, <2>1, <2>2
  <2>4. tasks' \in Seq(Task) /\ Len(tasks') = Len(tasks)
    <3>1. CASE i \in DOMAIN tasks
      BY <1>0, <2>1, <3>1, SetStatus
    <3>2. CASE i \notin DOMAIN tasks
      <4>1. DOMAIN tasks' = DOMAIN tasks /\ \A k \in DOMAIN tasks : tasks'[k] = tasks[k]
        BY <1>0, <2>1, <3>2
      <4>2. tasks' = [k \in DOMAIN tasks |-> tasks'[k]]
        BY <1>0, <2>1, <3>2
      <4>3. tasks' = tasks
        BY <1>0, <4>1, <4>2
      <4> QED BY <1>0, <4>3
    <3> QED BY <3>1, <3>2
  <2> QED BY <1>0, <1>10, <2>3, <2>4 DEF MarkTask, AgentTypeOK
<1>11. ASSUME NEW c \in Slots, StoreResult(c) PROVE AgentTypeOK'
  <2>1. call' \in [Slots -> Call]
    BY <1>0, <1>11, CallTypes DEF StoreResult, Close, Goto
  <2>2. tasks' \in Seq(Task) /\ Len(tasks') = Len(tasks)
    <3>1. CASE tasks' = tasks
      BY <1>0, <3>1
    <3>2. CASE tasks' # tasks
      <4>1. tasks' = [tasks EXCEPT ![call[c].task].status = Outcome(call[c].ok)]
        BY <1>11, <3>2 DEF StoreResult
      <4>2. call[c].task \in DOMAIN tasks
        BY <1>0, <3>2, <4>1
      <4> QED BY <4>1, <4>2, SetStatus DEF Outcome
    <3> QED BY <3>1, <3>2
  <2> QED BY <1>0, <1>11, <2>1, <2>2 DEF StoreResult, AgentTypeOK
<1>12. ASSUME NEW c \in Slots, Receive(c) PROVE AgentTypeOK'
  <2>1. call[c].agent \in Agents /\ call[c].given \subseteq Ids
    BY CallTypes DEF Call
  <2>2. call' \in [Slots -> Call]
    BY <1>0, <1>12, CallTypes DEF Receive, Close
  <2>3. executing' \in [Agents -> SUBSET Ids]
    BY <1>0, <1>12, <2>1 DEF Receive
  <2>4. begun' \in [Ids -> Nat]
    BY <1>0, <1>12 DEF Receive
  <2> QED BY <1>0, <1>12, <2>1, <2>2, <2>3, <2>4 DEF Receive, AgentTypeOK
<1>13. ASSUME NEW c \in Slots, GiveUp(c) \/ Notice(c) PROVE AgentTypeOK'
  <2>1. call' \in [Slots -> Call]
    BY <1>0, <1>13, CallTypes DEF GiveUp, Notice
  <2> QED BY <1>0, <1>13, <2>1 DEF GiveUp, Notice, AgentTypeOK
<1>14. ASSUME NEW a \in Agents, RestartAgent(a) PROVE AgentTypeOK'
  <2>1. \A c \in Slots : [call[c] EXCEPT !.client = "gone"] \in Call
    BY CallTypes
  <2>2. call' \in [Slots -> Call]
    BY <1>0, <1>14, <2>1 DEF RestartAgent
  <2>3. executing' \in [Agents -> SUBSET Ids]
    BY <1>0, <1>14 DEF RestartAgent
  <2>4. registered' \subseteq Agents /\ failures' \in Nat
    BY <1>0, <1>14 DEF RestartAgent
  <2> QED BY <1>0, <1>14, <2>2, <2>3, <2>4 DEF RestartAgent, AgentTypeOK
<1>15. CASE UNCHANGED vars
  BY <1>15 DEF vars, AgentTypeOK
<1> QED
  BY <1>0, <1>1, <1>2, <1>3, <1>4, <1>5, <1>6, <1>7, <1>8, <1>9, <1>10, <1>11, <1>12,
     <1>13, <1>14, <1>15 DEF Next, Handle, Conclude

LEMMA InitType == Init => AgentTypeOK
<1>1. \A a \in Agents : NoCall(a) \in Call
  BY DEF NoCall, NewCall, Call, CallKinds, Ids
<1>2. Init => call \in [Calls \union Beats -> Call]
  BY <1>1 DEF Init
<1> QED BY <1>2, AgentConstants DEF Init, AgentTypeOK, AgentRow, Ids

(* Every reachable state of the agents and their tasks is well typed. *)
THEOREM AgentTypeCorrect == Spec => []AgentTypeOK
<1>1. Init => AgentTypeOK
  BY InitType
<1>2. AgentTypeOK /\ [Next]_vars => AgentTypeOK'
  BY TypeStep
<1> QED BY <1>1, <1>2, PTL DEF Spec

-----------------------------------------------------------------------------
(* Steps that only let calls go on, or end: they cannot disturb TaskInv. *)

Carries(c) == /\ call'[c].pc # "free" /\ call[c].pc # "free"
              /\ call'[c].kind = call[c].kind /\ call'[c].agent = call[c].agent
              /\ call'[c].given = call[c].given /\ call'[c].todo = call[c].todo
              /\ call'[c].task = call[c].task
              /\ call'[c].client = "waits" => call[c].client = "waits"
              /\ call'[c].pc \in {"sent", "handling"} => call[c].pc \in {"sent", "handling"}
              /\ call[c].given # {} => call'[c].pc \in {"marking", "answered"}
              /\ call'[c].pc = "answered" => call[c].todo = {}

Ends(c) == call'[c].pc = "free" /\ call'[c].given = {} /\ call'[c].todo = {}

Quiet == /\ \A c \in Slots : call'[c] = call[c] \/ Carries(c) \/ Ends(c)
         /\ \A a \in Agents : executing'[a] \subseteq executing[a]
         /\ UNCHANGED <<tasks, begun>>

LEMMA QuietStep ==
  ASSUME IInv, Quiet
  PROVE  TaskInv'
<1>1. CallsOK'
  BY DEF IInv, TaskInv, CallsOK, Quiet, Carries, Ends
<1>2. OnePoll'
  <2>1. \A c \in Slots : AwaitedPoll(c)' => AwaitedPoll(c) /\ call'[c].agent = call[c].agent
    BY DEF Quiet, Carries, Ends, AwaitedPoll
  <2> QED BY <2>1 DEF IInv, TaskInv, OnePoll
<1>3. HandedOnce'
  BY DEF IInv, TaskInv, HandedOnce, Quiet, Carries, Ends
<1>4. BegunOnce'
  BY DEF IInv, TaskInv, BegunOnce, Quiet
<1>5. \A c \in Slots, i \in Ids : ResultPending(c, i)' => ResultPending(c, i)
  BY DEF Quiet, Carries, Ends, ResultPending
<1>6. OneExecution'
  BY <1>5 DEF IInv, TaskInv, OneExecution, Quiet
<1>7. Ended'
  BY <1>5, TaskIds DEF IInv, TaskInv, Ended, Quiet
<1> QED BY <1>1, <1>2, <1>3, <1>4, <1>6, <1>7 DEF TaskInv

(* A call ends, or goes on to another pc with what it carries. *)
LEMMA CloseIsQuiet ==
  ASSUME IInv, NEW c \in Slots, Close(c), UNCHANGED <<tasks, begun, executing>>
  PROVE  TaskInv'
<1>1. call \in [Slots -> Call]
  BY DEF IInv, AgentTypeOK, Slots
<1>2. call'[c] = NoCall(call[c].agent) /\ \A d \in Slots : d # c => call'[d] = call[d]
  BY <1>1 DEF Close
<1>3. Ends(c)
  BY <1>2 DEF Ends, NoCall, NewCall
<1> QED BY <1>2, <1>3, QuietStep DEF Quiet

LEMMA GotoIsQuiet ==
  ASSUME IInv, NEW c \in Slots, UNCHANGED <<tasks, begun, executing>>,
         \/ Goto(c, "handling") /\ call[c].pc = "sent"
         \/ Goto(c, "answered") /\ call[c].pc \in {"handling", "marking"} /\ call[c].todo = {}
  PROVE  TaskInv'
<1>1. call \in [Slots -> Call] /\ call[c] \in Call
  BY DEF IInv, AgentTypeOK, Slots
<1>2. PICK pc \in {"handling", "answered"} :
        /\ call'[c] = [call[c] EXCEPT !.pc = pc]
        /\ \A d \in Slots : d # c => call'[d] = call[d]
        /\ \/ pc = "handling" /\ call[c].pc = "sent"
           \/ pc = "answered" /\ call[c].pc \in {"handling", "marking"} /\ call[c].todo = {}
  BY <1>1 DEF Goto
<1>3. call[c].given # {} => call[c].pc \in {"marking", "answered"}
  BY DEF IInv, TaskInv, CallsOK
<1>4. Carries(c)
  BY <1>1, <1>2, <1>3 DEF Carries, Call
<1> QED BY <1>2, <1>4, QuietStep DEF Quiet

(* A new call carries no task. *)
LEMMA OpenStep ==
  ASSUME IInv, NEW S \in SUBSET Slots, NEW r \in Call, Open(S, r),
         r.given = {}, r.todo = {}, r.pc = "sent", UNCHANGED <<tasks, begun>>,
         r.kind = "poll" => Waiting(r.agent, {"poll"}) = {},
         \/ r.kind # "result" /\ UNCHANGED executing
         \/ /\ r.kind = "result" /\ r.task \in executing[r.agent]
            /\ executing' = [executing EXCEPT ![r.agent] = @ \ {r.task}]
  PROVE  TaskInv'
<1>1. PICK s \in Slots : call[s].pc = "free" /\ call' = [call EXCEPT ![s] = r]
  BY OpenSlot
<1>2. /\ call \in [Slots -> Call] /\ executing \in [Agents -> SUBSET Ids] /\ r.agent \in Agents
      /\ DOMAIN call = Slots /\ DOMAIN tasks \subseteq Ids
  BY TaskIds DEF IInv, AgentTypeOK, Slots, Call
<1>3. call'[s] = r /\ \A d \in Slots : d # s => call'[d] = call[d]
  BY <1>1, <1>2
<1>4. CallsOK'
  BY <1>2, <1>3 DEF IInv, TaskInv, CallsOK
<1>5. OnePoll'
  <2>1. \A d \in Slots : d # s => (AwaitedPoll(d)' <=> AwaitedPoll(d))
    BY <1>3 DEF AwaitedPoll
  <2>2. AwaitedPoll(s)' => \A d \in Slots : AwaitedPoll(d) => call[d].agent # r.agent
    BY <1>2, <1>3 DEF AwaitedPoll, Waiting
  <2> QED BY <1>3, <2>1, <2>2 DEF IInv, TaskInv, OnePoll
<1>6. HandedOnce' /\ BegunOnce'
  BY <1>3 DEF IInv, TaskInv, HandedOnce, BegunOnce
<1>7. \A i \in Ids, d \in Slots : d # s => (ResultPending(d, i)' <=> ResultPending(d, i))
  BY <1>3 DEF ResultPending
<1>8. \A i \in Ids : ResultPending(s, i)' => r.kind = "result" /\ i = r.task
  BY <1>3 DEF ResultPending
<1>9. \A i \in Ids, a \in Agents : i \in executing'[a] => i \in executing[a]
  BY <1>2
<1>10. OneExecution'
  <2>1. \A i \in Ids, a \in Agents :
          r.kind = "result" /\ i = r.task /\ i \in executing[a] => a = r.agent
    BY <1>2 DEF IInv, TaskInv, OneExecution
  <2>2. r.kind = "result" => \A a \in Agents : r.task \notin executing'[a]
    BY <1>2, <2>1
  <2>3. r.kind = "result" => begun[r.task] # 0 /\ \A d \in Slots : ~ResultPending(d, r.task)
    BY <1>2 DEF IInv, TaskInv, OneExecution
  <2>4. ASSUME NEW i \in Ids, NEW a \in Agents, i \in executing'[a]
        PROVE  begun[i] # 0 /\ tasks[i].agent = a /\ \A c \in Slots : ~ResultPending(c, i)'
    BY <1>7, <1>8, <1>9, <2>2, <2>4 DEF IInv, TaskInv, OneExecution
  <2>5. ASSUME NEW i \in Ids, NEW c \in Slots, ResultPending(c, i)'
        PROVE  begun[i] # 0 /\ \A d \in Slots : ResultPending(d, i)' => c = d
    BY <1>7, <1>8, <2>3, <2>5 DEF IInv, TaskInv, OneExecution
  <2> QED BY <2>4, <2>5 DEF OneExecution
<1>11. Ended'
  <2>1. r.kind = "result" /\ r.task \in DOMAIN tasks => tasks[r.task].status \notin Finished
    BY <1>2 DEF IInv, TaskInv, Ended
  <2> QED BY <1>2, <1>7, <1>8, <1>9, <2>1 DEF IInv, TaskInv, Ended
<1> QED BY <1>4, <1>5, <1>6, <1>10, <1>11 DEF TaskInv

-----------------------------------------------------------------------------
(* The steps that touch the tasks. *)

LEMMA InsertStep ==
  ASSUME IInv, NEW a \in Agents, NEW kind \in TaskKinds, InsertTask(a, kind)
  PROVE  TaskInv'
<1>1. CASE UNCHANGED tasks
  BY <1>1, QuietStep DEF InsertTask, Quiet
<1>2. CASE tasks' = Append(tasks, [agent |-> a, kind |-> kind, status |-> "pending"])
  <2>1. tasks \in Seq(Task) /\ DOMAIN tasks \subseteq Ids
    BY TaskIds DEF IInv, AgentTypeOK
  <2>2. /\ \A i \in DOMAIN tasks : i \in DOMAIN tasks' /\ tasks'[i] = tasks[i]
        /\ \A i \in DOMAIN tasks' \ DOMAIN tasks : tasks'[i].status = "pending"
    BY <1>2, <2>1
  <2>3. UNCHANGED <<call, executing, begun>>
    BY <1>2 DEF InsertTask
  <2>4. CallsOK' /\ OnePoll'
    BY <2>2, <2>3 DEF IInv, TaskInv, CallsOK, OnePoll, AwaitedPoll
  <2>5. BegunOnce'
    BY <2>2, <2>3 DEF IInv, TaskInv, BegunOnce
  <2>6. HandedOnce'
    BY <2>2, <2>3 DEF IInv, TaskInv, HandedOnce, CallsOK
  <2>7. OneExecution'
    BY <2>1, <2>2, <2>3 DEF IInv, TaskInv, OneExecution, BegunOnce, ResultPending
  <2>8. Ended'
    BY <2>2, <2>3 DEF IInv, TaskInv, Ended, ResultPending, Finished
  <2> QED BY <2>4, <2>5, <2>6, <2>7, <2>8 DEF TaskInv
<1> QED BY <1>1, <1>2 DEF InsertTask

LEMMA SelectStep ==
  ASSUME IInv, NEW c \in Slots, SelectTasks(c)
  PROVE  TaskInv'
<1>1. CASE Close(c)
  BY <1>1, CloseIsQuiet DEF SelectTasks
<1>2. CASE ~Close(c)
  <2>0. PICK ids : ids = OldestPending(call[c].agent)
    OBVIOUS
  <2>1. /\ call \in [Slots -> Call] /\ call[c] \in Call /\ DOMAIN tasks \subseteq Ids
    BY TaskIds DEF IInv, AgentTypeOK, Slots
  <2>2. /\ call'[c] = [call[c] EXCEPT !.pc = "marking", !.given = ids, !.todo = ids]
        /\ \A d \in Slots : d # c => call'[d] = call[d]
        /\ call[c].pc = "handling" /\ call[c].kind = "poll"
        /\ UNCHANGED <<tasks, executing, begun>>
    BY <1>2, <2>0, <2>1 DEF SelectTasks
  <2>3. \A i \in ids : /\ i \in DOMAIN tasks /\ tasks[i].agent = call[c].agent
                       /\ tasks[i].status = "pending"
    BY <2>0 DEF OldestPending
  <2>4. /\ call'[c].pc = "marking" /\ call'[c].given = ids /\ call'[c].todo = ids
        /\ call'[c].kind = "poll" /\ call'[c].agent = call[c].agent
        /\ call'[c].client = call[c].client
        /\ call[c].pc = "handling" /\ call[c].kind = "poll"
    BY <2>1, <2>2 DEF Call
  <2>5. /\ \A d \in Slots : d # c => call'[d] = call[d]
        /\ UNCHANGED <<tasks, executing, begun>>
    BY <2>2
  <2>6. CallsOK'
    BY <2>5, <2>3, <2>4 DEF IInv, TaskInv, CallsOK
  <2>7. OnePoll'
    <3>1. \A d \in Slots : (AwaitedPoll(d)' <=> AwaitedPoll(d)) /\ call'[d].agent = call[d].agent
      BY <2>5, <2>4 DEF AwaitedPoll
    <3> QED BY <3>1 DEF IInv, TaskInv, OnePoll
  <2>8. HandedOnce'
    <3>1. \A i \in ids : begun[i] = 0
      BY <2>1, <2>3 DEF IInv, TaskInv, BegunOnce
    <3> QED BY <2>5, <2>4, <3>1 DEF IInv, TaskInv, HandedOnce
  <2>9. BegunOnce'
    BY <2>5 DEF IInv, TaskInv, BegunOnce
  <2>10. \A d \in Slots, i \in Ids : ResultPending(d, i)' <=> ResultPending(d, i)
    BY <2>5, <2>4 DEF ResultPending
  <2>11. OneExecution' /\ Ended'
    BY <2>1, <2>5, <2>10 DEF IInv, TaskInv, OneExecution, Ended
  <2> QED BY <2>6, <2>7, <2>8, <2>9, <2>11 DEF TaskInv
<1> QED BY <1>1, <1>2

LEMMA MarkStep ==
  ASSUME IInv, NEW c \in Slots, MarkTask(c)
  PROVE  TaskInv' /\ \A i \in DOMAIN tasks : tasks[i].status \in Finished => tasks'[i] = tasks[i]
<1>0. /\ call \in [Slots -> Call] /\ call[c] \in Call /\ DOMAIN tasks \subseteq Ids
      /\ call[c].pc = "marking" /\ UNCHANGED <<executing, begun>>
  BY TaskIds DEF IInv, AgentTypeOK, Slots, MarkTask
<1>1. PICK i \in call[c].todo :
        /\ call' = [call EXCEPT ![c].todo = @ \ {i}]
        /\ tasks' = IF Cancelled(c) \/ tasks[i].status # "pending" THEN tasks
                    ELSE [tasks EXCEPT ![i].status = "running"]
  BY DEF MarkTask
<1>2. i \in call[c].given /\ i \in DOMAIN tasks
  BY DEF IInv, TaskInv, CallsOK
<1>3. /\ call'[c] = [call[c] EXCEPT !.todo = @ \ {i}]
      /\ \A d \in Slots : d # c => call'[d] = call[d]
  BY <1>0, <1>1
<1>4. /\ DOMAIN tasks' = DOMAIN tasks
      /\ \A k \in DOMAIN tasks : /\ tasks'[k].agent = tasks[k].agent
                                 /\ k # i => tasks'[k] = tasks[k]
                                 /\ tasks[k].status # "pending" => tasks'[k] = tasks[k]
                                 /\ tasks'[k].status \in Finished => tasks[k].status \in Finished
      /\ ~Cancelled(c) => tasks'[i].status # "pending"
  <2>1. CASE tasks' = tasks
    BY <1>1, <2>1, <1>2, SetStatus DEF IInv
  <2>2. CASE ~Cancelled(c) /\ tasks[i].status = "pending"
    BY <1>1, <1>2, <2>2, SetStatus DEF IInv, Finished
  <2> QED BY <1>1, <2>1, <2>2
<1>5. \A d \in Slots : /\ call'[d].pc = call[d].pc /\ call'[d].kind = call[d].kind
                       /\ call'[d].agent = call[d].agent /\ call'[d].client = call[d].client
                       /\ call'[d].given = call[d].given /\ call'[d].task = call[d].task
                       /\ call'[d].todo = IF d = c THEN call[c].todo \ {i} ELSE call[d].todo
  BY <1>0, <1>3 DEF Call
<1>6. CallsOK' /\ OnePoll'
  BY <1>0, <1>4, <1>5 DEF IInv, TaskInv, CallsOK, OnePoll, AwaitedPoll
<1>7. BegunOnce'
  BY <1>0, <1>4 DEF IInv, TaskInv, BegunOnce
<1>8. HandedOnce'
  <2>1. call[c].client = "waits" => ~Cancelled(c)
    BY DEF Cancelled
  <2> QED BY <1>0, <1>4, <1>5, <2>1 DEF IInv, TaskInv, HandedOnce, CallsOK
<1>9. \A d \in Slots, k \in Ids : ResultPending(d, k)' <=> ResultPending(d, k)
  BY <1>5 DEF ResultPending
<1>10. OneExecution'
  BY <1>0, <1>4, <1>9 DEF IInv, TaskInv, OneExecution, BegunOnce
<1>11. Ended'
  BY <1>0, <1>4, <1>9 DEF IInv, TaskInv, Ended
<1>12. \A k \in DOMAIN tasks : tasks[k].status \in Finished => tasks'[k] = tasks[k]
  BY <1>4 DEF Finished
<1> QED BY <1>6, <1>7, <1>8, <1>10, <1>11, <1>12 DEF TaskInv

LEMMA StoreStep ==
  ASSUME IInv, NEW c \in Slots, StoreResult(c)
  PROVE  TaskInv' /\ \A i \in DOMAIN tasks : tasks[i].status \in Finished => tasks'[i] = tasks[i]
<1>1. CASE Close(c) /\ UNCHANGED tasks
  BY <1>1, CloseIsQuiet DEF StoreResult
<1>2. CASE ~(Close(c) /\ UNCHANGED tasks)
  <2>0. PICK i : i = call[c].task
    OBVIOUS
  <2>1. /\ call \in [Slots -> Call] /\ call[c] \in Call /\ DOMAIN tasks \subseteq Ids
        /\ call[c].pc = "handling" /\ call[c].kind = "result" /\ UNCHANGED <<executing, begun>>
    BY TaskIds DEF IInv, AgentTypeOK, Slots, StoreResult
  <2>2. tasks' = [tasks EXCEPT ![i].status = Outcome(call[c].ok)] /\ Goto(c, "answered")
    BY <1>2, <2>0 DEF StoreResult
  <2>3. call[c].given = {} /\ call[c].todo = {}
    BY <2>1 DEF IInv, TaskInv, CallsOK
  <2>4. ResultPending(c, i)
    BY <2>1, <2>0 DEF ResultPending
  <2>5. i \in Ids /\ Outcome(call[c].ok) \in Finished
    BY <2>1, <2>0 DEF IInv, TaskInv, CallsOK, Outcome, Finished
  <2>6. begun[i] = 1 /\ i \in DOMAIN tasks /\ tasks[i].status \notin Finished
    BY <2>4, <2>5 DEF IInv, TaskInv, OneExecution, BegunOnce, Ended
  <2>7. /\ \A d \in Slots : d # c => call'[d] = call[d]
        /\ call'[c] = [call[c] EXCEPT !.pc = "answered"]
    BY <2>1, <2>2 DEF Goto
  <2>8. call'[c].pc = "answered" /\ call'[c].given = {} /\ call'[c].todo = {}
        /\ call'[c].kind = "result" /\ call'[c].task = i
    BY <2>1, <2>3, <2>7, <2>0 DEF Call
  <2>9. /\ DOMAIN tasks' = DOMAIN tasks
        /\ \A k \in DOMAIN tasks : tasks'[k].agent = tasks[k].agent
        /\ \A k \in DOMAIN tasks : k # i => tasks'[k] = tasks[k]
        /\ tasks'[i].status \in Finished
    <3>1. Outcome(call[c].ok) \in {"pending", "running", "completed", "failed"}
      BY DEF Outcome
    <3> QED BY <2>2, <2>5, <2>6, <3>1, SetStatus DEF IInv
  <2>10. \A d \in Slots : d # c => call'[d] = call[d]
    BY <2>7
  <2>11. CallsOK'
    BY <2>1, <2>5, <2>8, <2>9, <2>10 DEF IInv, TaskInv, CallsOK
  <2>12. OnePoll'
    BY <2>8, <2>10 DEF IInv, TaskInv, OnePoll, AwaitedPoll
  <2>13. HandedOnce'
    BY <2>1, <2>8, <2>9, <2>10 DEF IInv, TaskInv, HandedOnce, CallsOK, Finished
  <2>14. BegunOnce'
    BY <2>1, <2>9 DEF IInv, TaskInv, BegunOnce, Finished
  <2>15. /\ \A d \in Slots, k \in Ids : ResultPending(d, k)' => ResultPending(d, k)
         /\ \A d \in Slots : ~ResultPending(d, i)'
    BY <2>4, <2>5, <2>8, <2>10 DEF IInv, TaskInv, OneExecution, ResultPending
  <2>16. \A a \in Agents : i \notin executing[a]
    BY <2>4, <2>5 DEF IInv, TaskInv, OneExecution
  <2>17. OneExecution'
    BY <2>1, <2>9, <2>15, <2>16 DEF IInv, TaskInv, OneExecution, BegunOnce
  <2>18. Ended'
    <3>1. \A a \in Agents : i \notin executing'[a]
      BY <2>1, <2>16
    <3>2. \A k \in DOMAIN tasks : k # i /\ tasks'[k].status \in Finished =>
            /\ begun'[k] # 0
            /\ \A a \in Agents : k \notin executing'[a]
            /\ \A d \in Slots : ~ResultPending(d, k)'
      BY <2>1, <2>9, <2>15 DEF IInv, TaskInv, Ended
    <3>3. begun'[i] # 0
      BY <2>1, <2>6
    <3>4. ASSUME NEW k \in DOMAIN tasks, tasks'[k].status \in Finished
          PROVE  /\ begun'[k] # 0
                 /\ \A a \in Agents : k \notin executing'[a]
                 /\ \A d \in Slots : ~ResultPending(d, k)'
      <4>1. CASE k = i
        BY <2>15, <3>1, <3>3, <4>1 DEF ResultPending
      <4>2. CASE k # i
        BY <3>2, <3>4, <4>2
      <4> QED BY <4>1, <4>2
    <3> QED BY <2>9, <3>4 DEF Ended
  <2>19. \A k \in DOMAIN tasks : tasks[k].status \in Finished => tasks'[k] = tasks[k]
    BY <2>6, <2>9
  <2> QED BY <2>11, <2>12, <2>13, <2>14, <2>17, <2>18, <2>19 DEF TaskInv
<1> QED BY <1>1, <1>2

LEMMA ReceiveStep ==
  ASSUME IInv, NEW c \in Slots, Receive(c)
  PROVE  TaskInv'
<1> DEFINE a == call[c].agent
<1>0. /\ call \in [Slots -> Call] /\ call[c].given \subseteq Ids /\ a \in Agents
      /\ executing \in [Agents -> SUBSET Ids] /\ DOMAIN tasks \subseteq Ids /\ begun \in [Ids -> Nat]
      /\ call[c].pc = "answered" /\ call[c].client = "waits" /\ UNCHANGED tasks
  BY CallTypes, TaskIds DEF IInv, AgentTypeOK, Slots, Receive, Call
<1>1. /\ \A d \in Slots : d # c => call'[d] = call[d]
      /\ call'[c].pc = "free" /\ call'[c].given = {} /\ call'[c].todo = {}
  BY <1>0 DEF Receive, Close, NoCall, NewCall
<1>2. /\ \A b \in Agents : executing'[b] = IF b = a THEN executing[b] \union call[c].given
                                           ELSE executing[b]
      /\ \A i \in Ids : begun'[i] = IF i \in call[c].given THEN begun[i] + 1 ELSE begun[i]
  BY <1>0 DEF Receive
<1>3. \A i \in call[c].given : /\ begun[i] = 0 /\ i \in DOMAIN tasks /\ tasks[i].agent = a
                               /\ tasks[i].status # "pending"
  BY <1>0 DEF IInv, TaskInv, CallsOK, HandedOnce
<1>4. call[c].given # {} => AwaitedPoll(c)
  BY <1>0 DEF IInv, TaskInv, CallsOK, AwaitedPoll
<1>5. CallsOK'
  BY <1>0, <1>1 DEF IInv, TaskInv, CallsOK
<1>6. OnePoll'
  BY <1>1 DEF IInv, TaskInv, OnePoll, AwaitedPoll
<1>7. \A d \in Slots \ {c}, i \in Ids :
        call[d].client = "waits" /\ i \in call[d].given => i \notin call[c].given
  <2>1. \A d \in Slots : call[d].client = "waits" /\ call[d].given # {} => AwaitedPoll(d)
    BY DEF IInv, TaskInv, CallsOK, AwaitedPoll
  <2>2. \A d \in Slots : \A i \in call[d].given : tasks[i].agent = call[d].agent
    BY DEF IInv, TaskInv, CallsOK
  <2> QED BY <1>3, <1>4, <2>1, <2>2 DEF IInv, TaskInv, OnePoll
<1>8. HandedOnce'
  <2>1. \A d \in Slots : call[d].given \subseteq Ids
    BY CallTypes DEF IInv, Call
  <2> QED BY <1>0, <1>1, <1>2, <1>7, <2>1 DEF IInv, TaskInv, HandedOnce
<1>9. BegunOnce'
  BY <1>0, <1>2, <1>3 DEF IInv, TaskInv, BegunOnce
<1>10. \A i \in Ids : begun[i] # 0 => begun'[i] # 0
  BY <1>0, <1>2
<1>11. /\ \A d \in Slots, i \in Ids : ResultPending(d, i)' => ResultPending(d, i)
       /\ \A d \in Slots, i \in call[c].given : ~ResultPending(d, i)
  BY <1>0, <1>1, <1>3 DEF IInv, TaskInv, OneExecution, ResultPending
<1>12. OneExecution'
  <2>1. ASSUME NEW i \in Ids, NEW b \in Agents, i \in executing'[b]
        PROVE  begun'[i] # 0 /\ tasks'[i].agent = b /\ \A d \in Slots : ~ResultPending(d, i)'
    <3>1. CASE i \in executing[b]
      BY <1>0, <1>10, <1>11, <3>1 DEF IInv, TaskInv, OneExecution
    <3>2. CASE i \in call[c].given /\ b = a
      BY <1>0, <1>2, <1>3, <1>11, <3>2
    <3> QED BY <1>2, <2>1, <3>1, <3>2
  <2>2. \A i \in Ids : \A d \in Slots : ResultPending(d, i)' =>
          begun'[i] # 0 /\ \A e \in Slots : ResultPending(e, i)' => d = e
    BY <1>10, <1>11 DEF IInv, TaskInv, OneExecution
  <2> QED BY <2>1, <2>2 DEF OneExecution
<1>13. Ended'
  <2>1. \A i \in call[c].given : tasks[i].status \notin Finished
    BY <1>3 DEF IInv, TaskInv, Ended
  <2> SUFFICES ASSUME NEW i \in DOMAIN tasks, tasks[i].status \in Finished
               PROVE  /\ begun'[i] # 0
                      /\ \A b \in Agents : i \notin executing'[b]
                      /\ \A d \in Slots : ~ResultPending(d, i)'
    BY <1>0 DEF Ended
  <2>2. /\ i \in Ids /\ i \notin call[c].given /\ begun[i] # 0
        /\ \A b \in Agents : i \notin executing[b]
        /\ \A d \in Slots : ~ResultPending(d, i)
    BY <1>0, <2>1 DEF IInv, TaskInv, Ended
  <2> QED BY <1>2, <1>10, <1>11, <2>2
<1> QED BY <1>5, <1>6, <1>8, <1>9, <1>12, <1>13 DEF TaskInv

-----------------------------------------------------------------------------

FinalStep == \A i \in DOMAIN tasks : tasks[i].status \in Finished => tasks'[i] = tasks[i]

LEMMA InvStep ==
  ASSUME IInv, [Next]_vars
  PROVE  IInv' /\ FinalStep
<1>0. /\ call \in [Slots -> Call] /\ tasks \in Seq(Task) /\ executing \in [Agents -> SUBSET Ids]
      /\ Calls \subseteq Slots /\ Beats \subseteq Slots /\ DOMAIN call = Slots
  BY DEF IInv, AgentTypeOK, Slots
<1>1. UNCHANGED <<tasks, call, executing, begun>> => TaskInv' /\ FinalStep
  BY QuietStep DEF Quiet, FinalStep
<1>2. ASSUME NEW a \in Agents, NEW kind \in TaskKinds, ChooseAgent(a, kind) \/ InsertTask(a, kind)
      PROVE  TaskInv' /\ FinalStep
  <2>1. TaskInv'
    BY <1>1, <1>2, InsertStep DEF ChooseAgent
  <2>2. FinalStep
    <3>1. UNCHANGED tasks
          \/ \E t \in Task : tasks' = Append(tasks, t)
      BY <1>2 DEF ChooseAgent, InsertTask, Task
    <3>2. \A i \in DOMAIN tasks : tasks'[i] = tasks[i]
      BY <1>0, <3>1
    <3> QED BY <3>2 DEF FinalStep
  <2> QED BY <2>1, <2>2
<1>3. ASSUME NEW a \in Agents, Revoke(a) \/ FallSilent(a) PROVE TaskInv' /\ FinalStep
  BY <1>1, <1>3 DEF Revoke, FallSilent
<1>4. ASSUME ListAgents PROVE TaskInv' /\ FinalStep
  <2>1. UNCHANGED <<tasks, call, executing, begun>>
    BY <1>4 DEF ListAgents
  <2> QED BY <1>1, <2>1
<1>5. ASSUME NEW a \in Agents, SendRegister(a) \/ SendHeartbeat(a) \/ SendPoll(a)
      PROVE  TaskInv' /\ FinalStep
  <2>1. PICK kind \in {"register", "heartbeat", "poll"}, S \in {Calls, Beats} :
          /\ Open(S, NewCall(kind, a)) /\ UNCHANGED <<tasks, executing, begun>>
          /\ kind = "poll" => Waiting(a, {"poll"}) = {}
    BY <1>5 DEF SendRegister, SendHeartbeat, SendPoll
  <2>2. /\ NewCall(kind, a) \in Call
        /\ NewCall(kind, a).given = {} /\ NewCall(kind, a).todo = {}
        /\ NewCall(kind, a).pc = "sent" /\ NewCall(kind, a).kind = kind
        /\ NewCall(kind, a).agent = a
    BY NewCallType DEF NewCall, CallKinds
  <2>3. S \in SUBSET Slots
    BY <1>0
  <2>4. TaskInv'
    BY <2>1, <2>2, <2>3, OpenStep
  <2> QED BY <2>1, <2>4 DEF FinalStep
<1>6. ASSUME NEW a \in Agents, NEW i \in executing[a], NEW ok \in BOOLEAN, SendResult(a, i, ok)
      PROVE  TaskInv' /\ FinalStep
  <2>1. PICK r : r = [NewCall("result", a) EXCEPT !.task = i, !.ok = ok]
    OBVIOUS
  <2>2. r \in Call /\ r.given = {} /\ r.todo = {} /\ r.pc = "sent" /\ r.kind = "result"
        /\ r.agent = a /\ r.task = i
    BY <1>0, <2>1 DEF NewCall, Call, CallKinds
  <2>3. Open(Calls, r) /\ executing' = [executing EXCEPT ![r.agent] = @ \ {r.task}]
        /\ UNCHANGED <<tasks, begun>>
    BY <1>6, <2>1, <2>2 DEF SendResult
  <2>4. TaskInv'
    BY <1>0, <2>2, <2>3, OpenStep
  <2> QED BY <2>3, <2>4 DEF FinalStep
<1>7. ASSUME NEW c \in Slots, Authenticate(c) \/ GoOnline(c) \/ AnswerPoll(c) \/ Lose(c)
      PROVE  TaskInv' /\ FinalStep
  <2>1. call[c].pc = "handling" => call[c].todo = {}
    BY DEF IInv, TaskInv, CallsOK
  <2>2. /\ UNCHANGED <<tasks, begun, executing>>
        /\ \/ Close(c)
           \/ Goto(c, "handling") /\ call[c].pc = "sent"
           \/ Goto(c, "answered") /\ call[c].pc \in {"handling", "marking"} /\ call[c].todo = {}
    BY <1>7, <2>1 DEF Authenticate, GoOnline, AnswerPoll, Lose
  <2>3. TaskInv'
    BY <2>2, CloseIsQuiet, GotoIsQuiet
  <2> QED BY <2>2, <2>3 DEF FinalStep
<1>8. ASSUME NEW c \in Slots, SelectTasks(c) PROVE TaskInv' /\ FinalStep
  BY <1>8, SelectStep DEF SelectTasks, FinalStep
<1>9. ASSUME NEW c \in Slots, MarkTask(c) \/ StoreResult(c) PROVE TaskInv' /\ FinalStep
  BY <1>9, MarkStep, StoreStep DEF FinalStep
<1>10. ASSUME NEW c \in Slots, Receive(c) PROVE TaskInv' /\ FinalStep
  BY <1>10, ReceiveStep DEF Receive, FinalStep
<1>11. ASSUME NEW c \in Slots, GiveUp(c) \/ Notice(c) PROVE TaskInv' /\ FinalStep
  <2>1. PICK client \in {"gone", "noticed"} : call' = [call EXCEPT ![c].client = client]
    BY <1>11 DEF GiveUp, Notice
  <2>2. /\ call'[c] = [call[c] EXCEPT !.client = client]
        /\ \A d \in Slots : d # c => call'[d] = call[d]
    BY <1>0, <2>1
  <2>3. call[c].pc # "free" /\ UNCHANGED <<tasks, begun, executing>>
    BY <1>11 DEF GiveUp, Notice
  <2>4. Carries(c)
    BY <1>0, <2>2, <2>3 DEF Carries, Call, IInv, TaskInv, CallsOK
  <2>5. TaskInv'
    BY <2>2, <2>3, <2>4, QuietStep DEF Quiet
  <2> QED BY <2>3, <2>5 DEF FinalStep
<1>12. ASSUME NEW a \in Agents, RestartAgent(a) PROVE TaskInv' /\ FinalStep
  <2>1. \A c \in Slots : \/ call'[c] = call[c]
                         \/ /\ call'[c] = [call[c] EXCEPT !.client = "gone"]
                            /\ call[c].pc # "free"
    BY <1>0, <1>12 DEF RestartAgent, Waiting
  <2>2. ASSUME NEW c \in Slots, call'[c] # call[c] PROVE Carries(c)
    <3>1. call'[c] = [call[c] EXCEPT !.client = "gone"] /\ call[c].pc # "free"
      BY <2>1, <2>2
    <3> QED BY <1>0, <3>1 DEF Carries, Call, IInv, TaskInv, CallsOK
  <2>3. UNCHANGED <<tasks, begun>> /\ \A b \in Agents : executing'[b] \subseteq executing[b]
    BY <1>0, <1>12 DEF RestartAgent
  <2>4. TaskInv'
    BY <2>2, <2>3, QuietStep DEF Quiet
  <2> QED BY <2>3, <2>4 DEF FinalStep
<1>13. ASSUME UNCHANGED vars PROVE TaskInv' /\ FinalStep
  <2>1. UNCHANGED <<tasks, call, executing, begun>>
    BY <1>13 DEF vars
  <2> QED BY <1>1, <2>1
<1>14. TaskInv' /\ FinalStep
  <2>1. CASE \E a \in Agents, kind \in TaskKinds : ChooseAgent(a, kind) \/ InsertTask(a, kind)
    BY <1>2, <2>1
  <2>2. CASE \E a \in Agents : \/ Revoke(a) \/ FallSilent(a) \/ RestartAgent(a)
                               \/ SendRegister(a) \/ SendHeartbeat(a) \/ SendPoll(a)
    BY <1>3, <1>5, <1>12, <2>2
  <2>3. CASE \E a \in Agents : \E i \in executing[a], ok \in BOOLEAN : SendResult(a, i, ok)
    BY <1>6, <2>3
  <2>4. CASE \E c \in Slots : Handle(c) \/ Conclude(c) \/ GiveUp(c) \/ Notice(c)
    BY <1>7, <1>8, <1>9, <1>10, <1>11, <2>4 DEF Handle, Conclude
  <2> QED BY <1>0, <1>4, <1>13, <2>1, <2>2, <2>3, <2>4 DEF Next
<1> QED BY <1>14, TypeStep DEF IInv

LEMMA InvInit == Init => IInv
<1>1. Init => AgentTypeOK
  BY InitType
<1>0. Init => \A c \in Slots : \E a \in Agents : call[c] = NoCall(a)
  <2>1. Init => call \in [Slots -> {NoCall(a) : a \in Agents}]
    BY DEF Init, Slots
  <2> QED BY <2>1
<1>2. Init => /\ \A c \in Slots : /\ call[c].pc = "free" /\ call[c].given = {}
                                  /\ call[c].todo = {} /\ call[c].kind = "poll"
              /\ tasks = <<>> /\ \A i \in Ids : begun[i] = 0
              /\ \A a \in Agents : executing[a] = {}
  <2>1. \A a \in Agents : /\ NoCall(a).pc = "free" /\ NoCall(a).given = {}
                          /\ NoCall(a).todo = {} /\ NoCall(a).kind = "poll"
    BY DEF NoCall, NewCall
  <2> QED BY <1>0, <2>1 DEF Init
<1>3. Init => CallsOK /\ OnePoll /\ HandedOnce
  BY <1>2 DEF CallsOK, OnePoll, HandedOnce, AwaitedPoll
<1>4. Init => BegunOnce /\ OneExecution /\ Ended
  BY <1>2 DEF BegunOnce, OneExecution, Ended, ResultPending
<1> QED BY <1>1, <1>3, <1>4 DEF IInv, TaskInv

LEMMA Invariance == Spec => []IInv
<1>1. IInv /\ [Next]_vars => IInv'
  BY InvStep
<1> QED BY <1>1, InvInit, PTL DEF Spec

(***************************************************************************)
(* No interleaving of polls, clients that go, restarts and revocations     *)
(* makes an agent begin a task twice.                                      *)
(***************************************************************************)
THEOREM BegunAtMostOnce == Spec => []AtMostOnce
<1>1. IInv => AtMostOnce
  BY DEF IInv, TaskInv, BegunOnce, AtMostOnce, AgentTypeOK
<1> QED BY <1>1, Invariance, PTL

(* No step replaces a result, or marks a task running that has one. *)
THEOREM ResultsStay == Spec => ResultIsFinal
<1>1. IInv /\ [Next]_vars =>
        [\A i \in DOMAIN tasks : tasks[i].status \in Finished => tasks'[i] = tasks[i]]_vars
  BY InvStep DEF FinalStep
<1> QED BY <1>1, Invariance, PTL DEF Spec, ResultIsFinal

-----------------------------------------------------------------------------
(* The refinement: what the queue sees of a step. *)

Shows(c) == <<call[c].task, call[c].ok>>

LEMMA SameReports ==
  ASSUME AgentTypeOK, AgentTypeOK',
         \A c \in Slots : /\ c \in Reporting' <=> c \in Reporting
                          /\ c \in Reporting => Shows(c)' = Shows(c)
  PROVE  Reported' = Reported
<1>1. Reporting \subseteq Slots /\ Reporting' \subseteq Slots
  BY DEF AgentTypeOK, Reporting, Slots
<1>2. Reported = {Shows(c) : c \in Reporting} /\ Reported' = {Shows(c)' : c \in Reporting'}
  BY DEF Reported, Shows
<1> QED BY <1>1, <1>2

LEMMA ReportEnds ==
  ASSUME IInv, AgentTypeOK', NEW c \in Slots, c \in Reporting, c \notin Reporting',
         \A d \in Slots : d # c => call'[d] = call[d]
  PROVE  Shows(c) \in Reported /\ Reported' = Reported \ {Shows(c)}
<1>1. /\ Reporting \subseteq Slots /\ Reporting' \subseteq Slots
      /\ \A d \in Slots \ {c} : /\ d \in Reporting' <=> d \in Reporting
                                /\ Shows(d)' = Shows(d)
  BY DEF IInv, AgentTypeOK, Reporting, Slots, Shows
<1>2. Reported = {Shows(d) : d \in Reporting} /\ Reported' = {Shows(d)' : d \in Reporting'}
  BY DEF Reported, Shows
<1>3. \A d \in Reporting : d # c => Shows(d) # Shows(c)
  <2>1. \A d \in Reporting : ResultPending(d, call[d].task) /\ call[d].task \in Ids
    BY <1>1 DEF Reporting, ResultPending, IInv, TaskInv, CallsOK
  <2> QED BY <1>1, <2>1 DEF Shows, IInv, TaskInv, OneExecution
<1> QED BY <1>1, <1>2, <1>3

(* The tasks as the queue sees them. *)
LEMMA SameTasks ==
  ASSUME DOMAIN tasks' = DOMAIN tasks,
         \A i \in DOMAIN tasks : /\ tasks'[i].agent = tasks[i].agent
                                 /\ tasks'[i].status \in Finished \/ tasks[i].status \in Finished
                                    => tasks'[i].status = tasks[i].status
  PROVE  /\ Owner' = Owner /\ OnRecord("completed")' = OnRecord("completed")
         /\ OnRecord("failed")' = OnRecord("failed")
  BY DEF Owner, OnRecord, Finished

Unseen == UNCHANGED Queue!queueVars

(* What only moves calls is unseen unless it ends a report, which it loses. *)
LEMMA CallsMove ==
  ASSUME IInv, AgentTypeOK', UNCHANGED <<tasks, begun, executing>>, NEW c \in Slots,
         \A d \in Slots : d # c => call'[d] = call[d],
         c \in Reporting' => c \in Reporting /\ Shows(c)' = Shows(c)
  PROVE  Unseen \/ Queue!QueueNext
<1>1. UNCHANGED <<Owner, Begun, Running, OnRecord("completed"), OnRecord("failed")>>
  BY DEF Owner, Begun, Running, OnRecord
<1>2. CASE c \in Reporting => c \in Reporting'
  <2>1. \A d \in Slots : /\ d \in Reporting' <=> d \in Reporting
                         /\ d \in Reporting => Shows(d)' = Shows(d)
    BY <1>2 DEF IInv, AgentTypeOK, Reporting, Slots, Shows
  <2>2. Reported' = Reported
    BY <2>1, SameReports DEF IInv
  <2> QED BY <1>1, <2>2 DEF Unseen, Queue!queueVars
<1>3. CASE c \in Reporting /\ c \notin Reporting'
  <2>1. Shows(c) \in Reported /\ Reported' = Reported \ {Shows(c)}
    BY <1>3, ReportEnds
  <2>2. Queue!LoseReport(Shows(c))
    BY <1>1, <2>1 DEF Queue!LoseReport
  <2> QED BY <2>1, <2>2 DEF Queue!QueueNext
<1> QED BY <1>2, <1>3

LEMMA EnqueueSeen ==
  ASSUME IInv, AgentTypeOK', NEW a \in Agents, NEW kind \in TaskKinds, InsertTask(a, kind)
  PROVE  Unseen \/ Queue!QueueNext
<1>0. UNCHANGED <<call, begun, executing>>
  BY DEF InsertTask
<1>1. UNCHANGED <<Begun, Running, Reported>>
  BY <1>0 DEF Begun, Running, Reported, Reporting
<1>2. CASE UNCHANGED tasks
  <2>1. UNCHANGED <<Owner, OnRecord("completed"), OnRecord("failed")>>
    BY <1>2 DEF Owner, OnRecord
  <2> QED BY <1>1, <2>1 DEF Unseen, Queue!queueVars
<1>3. CASE tasks' = Append(tasks, [agent |-> a, kind |-> kind, status |-> "pending"])
  <2>1. tasks \in Seq(Task) /\ DOMAIN tasks = 1..Len(tasks) /\ Len(tasks) \in Nat
    BY DEF IInv, AgentTypeOK
  <2>2. /\ DOMAIN tasks' = 1..(Len(tasks) + 1)
        /\ \A i \in DOMAIN tasks : tasks'[i] = tasks[i]
        /\ tasks'[Len(tasks) + 1].agent = a /\ tasks'[Len(tasks) + 1].status = "pending"
    BY <1>3, <2>1
  <2>3. UNCHANGED <<OnRecord("completed"), OnRecord("failed")>>
    BY <2>1, <2>2 DEF OnRecord
  <2>4. Owner' = Append(Owner, a)
    <3>1. \A i \in 1..Len(tasks) : tasks[i].agent \in Agents
      <4>1. \A i \in 1..Len(tasks) : tasks[i] \in Task
        BY <2>1
      <4> QED BY <4>1 DEF Task
    <3>2. Owner \in Seq(Agents) /\ Len(Owner) = Len(tasks)
      <4>1. Owner \in [1..Len(tasks) -> Agents]
        BY <2>1, <3>1 DEF Owner
      <4> QED BY <2>1, <4>1
    <3>3. Owner' = [i \in 1..(Len(tasks) + 1) |-> IF i = Len(tasks) + 1 THEN a ELSE Owner[i]]
      BY <2>1, <2>2 DEF Owner
    <3>4. PICK h : h = Append(Owner, a)
      OBVIOUS
    <3>5. /\ h \in Seq(Agents) /\ DOMAIN h = 1..(Len(tasks) + 1)
          /\ \A i \in 1..(Len(tasks) + 1) : h[i] = IF i = Len(tasks) + 1 THEN a ELSE Owner[i]
      BY <2>1, <3>2, <3>4
    <3>6. h = [i \in 1..(Len(tasks) + 1) |-> IF i = Len(tasks) + 1 THEN a ELSE Owner[i]]
      BY <3>5
    <3> QED BY <3>3, <3>4, <3>6
  <2>5. Queue!Enqueue(a)
    BY <1>1, <2>3, <2>4 DEF Queue!Enqueue
  <2> QED BY <2>5 DEF Queue!QueueNext
<1> QED BY <1>2, <1>3 DEF InsertTask

LEMMA OpenSeen ==
  ASSUME IInv, AgentTypeOK', NEW S \in SUBSET Slots, NEW r \in Call, Open(S, r),
         r.kind # "result", UNCHANGED <<tasks, begun, executing>>
  PROVE  Unseen \/ Queue!QueueNext
<1>1. PICK s \in Slots : call' = [call EXCEPT ![s] = r]
  BY OpenSlot
<1>2. call'[s] = r /\ \A d \in Slots : d # s => call'[d] = call[d]
  BY <1>1 DEF IInv, AgentTypeOK, Slots
<1>3. s \notin Reporting'
  BY <1>2 DEF Reporting
<1> QED BY <1>2, <1>3, CallsMove

LEMMA ReportSeen ==
  ASSUME IInv, AgentTypeOK', NEW a \in Agents, NEW i \in executing[a], NEW ok \in BOOLEAN,
         SendResult(a, i, ok)
  PROVE  Queue!QueueNext
<1> DEFINE r == [NewCall("result", a) EXCEPT !.task = i, !.ok = ok]
<1>1. PICK s \in Slots : call[s].pc = "free" /\ call' = [call EXCEPT ![s] = r]
  BY OpenSlot DEF SendResult, Slots
<1>2. r.kind = "result" /\ r.pc = "sent" /\ r.task = i /\ r.ok = ok
  BY DEF NewCall
<1>3. /\ call'[s] = r /\ \A d \in Slots : d # s => call'[d] = call[d]
      /\ Reporting \subseteq Slots /\ Reporting' \subseteq Slots
  BY <1>1 DEF IInv, AgentTypeOK, Slots, Reporting
<1> HIDE DEF r
<1>4. s \notin Reporting /\ s \in Reporting' /\ Shows(s)' = <<i, ok>>
  BY <1>1, <1>2, <1>3 DEF IInv, AgentTypeOK, Slots, Reporting, Shows
<1>5. \A d \in Slots \ {s} : /\ d \in Reporting' <=> d \in Reporting
                             /\ Shows(d)' = Shows(d)
  BY <1>3 DEF IInv, AgentTypeOK, Reporting, Slots, Shows
<1>6. Reported = {Shows(d) : d \in Reporting} /\ Reported' = {Shows(d)' : d \in Reporting'}
  BY DEF Reported, Shows
<1>7. Reported' = Reported \union {<<i, ok>>}
  BY <1>3, <1>4, <1>5, <1>6
<1>8. Running' = Running \ {i} /\ i \in Running
  <2>1. \A b \in Agents : i \in executing[b] => b = a
    BY DEF IInv, TaskInv, OneExecution, AgentTypeOK
  <2> QED BY <2>1 DEF SendResult, Running, IInv, AgentTypeOK
<1>9. UNCHANGED <<Owner, Begun, OnRecord("completed"), OnRecord("failed")>>
  BY DEF SendResult, Owner, Begun, OnRecord
<1>10. Queue!Report(i, ok)
  BY <1>7, <1>8, <1>9 DEF Queue!Report
<1> QED BY <1>8, <1>10 DEF Queue!QueueNext

(* A call that closes, or goes on to the end of its statements. *)
LEMMA CloseSeen ==
  ASSUME IInv, AgentTypeOK', NEW c \in Slots, Close(c), UNCHANGED <<tasks, begun, executing>>
  PROVE  Unseen \/ Queue!QueueNext
<1>1. call'[c] = NoCall(call[c].agent) /\ \A d \in Slots : d # c => call'[d] = call[d]
  BY DEF Close, IInv, AgentTypeOK, Slots
<1>2. c \notin Reporting'
  BY <1>1 DEF NoCall, NewCall, Reporting
<1> QED BY <1>1, <1>2, CallsMove

LEMMA GotoSeen ==
  ASSUME IInv, AgentTypeOK', NEW c \in Slots, UNCHANGED <<tasks, begun, executing>>,
         \/ Goto(c, "handling") /\ call[c].pc = "sent"
         \/ Goto(c, "answered")
  PROVE  Unseen \/ Queue!QueueNext
<1>1. call \in [Slots -> Call] /\ call[c] \in Call
  BY DEF IInv, AgentTypeOK, Slots
<1>2. PICK pc \in {"handling", "answered"} :
        /\ call'[c] = [call[c] EXCEPT !.pc = pc]
        /\ \A d \in Slots : d # c => call'[d] = call[d]
        /\ pc = "answered" \/ call[c].pc = "sent"
  BY <1>1 DEF Goto
<1>3. /\ call'[c].pc = pc /\ call'[c].kind = call[c].kind
      /\ call'[c].task = call[c].task /\ call'[c].ok = call[c].ok
  BY <1>1, <1>2 DEF Call
<1>4. c \in Reporting' => c \in Reporting /\ Shows(c)' = Shows(c)
  BY <1>1, <1>2, <1>3 DEF Reporting, Shows
<1> QED BY <1>2, <1>4, CallsMove

LEMMA SelectSeen ==
  ASSUME IInv, AgentTypeOK', NEW c \in Slots, SelectTasks(c)
  PROVE  Unseen \/ Queue!QueueNext
<1>0. UNCHANGED <<tasks, begun, executing>> /\ call[c].kind = "poll"
  BY DEF SelectTasks
<1>1. CASE Close(c)
  BY <1>0, <1>1, CloseSeen
<1>2. ASSUME NEW ids, call' = [call EXCEPT ![c].pc = "marking", ![c].given = ids, ![c].todo = ids]
      PROVE  Unseen \/ Queue!QueueNext
  <2>1. call \in [Slots -> Call] /\ call[c] \in Call
    BY DEF IInv, AgentTypeOK, Slots
  <2>2. /\ call'[c].kind = call[c].kind
        /\ \A d \in Slots : d # c => call'[d] = call[d]
    BY <1>2, <2>1 DEF Call
  <2>3. c \notin Reporting'
    BY <1>0, <2>2 DEF Reporting
  <2> QED BY <1>0, <2>2, <2>3, CallsMove
<1> QED BY <1>1, <1>2 DEF SelectTasks

(* Marking is unseen: the queue does not know which tasks a poll was shown. *)
LEMMA MarkSeen ==
  ASSUME IInv, AgentTypeOK', NEW c \in Slots, MarkTask(c)
  PROVE  Unseen
<1>1. PICK i \in call[c].todo :
        /\ call' = [call EXCEPT ![c].todo = @ \ {i}]
        /\ tasks' = IF Cancelled(c) \/ tasks[i].status # "pending" THEN tasks
                    ELSE [tasks EXCEPT ![i].status = "running"]
  BY DEF MarkTask
<1>2. i \in DOMAIN tasks
  BY DEF IInv, TaskInv, CallsOK
<1>3. /\ DOMAIN tasks' = DOMAIN tasks
      /\ \A k \in DOMAIN tasks :
           /\ tasks'[k].agent = tasks[k].agent
           /\ tasks'[k].status \in Finished \/ tasks[k].status \in Finished
              => tasks'[k].status = tasks[k].status
  <2>1. CASE tasks' = tasks
    BY <2>1
  <2>2. CASE tasks[i].status = "pending" /\ tasks' = [tasks EXCEPT ![i].status = "running"]
    BY <1>2, <2>2, SetStatus DEF IInv, Finished
  <2> QED BY <1>1, <2>1, <2>2
<1>4. call \in [Slots -> Call] /\ call' \in [Slots -> Call] /\ call[c].pc = "marking"
  BY DEF IInv, AgentTypeOK, Slots, MarkTask
<1>5. \A d \in Slots : /\ call'[d].pc = call[d].pc /\ call'[d].kind = call[d].kind
                       /\ call'[d].task = call[d].task /\ call'[d].ok = call[d].ok
  BY <1>1, <1>4 DEF Call
<1>6. Reported' = Reported
  BY <1>4, <1>5, SameReports DEF IInv, Reporting, Shows
<1>7. UNCHANGED <<Begun, Running>>
  BY DEF MarkTask, Begun, Running
<1> QED BY <1>3, <1>6, <1>7, SameTasks DEF Unseen, Queue!queueVars

LEMMA RecordSeen ==
  ASSUME IInv, AgentTypeOK', NEW c \in Slots, StoreResult(c)
  PROVE  Unseen \/ Queue!QueueNext
<1>0. /\ call \in [Slots -> Call] /\ call[c] \in Call /\ UNCHANGED <<begun, executing>>
      /\ call[c].kind = "result" /\ call[c].pc = "handling"
  BY DEF IInv, AgentTypeOK, Slots, StoreResult
<1>1. CASE Close(c) /\ UNCHANGED tasks
  BY <1>0, <1>1, CloseSeen
<1>2. ASSUME NEW i \in Ids, i = call[c].task, NEW ok \in BOOLEAN, ok = call[c].ok,
             tasks' = [tasks EXCEPT ![i].status = Outcome(ok)], Goto(c, "answered")
      PROVE  Queue!QueueNext
  <2>1. i \in DOMAIN tasks /\ tasks[i].status \notin Finished
    <3>1. ResultPending(c, i)
      BY <1>0, <1>2 DEF ResultPending
    <3> QED BY <3>1 DEF IInv, TaskInv, OneExecution, BegunOnce, Ended
  <2>2. /\ Outcome(ok) \in Finished
        /\ Outcome(ok) = "completed" <=> ok
        /\ Outcome(ok) = "failed" <=> ~ok
    BY DEF Outcome, Finished
  <2>3. /\ DOMAIN tasks' = DOMAIN tasks /\ tasks'[i].status = Outcome(ok)
        /\ \A k \in DOMAIN tasks : /\ tasks'[k].agent = tasks[k].agent
                                   /\ k # i => tasks'[k] = tasks[k]
    BY <1>2, <2>1, <2>2, SetStatus DEF IInv, Finished
  <2>4. /\ OnRecord("completed")' = OnRecord("completed") \union {k \in {i} : ok}
        /\ OnRecord("failed")' = OnRecord("failed") \union {k \in {i} : ~ok}
    BY <2>1, <2>2, <2>3 DEF OnRecord, Finished
  <2>5. UNCHANGED <<Owner, Begun, Running>>
    BY <1>0, <2>3 DEF Owner, Begun, Running
  <2>6. c \in Reporting /\ c \notin Reporting' /\ \A d \in Slots : d # c => call'[d] = call[d]
    BY <1>0, <1>2 DEF Goto, Reporting, Call
  <2>7. <<i, ok>> \in Reported /\ Reported' = Reported \ {<<i, ok>>}
    BY <1>2, <2>6, ReportEnds DEF Shows
  <2>8. Queue!Record(i, ok)
    BY <2>4, <2>5, <2>7 DEF Queue!Record
  <2> QED BY <2>7, <2>8 DEF Queue!QueueNext
<1>3. call[c].task \in Ids /\ call[c].ok \in BOOLEAN
  BY <1>0 DEF IInv, TaskInv, CallsOK, Call
<1> QED BY <1>1, <1>2, <1>3 DEF StoreResult

LEMMA ExecuteSeen ==
  ASSUME IInv, AgentTypeOK', NEW c \in Slots, Receive(c)
  PROVE  Queue!QueueNext
<1> DEFINE given == call[c].given
<1>0. /\ call \in [Slots -> Call] /\ call[c].agent \in Agents /\ given \subseteq Ids
      /\ executing \in [Agents -> SUBSET Ids] /\ begun \in [Ids -> Nat]
      /\ call[c].pc = "answered" /\ call[c].client = "waits" /\ UNCHANGED tasks
  BY CallTypes DEF IInv, AgentTypeOK, Slots, Receive, Call
<1>1. PICK a \in Agents : a = call[c].agent
  BY <1>0
<1>2. \A i \in given : begun[i] = 0 /\ i \in DOMAIN tasks /\ tasks[i].agent = a
  BY <1>0, <1>1 DEF IInv, TaskInv, CallsOK, HandedOnce
<1>3. Begun' = Begun \union given /\ given \intersect Begun = {}
  <2>1. \A i \in Ids : begun'[i] = IF i \in given THEN begun[i] + 1 ELSE begun[i]
    BY DEF Receive
  <2> QED BY <1>0, <1>2, <2>1 DEF Begun
<1>4. Running' = Running \union given
  <2>1. \A b \in Agents : executing'[b] = IF b = a THEN executing[b] \union given
                                          ELSE executing[b]
    BY <1>0, <1>1 DEF Receive
  <2>2. \A x : x \in Running' <=> \E b \in Agents : x \in executing'[b]
    BY DEF Running
  <2>3. \A x : x \in Running <=> \E b \in Agents : x \in executing[b]
    BY DEF Running
  <2> QED BY <2>1, <2>2, <2>3
<1>5. given \subseteq Queue!TasksOf(a)
  BY <1>2 DEF Queue!TasksOf, Owner
<1>6. UNCHANGED <<Owner, OnRecord("completed"), OnRecord("failed")>>
  BY <1>0 DEF Owner, OnRecord
<1>7. Reported' = Reported
  <2>1. call'[c].pc = "free" /\ \A d \in Slots : d # c => call'[d] = call[d]
    BY <1>0 DEF Receive, Close, NoCall, NewCall
  <2>2. \A d \in Slots : /\ d \in Reporting' <=> d \in Reporting
                         /\ d \in Reporting => Shows(d)' = Shows(d)
    BY <1>0, <2>1 DEF IInv, AgentTypeOK, Reporting, Slots, Shows
  <2> QED BY <2>2, SameReports DEF IInv
<1>8. Queue!Execute(a)
  <2>1. given \in SUBSET (Queue!TasksOf(a) \ Begun)
    BY <1>3, <1>5
  <2> QED BY <1>3, <1>4, <1>6, <1>7, <2>1 DEF Queue!Execute
<1> QED BY <1>8 DEF Queue!QueueNext

LEMMA RestartSeen ==
  ASSUME IInv, AgentTypeOK', NEW a \in Agents, RestartAgent(a)
  PROVE  Queue!QueueNext
<1>1. /\ call \in [Slots -> Call] /\ executing \in [Agents -> SUBSET Ids]
      /\ DOMAIN call = Slots
  BY DEF IInv, AgentTypeOK, Slots
<1>2. \A c \in Slots : call'[c] = call[c] \/ call'[c] = [call[c] EXCEPT !.client = "gone"]
  BY <1>1 DEF RestartAgent
<1>3. \A c \in Slots : /\ call'[c].pc = call[c].pc /\ call'[c].kind = call[c].kind
                       /\ call'[c].task = call[c].task /\ call'[c].ok = call[c].ok
  <2> SUFFICES ASSUME NEW c \in Slots
               PROVE  /\ call'[c].pc = call[c].pc /\ call'[c].kind = call[c].kind
                      /\ call'[c].task = call[c].task /\ call'[c].ok = call[c].ok
    OBVIOUS
  <2>1. call[c] \in Call
    BY <1>1
  <2> QED BY <1>2, <2>1 DEF Call
<1>4. Reported' = Reported
  <2>1. \A c \in Slots : /\ c \in Reporting' <=> c \in Reporting
                         /\ c \in Reporting => Shows(c)' = Shows(c)
    BY <1>3 DEF IInv, AgentTypeOK, Reporting, Slots, Shows
  <2> QED BY <2>1, SameReports DEF IInv
<1>5. \A b \in Agents : executing'[b] = IF b = a THEN {} ELSE executing[b]
  BY <1>1 DEF RestartAgent
<1>6. \A b \in Agents : \A i \in executing[b] : i \in DOMAIN tasks /\ tasks[i].agent = b
  BY <1>1 DEF IInv, TaskInv, OneExecution, BegunOnce
<1>7. Running' = Running \ Queue!TasksOf(a)
  BY <1>5, <1>6 DEF Running, Queue!TasksOf, Owner
<1>8. UNCHANGED <<Owner, Begun, OnRecord("completed"), OnRecord("failed")>>
  BY DEF RestartAgent, Owner, Begun, OnRecord
<1>9. Queue!Restart(a)
  BY <1>4, <1>7, <1>8 DEF Queue!Restart
<1> QED BY <1>9 DEF Queue!QueueNext

LEMMA QueueStep ==
  ASSUME IInv, IInv', [Next]_vars
  PROVE  Unseen \/ Queue!QueueNext
<1>0. /\ AgentTypeOK' /\ call \in [Slots -> Call] /\ DOMAIN call = Slots
      /\ Calls \subseteq Slots /\ Beats \subseteq Slots
  BY DEF IInv, AgentTypeOK, Slots
<1>1. UNCHANGED <<tasks, call, executing, begun>> => Unseen
  BY DEF Unseen, Queue!queueVars, Owner, Begun, Running, Reported, Reporting, OnRecord
<1>2. ASSUME NEW a \in Agents, NEW kind \in TaskKinds, ChooseAgent(a, kind) \/ InsertTask(a, kind)
      PROVE  Unseen \/ Queue!QueueNext
  BY <1>0, <1>1, <1>2, EnqueueSeen DEF ChooseAgent
<1>3. ASSUME NEW a \in Agents, Revoke(a) \/ FallSilent(a) PROVE Unseen
  BY <1>1, <1>3 DEF Revoke, FallSilent
<1>4. ASSUME ListAgents \/ UNCHANGED vars PROVE Unseen
  <2>1. UNCHANGED <<tasks, call, executing, begun>>
    BY <1>4 DEF ListAgents, vars
  <2> QED BY <1>1, <2>1
<1>5. ASSUME NEW a \in Agents, SendRegister(a) \/ SendHeartbeat(a) \/ SendPoll(a)
      PROVE  Unseen \/ Queue!QueueNext
  <2>1. PICK kind \in {"register", "heartbeat", "poll"}, S \in {Calls, Beats} :
          Open(S, NewCall(kind, a)) /\ UNCHANGED <<tasks, executing, begun>>
    BY <1>5 DEF SendRegister, SendHeartbeat, SendPoll
  <2>2. NewCall(kind, a) \in Call /\ NewCall(kind, a).kind # "result"
    BY NewCallType DEF NewCall, CallKinds
  <2>3. S \in SUBSET Slots
    BY <1>0
  <2> QED BY <1>0, <2>1, <2>2, <2>3, OpenSeen
<1>6. ASSUME NEW a \in Agents, NEW i \in executing[a], NEW ok \in BOOLEAN, SendResult(a, i, ok)
      PROVE  Queue!QueueNext
  BY <1>0, <1>6, ReportSeen
<1>7. ASSUME NEW c \in Slots, Authenticate(c) \/ GoOnline(c) \/ AnswerPoll(c) \/ Lose(c)
      PROVE  Unseen \/ Queue!QueueNext
  <2>1. /\ UNCHANGED <<tasks, begun, executing>>
        /\ \/ Close(c)
           \/ Goto(c, "handling") /\ call[c].pc = "sent"
           \/ Goto(c, "answered")
    BY <1>7 DEF Authenticate, GoOnline, AnswerPoll, Lose
  <2> QED BY <1>0, <2>1, CloseSeen, GotoSeen
<1>8. ASSUME NEW c \in Slots, SelectTasks(c) \/ MarkTask(c) \/ StoreResult(c) \/ Receive(c)
      PROVE  Unseen \/ Queue!QueueNext
  BY <1>0, <1>8, SelectSeen, MarkSeen, RecordSeen, ExecuteSeen
<1>9. ASSUME NEW c \in Slots, GiveUp(c) \/ Notice(c) PROVE Unseen \/ Queue!QueueNext
  <2>1. PICK client \in {"gone", "noticed"} : call' = [call EXCEPT ![c].client = client]
    BY <1>9 DEF GiveUp, Notice
  <2>2. /\ call'[c] = [call[c] EXCEPT !.client = client]
        /\ \A d \in Slots : d # c => call'[d] = call[d]
    BY <1>0, <2>1
  <2>3. c \in Reporting' => c \in Reporting /\ Shows(c)' = Shows(c)
    BY <1>0, <2>2 DEF Reporting, Shows, Call
  <2>4. UNCHANGED <<tasks, begun, executing>>
    BY <1>9 DEF GiveUp, Notice
  <2> QED BY <1>0, <2>2, <2>3, <2>4, CallsMove
<1>10. ASSUME NEW a \in Agents, RestartAgent(a) PROVE Queue!QueueNext
  BY <1>0, <1>10, RestartSeen
<1> QED
  BY <1>0, <1>2, <1>3, <1>4, <1>5, <1>6, <1>7, <1>8, <1>9, <1>10 DEF Next, Handle, Conclude

LEMMA QueueInitial == Init => Queue!QueueInit
<1> SUFFICES ASSUME Init PROVE Queue!QueueInit
  OBVIOUS
<1>1. tasks = <<>> /\ DOMAIN tasks = {}
  BY DEF Init
<1>2. Owner = <<>> /\ OnRecord("completed") = {} /\ OnRecord("failed") = {}
  BY <1>1 DEF Owner, OnRecord
<1>3. Begun = {} /\ Running = {}
  BY DEF Init, Begun, Running
<1>4. Reported = {}
  <2>1. \A c \in Slots : \E a \in Agents : call[c] = NoCall(a)
    BY DEF Init, Slots
  <2>2. \A c \in Slots : call[c].pc = "free"
    BY <2>1 DEF NoCall, NewCall
  <2>3. DOMAIN call = Slots
    BY DEF Init, Slots
  <2> QED BY <2>2, <2>3 DEF Reported, Reporting
<1> QED BY <1>2, <1>3, <1>4 DEF Queue!QueueInit

(***************************************************************************)
(* The controller and its agents implement the queue: whatever calls are   *)
(* lost, late or cut short, a result on record is the one that the task's  *)
(* only execution reported.                                                *)
(***************************************************************************)
THEOREM QueueImplemented == Spec => ImplementsQueue
<1>1. IInv /\ IInv' /\ [Next]_vars => [Queue!QueueNext]_(Queue!queueVars)
  BY QueueStep DEF Unseen
<1> QED
  BY <1>1, QueueInitial, Invariance, PTL DEF Spec, ImplementsQueue, Queue!QueueSpec
=============================================================================
