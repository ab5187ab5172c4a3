------------------------------ MODULE Registry ------------------------------
(***************************************************************************)
(* The registry of machines: rows of provider_panels, machines and agents, *)
(* and the handlers that read and write them (backend/internal/api:        *)
(* machines.go, agents.go, the provider part of api.go), each of which     *)
(* tells the dashboards when it is done (module Hub).                      *)
(*                                                                         *)
(* Handlers read, wait for a body or a network, and write later, without a *)
(* transaction over both.  What they may overwrite by then, and what keeps *)
(* rows from pointing nowhere, is the subject here.  A handler whose       *)
(* client is gone finds every further statement failing and returns, as    *)
(* does one whose process dies (Drop).                                     *)
(***************************************************************************)
EXTENDS Hub

CONSTANTS
  Machines,    \* ids, given by the panels
  Panels,      \* ids of provider_panels, never used twice
  Agents,      \* ids of agents, never used twice
  IPs, NoIP,   \* addresses, and the empty string
  MaxChanges,  \* bound of address changes
  MaxDrops     \* bound of clients that go

ASSUME RegistryConstants ==
  /\ NoIP \notin IPs /\ Machines # {} /\ Panels # {} /\ IPs # {}
  /\ MaxChanges \in Nat /\ MaxDrops \in Nat

VARIABLES
  panel,     \* rows of provider_panels
  machine,   \* rows of machines
  agent,     \* rows of agents
  actual,    \* the address each machine really has
  call,      \* local state of the handlers, by goroutine
  changes,   \* changes of address so far
  drops,     \* clients gone so far
  optedOut   \* history: machines opted out, and not asked in since

tables == <<panel, machine, agent>>
world == <<actual, changes>>
vars == <<conn, handler, clients, sending, removing, owed,
          panel, machine, agent, actual, call, changes, drops, optedOut>>

-----------------------------------------------------------------------------

Address == IPs \union {NoIP}

Machine == [exists : BOOLEAN, panel : Panels, ip : Address, auto : BOOLEAN]

NoMachine == [exists |-> FALSE, panel |-> CHOOSE p \in Panels : TRUE, ip |-> NoIP, auto |-> FALSE]

Agent == [row : {"unused", "live", "deleted"}, machine : Machines]

(* An answer of a panel, as far as it shows machines. *)
Listing == UNION {[shown -> Address] : shown \in SUBSET Machines}

(* A handler between two statements. *)
Call == [pc : {"free", "patch", "sync", "heartbeat", "token", "delete", "record",
               "broadcast", "send"},
         machine : Machines, panel : Panels, ip : Address,
         auto : BOOLEAN, asked : BOOLEAN, listing : Listing]

NoCall == [pc |-> "free", machine |-> CHOOSE m \in Machines : TRUE, panel |-> NoMachine.panel,
           ip |-> NoIP, auto |-> FALSE, asked |-> FALSE, listing |-> <<>>]

Begin(w, value) == call[w].pc = "free" /\ call' = [call EXCEPT ![w] = value]
Goto(w, pc) == call' = [call EXCEPT ![w] = [NoCall EXCEPT !.pc = pc]]
Return(w) == Goto(w, "free")

Init ==
  /\ HubInit
  /\ panel = [p \in Panels |-> "unused"]
  /\ machine = [m \in Machines |-> NoMachine]
  /\ agent = [a \in Agents |-> [row |-> "unused", machine |-> CHOOSE m \in Machines : TRUE]]
  /\ actual \in [Machines -> IPs]
  /\ call = [w \in Writers |-> NoCall]
  /\ changes = 0 /\ drops = 0 /\ optedOut = {}

-----------------------------------------------------------------------------
(* PATCH of a machine: SELECT the row; the body may leave the opt-in out.  *)

BeginPatch(w, m, asked, auto) ==
  /\ machine[m].exists
  /\ Begin(w, [NoCall EXCEPT !.pc = "patch", !.machine = m, !.asked = asked,
                             !.auto = IF asked THEN auto ELSE machine[m].auto])
  /\ optedOut' = IF asked /\ auto THEN optedOut \ {m} ELSE optedOut
  /\ UNCHANGED <<hubVars, tables, world, drops>>

(* Other edits of m that are about to write an opt-in, asked for or read before. *)
OptsIn(w, m) == call[w].pc = "patch" /\ call[w].machine = m /\ call[w].auto

(* ...UPDATE all editable columns. *)
WritePatch(w) ==
  LET m == call[w].machine IN
  /\ call[w].pc = "patch"
  /\ machine' = IF machine[m].exists THEN [machine EXCEPT ![m].auto = call[w].auto] ELSE machine
  /\ optedOut' = IF call[w].asked /\ ~call[w].auto /\ \A v \in Writers : ~OptsIn(v, m)
                 THEN optedOut \union {m} ELSE optedOut
  /\ Return(w)
  /\ UNCHANGED <<hubVars, panel, agent, world, drops>>

-----------------------------------------------------------------------------
(* syncProvider: the panel's list, in which a machine may be missing, and  *)
(* one that is there may be without an address...                          *)

ListMachines(w, p, shown, blank) ==
  /\ panel[p] = "live"
  /\ Begin(w, [NoCall EXCEPT !.pc = "sync", !.panel = p,
       !.listing = [m \in shown |-> IF m \in blank THEN NoIP ELSE actual[m]]])
  /\ UNCHANGED <<hubVars, tables, world, drops, optedOut>>

(* Mutant of Upsert: a machine is opted in when it is imported. *)
UpsertOptedIn(m, p, ip) ==
  [(IF machine[m].exists THEN machine[m] ELSE [NoMachine EXCEPT !.exists = TRUE, !.auto = TRUE])
     EXCEPT !.panel = p, !.ip = ip]

(* ON CONFLICT DO UPDATE keeps the opt-in; the default of a new row is off. *)
Upsert(m, p, ip) ==
  [(IF machine[m].exists THEN machine[m] ELSE [NoMachine EXCEPT !.exists = TRUE])
     EXCEPT !.panel = p, !.ip = ip]

(* ...then a transaction, which fails as a whole when the panel is gone. *)
CommitSync(w) ==
  LET p == call[w].panel
      listing == call[w].listing IN
  /\ call[w].pc = "sync"
  /\ IF panel[p] = "live" \/ DOMAIN listing = {}
     THEN /\ machine' = [m \in Machines |->
               IF m \in DOMAIN listing THEN Upsert(m, p, listing[m]) ELSE machine[m]]
          /\ Goto(w, "broadcast")
     ELSE Return(w) /\ UNCHANGED machine
  /\ UNCHANGED <<hubVars, panel, agent, world, drops, optedOut>>

-----------------------------------------------------------------------------
(* agentRegister and agentHeartbeat: what the agent has seen of its own    *)
(* address, if anything; then UPDATE machines.                             *)

Heartbeat(w, a, ip) ==
  /\ agent[a].row = "live" /\ ip \in {actual[agent[a].machine], NoIP}
  /\ Begin(w, [NoCall EXCEPT !.pc = "heartbeat", !.machine = agent[a].machine, !.ip = ip])
  /\ UNCHANGED <<hubVars, tables, world, drops, optedOut>>

(* Mutant of Coalesced: an empty address is one, too. *)
CoalescedEmpty(ip, old) == ip

(* COALESCE(NULLIF(?,''),public_ipv4) *)
Coalesced(ip, old) == IF ip = NoIP THEN old ELSE ip

StoreHeartbeat(w) ==
  LET m == call[w].machine IN
  /\ call[w].pc = "heartbeat"
  /\ machine' = IF machine[m].exists
                THEN [machine EXCEPT ![m].ip = Coalesced(call[w].ip, @)] ELSE machine
  /\ Goto(w, "broadcast")
  /\ UNCHANGED <<hubVars, panel, agent, world, drops, optedOut>>

(* rotate: the poll has seen the address, then UPDATE machines. *)
SeeAddress(w, m) ==
  /\ machine[m].exists
  /\ Begin(w, [NoCall EXCEPT !.pc = "record", !.machine = m, !.ip = actual[m]])
  /\ UNCHANGED <<hubVars, tables, world, drops, optedOut>>

RecordAddress(w) ==
  LET m == call[w].machine IN
  /\ call[w].pc = "record"
  /\ machine' = IF machine[m].exists THEN [machine EXCEPT ![m].ip = call[w].ip] ELSE machine
  /\ Goto(w, "broadcast")
  /\ UNCHANGED <<hubVars, panel, agent, world, drops, optedOut>>

-----------------------------------------------------------------------------
(* Rows that refer to others. *)

CreatePanel(p) ==
  /\ panel[p] = "unused"
  /\ panel' = [panel EXCEPT ![p] = "live"]
  /\ UNCHANGED <<hubVars, machine, agent, world, call, drops, optedOut>>

References(p) == {m \in Machines : machine[m].exists /\ machine[m].panel = p}

(* deleteProvider: COUNT the machines of the panel... *)
CountMachines(w, p) ==
  /\ panel[p] = "live" /\ References(p) = {}
  /\ Begin(w, [NoCall EXCEPT !.pc = "delete", !.panel = p])
  /\ UNCHANGED <<hubVars, tables, world, drops, optedOut>>

(* Mutant of DeletePanel: the database does not check foreign keys. *)
DeletePanelUnchecked(w) ==
  /\ call[w].pc = "delete"
  /\ panel' = [panel EXCEPT ![call[w].panel] = "deleted"]
  /\ Return(w)
  /\ UNCHANGED <<hubVars, machine, agent, world, drops, optedOut>>

(* ...then DELETE it, which the foreign key refuses if there are some by now. *)
DeletePanel(w) ==
  LET p == call[w].panel IN
  /\ call[w].pc = "delete"
  /\ panel' = IF References(p) = {} THEN [panel EXCEPT ![p] = "deleted"] ELSE panel
  /\ Return(w)
  /\ UNCHANGED <<hubVars, machine, agent, world, drops, optedOut>>

(* Mutant of NewMachine: the column is NULL. *)
NewMachineNull(p, auto) == [exists |-> TRUE, panel |-> p, ip |-> "null", auto |-> auto]

NewMachine(p, auto) == [exists |-> TRUE, panel |-> p, ip |-> NoIP, auto |-> auto]

CreateMachine(m, p, auto) ==
  /\ ~machine[m].exists /\ panel[p] = "live"
  /\ machine' = [machine EXCEPT ![m] = NewMachine(p, auto)]
  /\ optedOut' = IF auto THEN optedOut \ {m} ELSE optedOut
  /\ UNCHANGED <<hubVars, panel, agent, world, call, drops>>

(* The agents of a machine go with it. *)
DeleteMachine(m) ==
  /\ machine[m].exists
  /\ machine' = [machine EXCEPT ![m] = NoMachine]
  /\ agent' = [a \in Agents |-> IF agent[a].row = "live" /\ agent[a].machine = m
                                THEN [agent[a] EXCEPT !.row = "deleted"] ELSE agent[a]]
  /\ UNCHANGED <<hubVars, panel, world, call, drops, optedOut>>

(* generateAgentToken: the machine is there (and Agents has an id left)... *)
CountMachine(w, m) ==
  /\ machine[m].exists
  /\ Cardinality({a \in Agents : agent[a].row = "unused"})
       > Cardinality({v \in Writers : call[v].pc = "token"})
  /\ Begin(w, [NoCall EXCEPT !.pc = "token", !.machine = m])
  /\ UNCHANGED <<hubVars, tables, world, drops, optedOut>>

(* ...and must be when the agent is inserted. *)
InsertAgent(w, a) ==
  LET m == call[w].machine IN
  /\ call[w].pc = "token" /\ agent[a].row = "unused"
  /\ agent' = IF machine[m].exists
              THEN [agent EXCEPT ![a] = [row |-> "live", machine |-> m]] ELSE agent
  /\ Return(w)
  /\ UNCHANGED <<hubVars, panel, machine, world, drops, optedOut>>

-----------------------------------------------------------------------------

(* Hub.Broadcast, in the goroutine of the handler. *)
BeginBroadcast(w) ==
  /\ call[w].pc = "broadcast"
  /\ Snapshot(w)
  /\ Goto(w, "send")
  /\ UNCHANGED <<tables, world, drops, optedOut>>

SendFailed(w) ==
  /\ call[w].pc = "send"
  /\ \E s \in Sockets : WriteFailed(w, s) \/ RemoveFailed(w, s)
  /\ UNCHANGED <<tables, world, call, drops, optedOut>>

(* How long that takes is up to the peer; the deadline ends it. *)
Sent(w) ==
  /\ call[w].pc = "send"
  /\ \E s \in Sockets : Delivered(w, s) \/ Swallowed(w, s)
  /\ UNCHANGED <<tables, world, call, drops, optedOut>>

Answer(w) ==
  /\ call[w].pc = "send" /\ sending[w] = {} /\ removing[w] = {}
  /\ Return(w)
  /\ UNCHANGED <<hubVars, tables, world, drops, optedOut>>

(* The client is gone: the next statement fails.  Broadcasts have no context. *)
Drop(w) ==
  /\ call[w].pc \notin {"free", "broadcast", "send"}
  /\ drops < MaxDrops /\ drops' = drops + 1
  /\ Return(w)
  /\ UNCHANGED <<hubVars, tables, world, optedOut>>

(* A machine gets another address, by a rotation or by itself. *)
ChangeAddress(m, ip) ==
  /\ ip # actual[m] /\ changes < MaxChanges
  /\ actual' = [actual EXCEPT ![m] = ip]
  /\ changes' = changes + 1
  /\ UNCHANGED <<hubVars, tables, call, drops, optedOut>>

(* A handler goes on by itself. *)
CallStep(w) ==
  \/ WritePatch(w) \/ CommitSync(w) \/ StoreHeartbeat(w) \/ RecordAddress(w)
  \/ DeletePanel(w) \/ BeginBroadcast(w) \/ SendFailed(w) \/ Answer(w)
  \/ \E a \in Agents : InsertAgent(w, a)

(* A request comes in. *)
BeginCall(w) ==
  \/ \E m \in Machines :
       \/ \E asked, auto \in BOOLEAN : BeginPatch(w, m, asked, auto)
       \/ SeeAddress(w, m)
       \/ CountMachine(w, m)
  \/ \E p \in Panels :
       \/ \E shown \in SUBSET Machines : \E blank \in SUBSET shown : ListMachines(w, p, shown, blank)
       \/ CountMachines(w, p)
  \/ \E a \in Agents, ip \in Address : Heartbeat(w, a, ip)

Next ==
  \/ \E w \in Writers : CallStep(w) \/ Sent(w) \/ BeginCall(w) \/ Drop(w)
  \/ \E p \in Panels : CreatePanel(p)
  \/ \E m \in Machines :
       \/ \E p \in Panels, auto \in BOOLEAN : CreateMachine(m, p, auto)
       \/ DeleteMachine(m)
       \/ \E ip \in IPs : ChangeAddress(m, ip)
  \/ HubNext /\ UNCHANGED <<tables, world, call, drops, optedOut>>

Spec == Init /\ [][Next]_vars

(* The database answers, and every write to a client ends within its deadline. *)
Fairness ==
  /\ \A w \in Writers : WF_vars(CallStep(w))
  /\ \A s \in Sockets :
       WF_vars(HandlerStep(s) /\ UNCHANGED <<tables, world, call, drops, optedOut>>)

FairSpec == Spec /\ Fairness

-----------------------------------------------------------------------------

RegistryTypeOK ==
  /\ HubTypeOK
  /\ panel \in [Panels -> {"unused", "live", "deleted"}]
  /\ machine \in [Machines -> Machine]
  /\ agent \in [Agents -> Agent]
  /\ actual \in [Machines -> IPs]
  /\ call \in [Writers -> Call]
  /\ changes \in Nat /\ drops \in Nat
  /\ optedOut \subseteq Machines

(***************************************************************************)
(* No machine is left without its panel, and no agent without its machine: *)
(* the panel's machines are counted in one statement and the panel is      *)
(* deleted in another, a token is for a machine that was there a statement *)
(* ago, and a sync inserts machines of a panel it read before a request to *)
(* the network (api.go:449-457, 508-535, machines.go:123-138).             *)
(***************************************************************************)
NoOrphans ==
  /\ \A m \in Machines : machine[m].exists => panel[machine[m].panel] = "live"
  /\ \A a \in Agents : agent[a].row = "live" => machine[agent[a].machine].exists

(***************************************************************************)
(* A machine opted out of automatic rotation stays out until somebody asks *)
(* for it, through edits of other columns, syncs, deletion and import.     *)
(* The exception the code leaves (machines.go:81): an edit that read the   *)
(* row before the opt-out was written puts the opt-in back.                *)
(***************************************************************************)
OptOutStays == \A m \in optedOut : machine[m].exists => ~machine[m].auto

(* Every request is answered, whatever the dashboards it tells are like. *)
RequestsAreAnswered == \A w \in Writers : []<>(call[w].pc = "free")

Reporting(m) ==
  \E w \in Writers : call[w].pc = "heartbeat" /\ call[w].machine = m /\ call[w].ip # NoIP

ListedBlank(m) ==
  \E w \in Writers : /\ call[w].pc = "sync" /\ m \in DOMAIN call[w].listing
                     /\ call[w].listing[m] = NoIP

(***************************************************************************)
(* The address of a machine becomes and stays what it really is, however   *)
(* syncs, heartbeats and rotations that saw an older one overwrite each    *)
(* other: if its agent goes on reporting, the machine is not deleted, and  *)
(* the panel comes to show its address.                                    *)
(***************************************************************************)
AddressConverges ==
  \A m \in Machines :
    /\ <>[]machine[m].exists
    /\ []<>Reporting(m)
    /\ <>[]~ListedBlank(m)
    => <>[](machine[m].ip = actual[m])

=============================================================================
