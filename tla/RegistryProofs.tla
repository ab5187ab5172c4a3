--------------------------- MODULE RegistryProofs ---------------------------
(* Theorems about Hub and Registry, for any number of machines, panels,      *)
(* agents, handlers and connections.                                         *)
EXTENDS Registry, FiniteSetTheorems, TLAPS

-----------------------------------------------------------------------------
(* The hub: what is owed to an open connection is on its way to it.        *)

(* The broadcasts that have still to write to s. *)
Owing(s) == {w \in Writers : s \in sending[w]}

(* Also a client that is about to be removed is owed what is on its way. *)
OwedCovers == \A s \in Sockets : conn[s] = "open" => owed[s] >= Cardinality(Owing(s))

HubInv == HubTypeOK /\ NothingMissed /\ ClientsAreHandled /\ OwedCovers

LEMMA WritersCounted ==
  ASSUME NEW S \in SUBSET Writers
  PROVE  IsFiniteSet(S) /\ Cardinality(S) \in Nat
  BY FiniteWriters, FS_Subset, FS_CardinalityType

LEMMA OneWriterMore ==
  ASSUME NEW S \in SUBSET Writers, NEW w \in Writers, w \notin S
  PROVE  Cardinality(S \union {w}) = Cardinality(S) + 1
  BY WritersCounted, FS_AddElement

LEMMA OneWriterLess ==
  ASSUME NEW S \in SUBSET Writers, NEW w \in S
  PROVE  Cardinality(S \ {w}) = Cardinality(S) - 1 /\ Cardinality(S) \in Nat \ {0}
<1>1. /\ Cardinality(S \ {w}) \in Nat /\ Cardinality(S) \in Nat
  BY WritersCounted
<1>2. S = (S \ {w}) \union {w} /\ w \notin S \ {w}
  OBVIOUS
<1>3. Cardinality(S) = Cardinality(S \ {w}) + 1
  BY <1>2, OneWriterMore
<1> QED BY <1>1, <1>3

LEMMA SnapshotKeeps ==
  ASSUME HubInv, NEW w \in Writers, sending[w] = {}, Snapshot(w)
  PROVE  HubInv'
<1>1. HubTypeOK'
  BY DEF HubInv, HubTypeOK, Snapshot
<1>2. ASSUME NEW s \in Sockets, conn[s] = "open"
      PROVE  \/ /\ owed'[s] = owed[s] + 1
                /\ Cardinality(Owing(s)') = Cardinality(Owing(s)) + 1
             \/ owed'[s] = owed[s] /\ Owing(s)' = Owing(s)
  <2>1. w \notin Owing(s) /\ Owing(s) \in SUBSET Writers
    BY DEF Owing
  <2>2. CASE s \in clients
    <3>1. Owing(s)' = Owing(s) \union {w}
      BY <2>2 DEF HubInv, HubTypeOK, Snapshot, Owing
    <3>2. owed'[s] = owed[s] + 1
      BY <1>2, <2>2 DEF Snapshot
    <3> QED BY <2>1, <3>1, <3>2, OneWriterMore
  <2>3. CASE s \notin clients
    <3>1. Owing(s)' = Owing(s)
      BY <2>3, <2>1 DEF HubInv, HubTypeOK, Snapshot, Owing
    <3>2. owed'[s] = owed[s]
      BY <2>3 DEF Snapshot
    <3> QED BY <3>1, <3>2
  <2> QED BY <2>2, <2>3
<1>3. \A s \in Sockets : owed[s] \in Nat /\ Cardinality(Owing(s)) \in Nat
  BY WritersCounted DEF HubInv, HubTypeOK, Owing
<1>4. NothingMissed'
  <2> SUFFICES ASSUME NEW s \in Sockets, conn'[s] = "open",
                      \A v \in Writers : s \notin removing'[v]
               PROVE  owed'[s] = Cardinality(Owing(s)')
    BY DEF NothingMissed, Owing
  <2>1. conn[s] = "open" /\ owed[s] = Cardinality(Owing(s))
    BY DEF HubInv, NothingMissed, Owing, Snapshot
  <2> QED BY <1>2, <2>1
<1>5. OwedCovers'
  <2> SUFFICES ASSUME NEW s \in Sockets, conn'[s] = "open"
               PROVE  owed'[s] >= Cardinality(Owing(s)')
    BY DEF OwedCovers
  <2>1. conn[s] = "open" /\ owed[s] >= Cardinality(Owing(s))
    BY DEF HubInv, OwedCovers, Snapshot
  <2> QED BY <1>2, <1>3, <2>1
<1>6. ClientsAreHandled'
  BY DEF HubInv, ClientsAreHandled, Snapshot
<1> QED BY <1>1, <1>4, <1>5, <1>6 DEF HubInv

(* A write ends: s loses a broadcast it was owed, or is to be removed. *)
Written(w, s) == Delivered(w, s) \/ Swallowed(w, s) \/ WriteFailed(w, s)

LEMMA WriteKeeps ==
  ASSUME HubInv, NEW w \in Writers, NEW s \in Sockets, Written(w, s)
  PROVE  HubInv'
<1> USE DEF Written
<1>0. /\ w \in Owing(s) /\ Owing(s) \in SUBSET Writers
      /\ removing[w] = {}
      /\ sending' = [sending EXCEPT ![w] = @ \ {s}]
  BY DEF Delivered, Swallowed, WriteFailed, WriteTo, Owing
<1>1. /\ Owing(s)' = Owing(s) \ {w}
      /\ \A t \in Sockets \ {s} : Owing(t)' = Owing(t)
  BY <1>0 DEF HubInv, HubTypeOK, Owing
<1>2. Cardinality(Owing(s)') = Cardinality(Owing(s)) - 1 /\ Cardinality(Owing(s)) \in Nat \ {0}
  BY <1>0, <1>1, OneWriterLess
<1>3. /\ UNCHANGED conn
      /\ \A t \in Sockets : owed[t] \in Nat /\ Cardinality(Owing(t)) \in Nat
      /\ \A t \in Sockets : conn[t] = "open" => owed[t] >= Cardinality(Owing(t))
  BY WritersCounted
  DEF HubInv, HubTypeOK, OwedCovers, Owing, Delivered, Swallowed, WriteFailed
<1>4. HubTypeOK' /\ ClientsAreHandled'
  <2>1. CASE Delivered(w, s)
    <3>1. owed[s] - 1 \in Nat
      BY <1>2, <1>3, <2>1 DEF Delivered
    <3> QED BY <1>0, <2>1, <3>1 DEF HubInv, HubTypeOK, ClientsAreHandled, Delivered
  <2>2. CASE Swallowed(w, s)
    BY <1>0, <2>2 DEF HubInv, HubTypeOK, ClientsAreHandled, Swallowed
  <2>3. CASE WriteFailed(w, s)
    BY <1>0, <2>3 DEF HubInv, HubTypeOK, ClientsAreHandled, WriteFailed
  <2> QED BY <2>1, <2>2, <2>3
<1>5. ASSUME NEW t \in Sockets, conn[t] = "open"
      PROVE  \/ t # s /\ owed'[t] = owed[t]
             \/ t = s /\ Delivered(w, s) /\ owed'[t] = owed[t] - 1
             \/ t = s /\ WriteFailed(w, s) /\ owed'[t] = owed[t]
  BY <1>5 DEF HubInv, HubTypeOK, Delivered, Swallowed, WriteFailed
<1>6. NothingMissed'
  <2> SUFFICES ASSUME NEW t \in Sockets, conn'[t] = "open",
                      \A v \in Writers : t \notin removing'[v]
               PROVE  owed'[t] = Cardinality(Owing(t)')
    BY DEF NothingMissed, Owing
  <2>1. removing' = removing \/ removing' = [removing EXCEPT ![w] = {s}]
    BY DEF Delivered, Swallowed, WriteFailed
  <2>2. \A v \in Writers : t \notin removing[v]
    BY <1>0, <2>1 DEF HubInv, HubTypeOK
  <2>3. conn[t] = "open" /\ owed[t] = Cardinality(Owing(t))
    BY <1>3, <2>2 DEF HubInv, NothingMissed, Owing
  <2>4. t = s => ~WriteFailed(w, s)
    BY DEF WriteFailed, HubInv, HubTypeOK
  <2> QED BY <1>1, <1>2, <1>5, <2>3, <2>4
<1>7. OwedCovers'
  <2> SUFFICES ASSUME NEW t \in Sockets, conn'[t] = "open"
               PROVE  owed'[t] >= Cardinality(Owing(t)')
    BY DEF OwedCovers
  <2>1. conn[t] = "open" /\ owed[t] \in Nat /\ Cardinality(Owing(t)) \in Nat
        /\ owed[t] >= Cardinality(Owing(t))
    BY <1>3
  <2>2. CASE t # s
    BY <1>1, <1>5, <2>1, <2>2
  <2>3. CASE t = s
    <3>1. owed'[t] = owed[t] - 1 \/ owed'[t] = owed[t]
      BY <1>5, <2>1
    <3>2. Cardinality(Owing(t)') = Cardinality(Owing(t)) - 1
      BY <1>2, <2>3
    <3> QED BY <2>1, <3>1, <3>2
  <2> QED BY <2>2, <2>3
<1> QED BY <1>4, <1>6, <1>7 DEF HubInv

(* What leaves alone what is being sent, and opens no connection but an unsent one. *)
LEMMA UnsentKeeps ==
  ASSUME HubInv, HubTypeOK', ClientsAreHandled', UNCHANGED sending,
         \A t \in Sockets : conn'[t] = "open" =>
           \/ owed'[t] = 0 /\ Owing(t) = {}
           \/ /\ conn[t] = "open" /\ owed'[t] = owed[t]
              /\ \A v \in Writers : t \in removing[v] => t \in removing'[v]
  PROVE  HubInv'
<1>1. \A t \in Sockets : Owing(t)' = Owing(t)
  BY DEF Owing
<1>2. NothingMissed'
  <2> SUFFICES ASSUME NEW t \in Sockets, conn'[t] = "open",
                      \A v \in Writers : t \notin removing'[v]
               PROVE  owed'[t] = Cardinality(Owing(t)')
    BY DEF NothingMissed, Owing
  <2>1. CASE owed'[t] = 0 /\ Owing(t) = {}
    BY <1>1, <2>1, FS_EmptySet
  <2>2. CASE /\ conn[t] = "open" /\ owed'[t] = owed[t]
             /\ \A v \in Writers : t \in removing[v] => t \in removing'[v]
    BY <1>1, <2>2 DEF HubInv, NothingMissed, Owing
  <2> QED BY <2>1, <2>2
<1>3. OwedCovers'
  <2> SUFFICES ASSUME NEW t \in Sockets, conn'[t] = "open"
               PROVE  owed'[t] >= Cardinality(Owing(t)')
    BY DEF OwedCovers
  <2>1. CASE owed'[t] = 0 /\ Owing(t) = {}
    BY <1>1, <2>1, FS_EmptySet
  <2>2. CASE conn[t] = "open" /\ owed'[t] = owed[t]
    BY <1>1, <2>2 DEF HubInv, OwedCovers
  <2> QED BY <2>1, <2>2
<1> QED BY <1>2, <1>3 DEF HubInv

LEMMA RemovalKeeps ==
  ASSUME HubInv, NEW w \in Writers, NEW s \in Sockets, RemoveFailed(w, s)
  PROVE  HubInv' /\ UNCHANGED sending
<1>1. UNCHANGED <<sending, handler>>
  BY DEF RemoveFailed
<1>2. HubTypeOK' /\ ClientsAreHandled'
  BY <1>1 DEF HubInv, HubTypeOK, ClientsAreHandled, RemoveFailed, Delete, Close
<1>3. ASSUME NEW t \in Sockets, conn'[t] = "open"
      PROVE  /\ conn[t] = "open" /\ owed'[t] = owed[t]
             /\ \A v \in Writers : t \in removing[v] => t \in removing'[v]
  <2>1. CASE Delete(s) /\ UNCHANGED removing
    BY <1>3, <2>1 DEF Delete
  <2>2. CASE Close(s) /\ removing' = [removing EXCEPT ![w] = @ \ {s}]
    BY <1>3, <2>2 DEF Close, HubInv, HubTypeOK
  <2> QED BY <2>1, <2>2 DEF RemoveFailed
<1> QED BY <1>1, <1>2, <1>3, UnsentKeeps

LEMMA ConnectionKeeps ==
  ASSUME HubInv, HubNext
  PROVE  HubInv'
<1> SUFFICES ASSUME NEW s \in Sockets,
                    Accept(s) \/ Add(s) \/ Leave(s) \/ ReadError(s) \/ RemoveDeferred(s)
             PROVE  HubInv'
  BY DEF HubNext
<1>1. UNCHANGED <<sending, removing>>
  BY DEF Accept, Add, Leave, ReadError, RemoveDeferred
<1>2. HubTypeOK' /\ ClientsAreHandled'
  BY DEF HubInv, HubTypeOK, ClientsAreHandled,
         Accept, Add, Leave, ReadError, RemoveDeferred, Delete, Close
<1>3. ASSUME NEW t \in Sockets, conn'[t] = "open"
      PROVE  \/ owed'[t] = 0 /\ Owing(t) = {}
             \/ conn[t] = "open" /\ owed'[t] = owed[t]
  <2>1. CASE Accept(s) /\ t = s
    BY <2>1 DEF HubInv, HubTypeOK, Accept, Held, Owing
  <2>2. CASE ~(Accept(s) /\ t = s)
    BY <1>3, <2>2
    DEF HubInv, HubTypeOK, Accept, Add, Leave, ReadError, RemoveDeferred, Delete, Close
  <2> QED BY <2>1, <2>2
<1> QED BY <1>1, <1>2, <1>3, UnsentKeeps

-----------------------------------------------------------------------------
(* The handlers: whatever they do to the hub is one of its operations.     *)

(* A handler owes nothing to anyone until it broadcasts. *)
SilentUntilSend == \A w \in Writers : call[w].pc # "send" => sending[w] = {}

(* Statements and requests that leave the hub alone, and the steps that do not. *)
TableStep(w) ==
  \/ WritePatch(w) \/ CommitSync(w) \/ StoreHeartbeat(w) \/ RecordAddress(w) \/ DeletePanel(w)
  \/ \E a \in Agents : InsertAgent(w, a)
  \/ BeginCall(w) \/ Drop(w)

Elsewhere ==
  \/ \E p \in Panels : CreatePanel(p)
  \/ \E m \in Machines :
       \/ \E p \in Panels, auto \in BOOLEAN : CreateMachine(m, p, auto)
       \/ DeleteMachine(m)
       \/ \E ip \in IPs : ChangeAddress(m, ip)

LEMMA NextCases ==
  ASSUME [Next]_vars
  PROVE  \/ \E w \in Writers : TableStep(w)
         \/ \E w \in Writers : BeginBroadcast(w) \/ SendFailed(w) \/ Sent(w) \/ Answer(w)
         \/ Elsewhere
         \/ HubNext /\ UNCHANGED <<tables, world, call, drops, optedOut>>
         \/ UNCHANGED vars
  BY DEF Next, CallStep, TableStep, Elsewhere

LEMMA TableStepLeavesHub ==
  ASSUME NEW w \in Writers, TableStep(w)
  PROVE  /\ UNCHANGED hubVars
         /\ \E value : call' = [call EXCEPT ![w] = value]
         /\ call[w].pc \notin {"send"}
<1>1. CASE WritePatch(w)
  BY <1>1 DEF WritePatch, Return, Goto
<1>2. CASE CommitSync(w)
  BY <1>2 DEF CommitSync, Return, Goto
<1>3. CASE StoreHeartbeat(w)
  BY <1>3 DEF StoreHeartbeat, Goto
<1>4. CASE RecordAddress(w)
  BY <1>4 DEF RecordAddress, Goto
<1>5. CASE DeletePanel(w)
  BY <1>5 DEF DeletePanel, Return, Goto
<1>6. ASSUME NEW a \in Agents, InsertAgent(w, a)
      PROVE  /\ UNCHANGED hubVars
             /\ \E value : call' = [call EXCEPT ![w] = value]
             /\ call[w].pc \notin {"send"}
  BY <1>6 DEF InsertAgent, Return, Goto
<1>7. CASE BeginCall(w)
  <2>1. UNCHANGED hubVars /\ \E value : Begin(w, value)
    <3>1. CASE \E m \in Machines : \E asked, auto \in BOOLEAN : BeginPatch(w, m, asked, auto)
      BY <3>1 DEF BeginPatch
    <3>2. CASE \E m \in Machines : SeeAddress(w, m)
      BY <3>2 DEF SeeAddress
    <3>3. CASE \E m \in Machines : CountMachine(w, m)
      BY <3>3 DEF CountMachine
    <3>4. CASE \E p \in Panels, shown \in SUBSET Machines :
                 \E blank \in SUBSET shown : ListMachines(w, p, shown, blank)
      BY <3>4 DEF ListMachines
    <3>5. CASE \E p \in Panels : CountMachines(w, p)
      BY <3>5 DEF CountMachines
    <3>6. CASE \E a \in Agents, ip \in Address : Heartbeat(w, a, ip)
      BY <3>6 DEF Heartbeat
    <3> QED BY <1>7, <3>1, <3>2, <3>3, <3>4, <3>5, <3>6 DEF BeginCall
  <2> QED BY <2>1 DEF Begin
<1>8. CASE Drop(w)
  BY <1>8 DEF Drop, Return, Goto
<1> QED BY <1>1, <1>2, <1>3, <1>4, <1>5, <1>6, <1>7, <1>8 DEF TableStep

HubOfRegistryInv == HubInv /\ SilentUntilSend

LEMMA HubOfRegistryStep ==
  ASSUME HubOfRegistryInv, [Next]_vars, call \in [Writers -> Call]
  PROVE  HubOfRegistryInv'
<1> USE DEF HubOfRegistryInv
<1>1. ASSUME UNCHANGED hubVars PROVE HubInv'
  BY <1>1 DEF HubInv, HubTypeOK, NothingMissed, ClientsAreHandled, OwedCovers, Owing, hubVars
<1>2. ASSUME NEW w \in Writers, TableStep(w) PROVE HubOfRegistryInv'
  <2>1. UNCHANGED hubVars /\ call[w].pc # "send"
    BY <1>2, TableStepLeavesHub
  <2>2. PICK value : call' = [call EXCEPT ![w] = value]
    BY <1>2, TableStepLeavesHub
  <2>3. SilentUntilSend'
    BY <2>1, <2>2 DEF SilentUntilSend, hubVars
  <2> QED BY <1>1, <2>1, <2>3
<1>3. ASSUME NEW w \in Writers, BeginBroadcast(w) PROVE HubOfRegistryInv'
  <2>1. sending[w] = {} /\ Snapshot(w) /\ call'[w].pc = "send"
    BY <1>3 DEF BeginBroadcast, Goto, SilentUntilSend
  <2>2. HubInv'
    BY <2>1, SnapshotKeeps
  <2>3. SilentUntilSend'
    BY <1>3, <2>1 DEF SilentUntilSend, BeginBroadcast, Goto, Snapshot, HubInv, HubTypeOK
  <2> QED BY <2>2, <2>3
<1>4. ASSUME NEW w \in Writers, NEW s \in Sockets, call[w].pc = "send",
             Written(w, s), UNCHANGED call
      PROVE  HubOfRegistryInv'
  <2>1. HubInv'
    BY <1>4, WriteKeeps
  <2>2. SilentUntilSend'
    BY <1>4 DEF SilentUntilSend, Written, Delivered, Swallowed, WriteFailed, WriteTo,
                HubInv, HubTypeOK
  <2> QED BY <2>1, <2>2
<1>5. ASSUME NEW w \in Writers, SendFailed(w) \/ Sent(w) PROVE HubOfRegistryInv'
  <2>1. PICK s \in Sockets :
          call[w].pc = "send" /\ (Written(w, s) \/ RemoveFailed(w, s)) /\ UNCHANGED call
    BY <1>5 DEF SendFailed, Sent, Written
  <2>2. CASE RemoveFailed(w, s)
    BY <2>1, <2>2, RemovalKeeps DEF SilentUntilSend
  <2> QED BY <1>4, <2>1, <2>2
<1>6. ASSUME NEW w \in Writers, Answer(w) PROVE HubOfRegistryInv'
  <2>1. UNCHANGED hubVars
    BY <1>6 DEF Answer
  <2>2. SilentUntilSend'
    BY <1>6 DEF Answer, Return, Goto, SilentUntilSend, hubVars
  <2> QED BY <1>1, <2>1, <2>2
<1>7. ASSUME UNCHANGED hubVars, UNCHANGED call PROVE HubOfRegistryInv'
  BY <1>1, <1>7 DEF SilentUntilSend, hubVars
<1>8. CASE Elsewhere
  BY <1>7, <1>8 DEF Elsewhere, CreatePanel, CreateMachine, DeleteMachine, ChangeAddress
<1>9. CASE HubNext /\ UNCHANGED <<tables, world, call, drops, optedOut>>
  <2>1. UNCHANGED sending
    BY <1>9 DEF HubNext, Accept, Add, Leave, ReadError, RemoveDeferred
  <2>2. SilentUntilSend'
    BY <1>9, <2>1 DEF SilentUntilSend
  <2> QED BY <1>9, <2>2, ConnectionKeeps
<1>10. CASE UNCHANGED vars
  BY <1>7, <1>10 DEF vars, hubVars
<1> QED BY NextCases, <1>2, <1>3, <1>5, <1>6, <1>8, <1>9, <1>10

-----------------------------------------------------------------------------
(* Types.                                                                  *)

TablesOK ==
  /\ panel \in [Panels -> {"unused", "live", "deleted"}]
  /\ machine \in [Machines -> Machine]
  /\ agent \in [Agents -> Agent]
  /\ actual \in [Machines -> IPs]
  /\ call \in [Writers -> Call]
  /\ changes \in Nat /\ drops \in Nat
  /\ optedOut \subseteq Machines

LEMMA Values ==
  /\ NoMachine \in Machine /\ NoCall \in Call
  /\ \A p \in Panels, auto \in BOOLEAN : NewMachine(p, auto) \in Machine
  /\ \A pc \in {"free", "broadcast", "send"} : [NoCall EXCEPT !.pc = pc] \in Call
<1>1. NoMachine \in Machine
  BY RegistryConstants DEF NoMachine, Machine, Address
<1>2. <<>> \in Listing
  <2>1. <<>> \in [{} -> Address]
    OBVIOUS
  <2> QED BY <2>1 DEF Listing
<1>3. NoCall \in Call
  BY <1>1, <1>2, RegistryConstants DEF NoCall, Call, NoMachine, Machine, Address
<1>4. \A p \in Panels, auto \in BOOLEAN : NewMachine(p, auto) \in Machine
  BY DEF NewMachine, Machine, Address
<1>5. \A pc \in {"free", "broadcast", "send"} : [NoCall EXCEPT !.pc = pc] \in Call
  BY <1>3 DEF Call
<1> QED BY <1>1, <1>3, <1>4, <1>5

LEMMA GotoType ==
  ASSUME call \in [Writers -> Call], NEW w \in Writers,
         \/ Return(w)
         \/ Goto(w, "broadcast") \/ Goto(w, "send")
  PROVE  call' \in [Writers -> Call]
  BY Values DEF Return, Goto

LEMMA UpsertType ==
  ASSUME machine \in [Machines -> Machine],
         NEW m \in Machines, NEW p \in Panels, NEW ip \in Address
  PROVE  Upsert(m, p, ip) \in Machine
  BY Values DEF Upsert, Machine, NoMachine

LEMMA BeginType ==
  ASSUME TablesOK, NEW w \in Writers, BeginCall(w)
  PROVE  TablesOK'
<1> USE DEF TablesOK, Begin
<1>1. ASSUME NEW m \in Machines, NEW asked \in BOOLEAN, NEW auto \in BOOLEAN,
             BeginPatch(w, m, asked, auto)
      PROVE  TablesOK'
  <2>1. machine[m].auto \in BOOLEAN
    BY DEF Machine
  <2>2. [NoCall EXCEPT !.pc = "patch", !.machine = m, !.asked = asked,
                       !.auto = IF asked THEN auto ELSE machine[m].auto] \in Call
    BY <2>1, Values DEF Call
  <2> QED BY <1>1, <2>2 DEF BeginPatch, hubVars, tables, world
<1>2. ASSUME NEW m \in Machines, SeeAddress(w, m) PROVE TablesOK'
  <2>1. [NoCall EXCEPT !.pc = "record", !.machine = m, !.ip = actual[m]] \in Call
    BY Values DEF Call, Address
  <2> QED BY <1>2, <2>1 DEF SeeAddress, tables, world
<1>3. ASSUME NEW m \in Machines, CountMachine(w, m) PROVE TablesOK'
  <2>1. [NoCall EXCEPT !.pc = "token", !.machine = m] \in Call
    BY Values DEF Call
  <2> QED BY <1>3, <2>1 DEF CountMachine, tables, world
<1>4. ASSUME NEW p \in Panels, NEW shown \in SUBSET Machines, NEW blank \in SUBSET shown,
             ListMachines(w, p, shown, blank)
      PROVE  TablesOK'
  <2> DEFINE listing == [m \in shown |-> IF m \in blank THEN NoIP ELSE actual[m]]
  <2>1. listing \in [shown -> Address]
    BY DEF Address
  <2>2. listing \in Listing
    BY <2>1 DEF Listing
  <2>3. [NoCall EXCEPT !.pc = "sync", !.panel = p, !.listing = listing] \in Call
    <3> HIDE DEF listing
    <3> QED BY <2>2, Values DEF Call
  <2> QED BY <1>4, <2>3 DEF ListMachines, tables, world
<1>5. ASSUME NEW p \in Panels, CountMachines(w, p) PROVE TablesOK'
  <2>1. [NoCall EXCEPT !.pc = "delete", !.panel = p] \in Call
    BY Values DEF Call
  <2> QED BY <1>5, <2>1 DEF CountMachines, tables, world
<1>6. ASSUME NEW a \in Agents, NEW ip \in Address, Heartbeat(w, a, ip) PROVE TablesOK'
  <2>1. agent[a].machine \in Machines
    BY DEF Agent
  <2>2. [NoCall EXCEPT !.pc = "heartbeat", !.machine = agent[a].machine, !.ip = ip] \in Call
    BY <2>1, Values DEF Call
  <2> QED BY <1>6, <2>2 DEF Heartbeat, tables, world
<1> QED BY <1>1, <1>2, <1>3, <1>4, <1>5, <1>6 DEF BeginCall

LEMMA TablesStep ==
  ASSUME TablesOK, [Next]_vars
  PROVE  TablesOK'
<1> USE DEF TablesOK
<1>1. ASSUME NEW w \in Writers, TableStep(w) PROVE TablesOK'
  <2>0. /\ call[w] \in Call
        /\ call[w].machine \in Machines /\ call[w].panel \in Panels
        /\ call[w].ip \in Address /\ call[w].auto \in BOOLEAN
    <3>1. call[w] \in Call
      OBVIOUS
    <3> QED BY <3>1 DEF Call
  <2>1. CASE WritePatch(w)
    <3>1. machine' \in [Machines -> Machine]
      BY <2>0, <2>1 DEF WritePatch, Machine
    <3> QED BY <2>0, <2>1, <3>1, GotoType DEF WritePatch, world
  <2>2. CASE CommitSync(w)
    <3>1. \A m \in DOMAIN call[w].listing : call[w].listing[m] \in Address
      BY <2>0 DEF Call, Listing
    <3>2. machine' \in [Machines -> Machine]
      <4>1. CASE machine' = [m \in Machines |-> IF m \in DOMAIN call[w].listing
                               THEN Upsert(m, call[w].panel, call[w].listing[m]) ELSE machine[m]]
        <5>1. \A m \in Machines : m \in DOMAIN call[w].listing =>
                 Upsert(m, call[w].panel, call[w].listing[m]) \in Machine
          BY <2>0, <3>1, UpsertType
        <5> QED BY <4>1, <5>1
      <4>2. CASE UNCHANGED machine
        BY <4>2
      <4> QED BY <2>2, <4>1, <4>2 DEF CommitSync
    <3>3. Return(w) \/ Goto(w, "broadcast")
      BY <2>2 DEF CommitSync
    <3> QED BY <2>2, <3>2, <3>3, GotoType DEF CommitSync, world
  <2>3. CASE StoreHeartbeat(w)
    <3>1. machine' \in [Machines -> Machine]
      <4> DEFINE m == call[w].machine
                 ip == Coalesced(call[w].ip, machine[m].ip)
      <4>1. machine[m] \in Machine
        BY <2>0
      <4>2. ip \in Address
        BY <2>0, <4>1 DEF Coalesced, Machine
      <4>3. machine' = machine \/ machine' = [machine EXCEPT ![m].ip = ip]
        BY <2>3 DEF StoreHeartbeat
      <4> HIDE DEF ip
      <4> QED BY <2>0, <4>2, <4>3 DEF Machine
    <3> QED BY <2>3, <3>1, GotoType DEF StoreHeartbeat, world
  <2>4. CASE RecordAddress(w)
    <3>1. machine' \in [Machines -> Machine]
      BY <2>0, <2>4 DEF RecordAddress, Machine
    <3> QED BY <2>4, <3>1, GotoType DEF RecordAddress, world
  <2>5. CASE DeletePanel(w)
    BY <2>5, GotoType DEF DeletePanel, world
  <2>6. ASSUME NEW a \in Agents, InsertAgent(w, a) PROVE TablesOK'
    <3>1. [row |-> "live", machine |-> call[w].machine] \in Agent
      BY <2>0 DEF Agent
    <3> QED BY <2>6, <3>1, GotoType DEF InsertAgent, world
  <2>7. CASE Drop(w)
    BY <2>7, GotoType DEF Drop, tables, world
  <2> QED BY <1>1, <2>1, <2>2, <2>3, <2>4, <2>5, <2>6, <2>7, BeginType DEF TableStep
<1>2. ASSUME NEW w \in Writers, BeginBroadcast(w) \/ SendFailed(w) \/ Sent(w) \/ Answer(w)
      PROVE  TablesOK'
  BY <1>2, GotoType DEF BeginBroadcast, SendFailed, Sent, Answer, tables, world
<1>3. CASE Elsewhere
  <2>1. ASSUME NEW p \in Panels, CreatePanel(p) PROVE TablesOK'
    BY <2>1 DEF CreatePanel, world
  <2>2. ASSUME NEW m \in Machines, NEW p \in Panels, NEW auto \in BOOLEAN, CreateMachine(m, p, auto)
        PROVE  TablesOK'
    BY <2>2, Values DEF CreateMachine, world
  <2>3. ASSUME NEW m \in Machines, DeleteMachine(m) PROVE TablesOK'
    <3>1. \A a \in Agents : [agent[a] EXCEPT !.row = "deleted"] \in Agent
      BY DEF Agent
    <3> QED BY <2>3, <3>1, Values DEF DeleteMachine, world
  <2>4. ASSUME NEW m \in Machines, NEW ip \in IPs, ChangeAddress(m, ip) PROVE TablesOK'
    BY <2>4 DEF ChangeAddress, tables
  <2> QED BY <1>3, <2>1, <2>2, <2>3, <2>4 DEF Elsewhere
<1>4. CASE UNCHANGED <<tables, world, call, drops, optedOut>>
  BY <1>4 DEF tables, world
<1>5. CASE UNCHANGED vars
  BY <1>5 DEF vars
<1> QED BY NextCases, <1>1, <1>2, <1>3, <1>4, <1>5

LEMMA InitialRegistry ==
  ASSUME Init
  PROVE  HubOfRegistryInv /\ TablesOK
<1>1. \A s \in Sockets : {w \in Writers : s \in sending[w]} = {}
  BY DEF Init, HubInit
<1>2. Cardinality({}) = 0
  BY FS_EmptySet
<1>3. HubInv
  BY <1>1, <1>2
  DEF Init, HubInit, HubInv, HubTypeOK, NothingMissed, ClientsAreHandled, OwedCovers, Owing
<1>4. SilentUntilSend
  BY DEF Init, HubInit, SilentUntilSend
<1>5. TablesOK
  <2>1. (CHOOSE m \in Machines : TRUE) \in Machines
    BY RegistryConstants
  <2> QED BY <2>1, Values DEF Init, TablesOK, Agent
<1> QED BY <1>3, <1>4, <1>5 DEF HubOfRegistryInv

LEMMA RegistryInvariant == Spec => [](HubOfRegistryInv /\ TablesOK)
<1>1. HubOfRegistryInv /\ TablesOK /\ [Next]_vars => (HubOfRegistryInv /\ TablesOK)'
  BY HubOfRegistryStep, TablesStep DEF TablesOK
<1> QED BY InitialRegistry, <1>1, PTL DEF Spec

(* Every column of the registry, every handler and the hub have their types: *)
(* an import, an edit and a heartbeat store what the schema allows.          *)
THEOREM RegistryTypeCorrect == Spec => []RegistryTypeOK
<1>1. HubOfRegistryInv /\ TablesOK => RegistryTypeOK
  BY DEF HubOfRegistryInv, HubInv, TablesOK, RegistryTypeOK
<1> QED BY <1>1, RegistryInvariant, PTL

(* Hub.Broadcast and Hub.Remove: an open dashboard connection is owed the    *)
(* events of exactly the broadcasts that have it in their copy of the        *)
(* clients, for any number of connections and of handlers that broadcast.    *)
THEOREM NothingMissedCorrect == Spec => []NothingMissed
<1>1. HubOfRegistryInv => NothingMissed
  BY DEF HubOfRegistryInv, HubInv
<1> QED BY <1>1, RegistryInvariant, PTL

(* ws and Hub.Remove: a connection in the hub has a handler that will remove *)
(* it.                                                                       *)
THEOREM ClientsHandledCorrect == Spec => []ClientsAreHandled
<1>1. HubOfRegistryInv => ClientsAreHandled
  BY DEF HubOfRegistryInv, HubInv
<1> QED BY <1>1, RegistryInvariant, PTL

-----------------------------------------------------------------------------
(* Rows that refer to others.                                              *)

LEMMA OrphansStep ==
  ASSUME TablesOK, NoOrphans, [Next]_vars
  PROVE  NoOrphans'
<1> USE DEF NoOrphans
<1>0. /\ \A m \in Machines : machine[m].panel \in Panels
      /\ \A a \in Agents : agent[a].machine \in Machines
      /\ \A w \in Writers : call[w].machine \in Machines /\ call[w].panel \in Panels
  <2>1. \A m \in Machines : machine[m] \in Machine
    BY DEF TablesOK
  <2>2. \A a \in Agents : agent[a] \in Agent
    BY DEF TablesOK
  <2>3. \A w \in Writers : call[w] \in Call
    BY DEF TablesOK
  <2> QED BY <2>1, <2>2, <2>3 DEF Machine, Agent, Call
<1>1. ASSUME UNCHANGED tables PROVE NoOrphans'
  BY <1>1 DEF tables
<1>2. ASSUME UNCHANGED <<panel, agent>>,
             \A m \in Machines : /\ machine[m].exists => machine'[m].exists
                                 /\ machine'[m].exists => panel[machine'[m].panel] = "live"
      PROVE  NoOrphans'
  BY <1>0, <1>2
<1>3. ASSUME NEW w \in Writers, TableStep(w) PROVE NoOrphans'
  <2>1. CASE WritePatch(w)
    <3>1. \A m \in Machines : /\ machine'[m].exists = machine[m].exists
                              /\ machine'[m].panel = machine[m].panel
      BY <2>1, <1>0 DEF WritePatch, TablesOK, Machine
    <3> QED BY <2>1, <3>1, <1>2 DEF WritePatch
  <2>2. CASE CommitSync(w)
    <3>1. CASE UNCHANGED machine
      BY <2>2, <3>1, <1>2 DEF CommitSync
    <3>2. CASE ~UNCHANGED machine
      <4> DEFINE listing == call[w].listing
                 p == call[w].panel
      <4>1. /\ panel[p] = "live" \/ DOMAIN listing = {}
            /\ machine' = [m \in Machines |-> IF m \in DOMAIN listing
                             THEN Upsert(m, p, listing[m]) ELSE machine[m]]
        BY <2>2, <3>2 DEF CommitSync
      <4>2. \A m \in Machines : \A ip : /\ Upsert(m, p, ip).exists
                                    /\ Upsert(m, p, ip).panel = p
        <5>1. \A m \in Machines : machine[m] \in Machine
          BY DEF TablesOK
        <5> QED BY <5>1 DEF Upsert, NoMachine, Machine
      <4> HIDE DEF listing, p
      <4>3. \A m \in Machines : /\ machine[m].exists => machine'[m].exists
                                /\ machine'[m].exists => panel[machine'[m].panel] = "live"
        BY <4>1, <4>2
      <4> QED BY <2>2, <4>3, <1>2 DEF CommitSync
    <3> QED BY <3>1, <3>2
  <2>3. CASE StoreHeartbeat(w)
    <3>1. \A m \in Machines : /\ machine'[m].exists = machine[m].exists
                              /\ machine'[m].panel = machine[m].panel
      BY <2>3, <1>0 DEF StoreHeartbeat, TablesOK, Machine
    <3> QED BY <2>3, <3>1, <1>2 DEF StoreHeartbeat
  <2>4. CASE RecordAddress(w)
    <3>1. \A m \in Machines : /\ machine'[m].exists = machine[m].exists
                              /\ machine'[m].panel = machine[m].panel
      BY <2>4, <1>0 DEF RecordAddress, TablesOK, Machine
    <3> QED BY <2>4, <3>1, <1>2 DEF RecordAddress
  <2>5. CASE DeletePanel(w)
    <3>1. \A m \in Machines : machine[m].exists => panel'[machine[m].panel] = "live"
      BY <2>5, <1>0 DEF DeletePanel, References, TablesOK
    <3> QED BY <2>5, <3>1 DEF DeletePanel
  <2>6. ASSUME NEW a \in Agents, InsertAgent(w, a) PROVE NoOrphans'
    <3>1. \A b \in Agents : agent'[b].row = "live" => machine[agent'[b].machine].exists
      BY <2>6 DEF InsertAgent, TablesOK
    <3> QED BY <2>6, <3>1 DEF InsertAgent
  <2>7. CASE BeginCall(w)
    <3>1. UNCHANGED tables
      BY <2>7 DEF BeginCall, BeginPatch, SeeAddress, CountMachine, ListMachines, CountMachines,
                  Heartbeat
    <3> QED BY <3>1, <1>1
  <2>8. CASE Drop(w)
    BY <2>8, <1>1 DEF Drop
  <2> QED BY <1>3, <2>1, <2>2, <2>3, <2>4, <2>5, <2>6, <2>7, <2>8 DEF TableStep
<1>4. ASSUME NEW w \in Writers, BeginBroadcast(w) \/ SendFailed(w) \/ Sent(w) \/ Answer(w)
      PROVE  NoOrphans'
  BY <1>4, <1>1 DEF BeginBroadcast, SendFailed, Sent, Answer
<1>5. CASE Elsewhere
  <2>1. ASSUME NEW p \in Panels, CreatePanel(p) PROVE NoOrphans'
    <3>1. \A m \in Machines : machine[m].exists => panel'[machine[m].panel] = "live"
      BY <2>1, <1>0 DEF CreatePanel, TablesOK
    <3> QED BY <2>1, <3>1 DEF CreatePanel
  <2>2. ASSUME NEW m \in Machines, NEW p \in Panels, NEW auto \in BOOLEAN, CreateMachine(m, p, auto)
        PROVE  NoOrphans'
    <3>1. NewMachine(p, auto).exists /\ NewMachine(p, auto).panel = p
      BY DEF NewMachine
    <3> QED BY <2>2, <3>1, <1>2 DEF CreateMachine, TablesOK
  <2>3. ASSUME NEW m \in Machines, DeleteMachine(m) PROVE NoOrphans'
    <3>1. ~NoMachine.exists
      BY DEF NoMachine
    <3>2. \A n \in Machines : machine'[n].exists => n # m /\ machine'[n] = machine[n]
      BY <2>3, <3>1 DEF DeleteMachine, TablesOK
    <3>3. \A n \in Machines \ {m} : machine'[n] = machine[n]
      BY <2>3 DEF DeleteMachine
    <3>4. \A a \in Agents : agent'[a].row = "live" => agent'[a] = agent[a] /\ agent[a].machine # m
      BY <2>3 DEF DeleteMachine, TablesOK, Agent
    <3> QED BY <2>3, <3>2, <3>3, <3>4, <1>0 DEF DeleteMachine
  <2>4. ASSUME NEW m \in Machines, NEW ip \in IPs, ChangeAddress(m, ip) PROVE NoOrphans'
    BY <2>4, <1>1 DEF ChangeAddress
  <2> QED BY <1>5, <2>1, <2>2, <2>3, <2>4 DEF Elsewhere
<1>6. CASE UNCHANGED <<tables, world, call, drops, optedOut>> \/ UNCHANGED vars
  BY <1>6, <1>1 DEF vars, tables
<1> QED BY NextCases, <1>3, <1>4, <1>5, <1>6

(* deleteProvider, deleteMachine, generateAgentToken, syncProvider: a machine's *)
(* panel and an agent's machine are there, whatever happens between a check and *)
(* the statement that relies on it.                                            *)
THEOREM NoOrphansCorrect == Spec => []NoOrphans
<1>1. Init => NoOrphans
  <2>1. ~NoMachine.exists
    BY DEF NoMachine
  <2> QED BY <2>1 DEF Init, NoOrphans
<1>2. TablesOK /\ NoOrphans /\ [Next]_vars => NoOrphans'
  BY OrphansStep
<1> QED BY <1>1, <1>2, RegistryInvariant, PTL DEF Spec

-----------------------------------------------------------------------------
(* The opt-in.                                                             *)

OptInv ==
  /\ OptOutStays
  /\ \A m \in optedOut, w \in Writers : ~OptsIn(w, m)

(* All an opted-out machine asks of a step that does not opt in or out. *)
KeepsOut ==
  /\ UNCHANGED optedOut
  /\ \A m \in Machines : machine'[m].exists /\ machine'[m].auto
                           => machine[m].exists /\ machine[m].auto
  /\ \A w \in Writers : call'[w] = call[w] \/ call'[w].pc # "patch"

LEMMA Kept ==
  ASSUME TablesOK, OptInv, KeepsOut
  PROVE  OptInv'
BY DEF OptInv, OptOutStays, OptsIn, KeepsOut, TablesOK

LEMMA GotoLeaves ==
  ASSUME call \in [Writers -> Call], NEW w \in Writers,
         Return(w) \/ Goto(w, "broadcast") \/ Goto(w, "send")
  PROVE  /\ \A v \in Writers : call'[v] = call[v] \/ call'[v].pc # "patch"
         /\ call'[w].pc # "patch" /\ \A v \in Writers \ {w} : call'[v] = call[v]
<1>1. \A pc \in {"free", "broadcast", "send"} : [NoCall EXCEPT !.pc = pc].pc # "patch"
  BY DEF NoCall
<1> QED BY <1>1 DEF Return, Goto

LEMMA OptStep ==
  ASSUME TablesOK, OptInv, [Next]_vars
  PROVE  OptInv'
<1>0. /\ \A m \in Machines : machine[m] \in Machine
      /\ \A w \in Writers : call[w] \in Call
      /\ machine \in [Machines -> Machine] /\ call \in [Writers -> Call]
      /\ optedOut \subseteq Machines
  BY DEF TablesOK
<1>1. ASSUME UNCHANGED <<machine, call, optedOut>> PROVE OptInv'
  BY <1>1, Kept DEF KeepsOut
<1>2. ASSUME NEW w \in Writers, NEW m \in Machines, NEW asked \in BOOLEAN, NEW auto \in BOOLEAN,
             BeginPatch(w, m, asked, auto)
      PROVE  OptInv'
  <2> DEFINE c == [NoCall EXCEPT !.pc = "patch", !.machine = m, !.asked = asked,
                                 !.auto = IF asked THEN auto ELSE machine[m].auto]
  <2>1. c.machine = m /\ c.auto = IF asked THEN auto ELSE machine[m].auto
    BY DEF NoCall
  <2> HIDE DEF c
  <2>2. call' = [call EXCEPT ![w] = c] /\ machine[m].exists /\ UNCHANGED machine
    BY <1>2 DEF BeginPatch, Begin, tables, c
  <2>3. optedOut' \subseteq optedOut /\ (asked /\ auto => m \notin optedOut')
    BY <1>2 DEF BeginPatch
  <2>4. ASSUME NEW n \in optedOut', NEW v \in Writers PROVE ~(OptsIn(v, n)')
    <3>1. CASE v = w
      <4>1. n = m => ~c.auto
        <5>1. CASE asked
          BY <2>1, <2>3, <5>1
        <5>2. CASE ~asked
          BY <2>1, <2>2, <2>3, <5>2 DEF OptInv, OptOutStays
        <5> QED BY <5>1, <5>2
      <4> QED BY <1>0, <2>1, <2>2, <3>1, <4>1 DEF OptsIn
    <3>2. CASE v # w
      BY <1>0, <2>2, <2>3, <3>2 DEF OptInv, OptsIn
    <3> QED BY <3>1, <3>2
  <2>5. OptOutStays'
    BY <2>2, <2>3 DEF OptInv, OptOutStays
  <2> QED BY <2>4, <2>5 DEF OptInv
<1>3. ASSUME NEW w \in Writers, BeginCall(w),
             ~\E m \in Machines : \E asked, auto \in BOOLEAN : BeginPatch(w, m, asked, auto)
      PROVE  OptInv'
  <2>1. UNCHANGED <<machine, optedOut>>
    BY <1>3 DEF BeginCall, SeeAddress, CountMachine, ListMachines, CountMachines, Heartbeat, tables
  <2>2. \A v \in Writers : call'[v] = call[v] \/ call'[v].pc # "patch"
    <3>1. CASE \E m \in Machines : SeeAddress(w, m) \/ CountMachine(w, m)
      <4>1. PICK m \in Machines : SeeAddress(w, m) \/ CountMachine(w, m)
        BY <3>1
      <4>2. CASE SeeAddress(w, m)
        BY <4>2, <1>0 DEF SeeAddress, Begin, NoCall
      <4>3. CASE CountMachine(w, m)
        BY <4>3, <1>0 DEF CountMachine, Begin, NoCall
      <4> QED BY <4>1, <4>2, <4>3
    <3>2. CASE \E p \in Panels, shown \in SUBSET Machines :
                 \E blank \in SUBSET shown : ListMachines(w, p, shown, blank)
      <4>1. PICK p \in Panels, shown \in SUBSET Machines :
                   \E blank \in SUBSET shown : ListMachines(w, p, shown, blank)
        BY <3>2
      <4>2. PICK blank \in SUBSET shown : ListMachines(w, p, shown, blank)
        BY <4>1
      <4> DEFINE listing == [m \in shown |-> IF m \in blank THEN NoIP ELSE actual[m]]
      <4>3. [NoCall EXCEPT !.pc = "sync", !.panel = p, !.listing = listing].pc = "sync"
        <5> HIDE DEF listing
        <5> QED BY DEF NoCall
      <4>4. call' = [call EXCEPT ![w] =
                       [NoCall EXCEPT !.pc = "sync", !.panel = p, !.listing = listing]]
        BY <4>2 DEF ListMachines, Begin
      <4> HIDE DEF listing
      <4> QED BY <4>3, <4>4, <1>0
    <3>3. CASE \E p \in Panels : CountMachines(w, p)
      BY <3>3, <1>0 DEF CountMachines, Begin, NoCall
    <3>4. CASE \E a \in Agents, ip \in Address : Heartbeat(w, a, ip)
      BY <3>4, <1>0 DEF Heartbeat, Begin, NoCall
    <3> QED BY <1>3, <3>1, <3>2, <3>3, <3>4 DEF BeginCall
  <2> QED BY <2>1, <2>2, Kept DEF KeepsOut
<1>4. ASSUME NEW w \in Writers, WritePatch(w) PROVE OptInv'
  <2> DEFINE m == call[w].machine
  <2>1. /\ call[w].pc = "patch" /\ Return(w)
        /\ \A n \in Machines : machine'[n].exists =>
             machine'[n].auto = IF n = m THEN call[w].auto ELSE machine[n].auto
        /\ \A n \in Machines : machine'[n].exists = machine[n].exists
    BY <1>0, <1>4 DEF WritePatch, Machine
  <2>2. m \in Machines
    BY <1>0 DEF Call
  <2>3. \/ optedOut' = optedOut
        \/ optedOut' = optedOut \union {m} /\ \A v \in Writers : ~OptsIn(v, m)
    BY <1>4 DEF WritePatch
  <2> HIDE DEF m
  <2>4. \A n \in optedOut', v \in Writers : ~OptsIn(v, n)
    BY <2>3 DEF OptInv
  <2>5. \A n \in optedOut', v \in Writers : ~(OptsIn(v, n)')
    BY <1>0, <2>1, <2>4, GotoLeaves DEF OptsIn
  <2>6. ASSUME NEW n \in optedOut', machine'[n].exists PROVE ~machine'[n].auto
    <3>1. n \in Machines /\ (n # m => n \in optedOut)
      BY <1>0, <2>2, <2>3
    <3>2. CASE n = m
      <4>1. ~call[w].auto
        BY <2>1, <2>4, <3>2 DEF OptsIn, m
      <4> QED BY <2>1, <2>6, <3>1, <3>2, <4>1
    <3>3. CASE n # m
      BY <2>1, <2>6, <3>1, <3>3 DEF OptInv, OptOutStays
    <3> QED BY <3>2, <3>3
  <2> QED BY <2>5, <2>6 DEF OptInv, OptOutStays
<1>5. ASSUME NEW w \in Writers, CommitSync(w) PROVE OptInv'
  <2>1. \A m \in Machines : \A p, ip : Upsert(m, p, ip).auto => machine[m].exists /\ machine[m].auto
    BY <1>0 DEF Upsert, NoMachine, Machine
  <2>2. \A m \in Machines : machine'[m].exists /\ machine'[m].auto
                              => machine[m].exists /\ machine[m].auto
    BY <2>1, <1>5 DEF CommitSync
  <2>3. Return(w) \/ Goto(w, "broadcast")
    BY <1>5 DEF CommitSync
  <2> QED BY <1>0, <1>5, <2>2, <2>3, GotoLeaves, Kept DEF CommitSync, KeepsOut
<1>6. ASSUME NEW w \in Writers,
             \/ StoreHeartbeat(w) \/ RecordAddress(w) \/ DeletePanel(w) \/ Drop(w)
             \/ \E a \in Agents : InsertAgent(w, a)
             \/ BeginBroadcast(w) \/ SendFailed(w) \/ Sent(w) \/ Answer(w)
      PROVE  OptInv'
  <2>1. \A m \in Machines : machine'[m].exists = machine[m].exists /\ machine'[m].auto = machine[m].auto
    BY <1>0, <1>6 DEF StoreHeartbeat, RecordAddress, DeletePanel, Drop, InsertAgent,
                      BeginBroadcast, SendFailed, Sent, Answer, Machine, tables
  <2>2. UNCHANGED optedOut
    BY <1>6 DEF StoreHeartbeat, RecordAddress, DeletePanel, Drop, InsertAgent,
                BeginBroadcast, SendFailed, Sent, Answer
  <2>3. Return(w) \/ Goto(w, "broadcast") \/ Goto(w, "send") \/ UNCHANGED call
    BY <1>6 DEF StoreHeartbeat, RecordAddress, DeletePanel, Drop, InsertAgent,
                BeginBroadcast, SendFailed, Sent, Answer
  <2> QED BY <1>0, <2>1, <2>2, <2>3, GotoLeaves, Kept DEF KeepsOut
<1>7. CASE Elsewhere
  <2>1. ASSUME NEW p \in Panels, CreatePanel(p) PROVE OptInv'
    BY <2>1, <1>1 DEF CreatePanel
  <2>2. ASSUME NEW m \in Machines, NEW p \in Panels, NEW auto \in BOOLEAN, CreateMachine(m, p, auto)
        PROVE  OptInv'
    <3>1. NewMachine(p, auto).auto = auto
      BY DEF NewMachine
    <3>2. /\ \A n \in Machines \ {m} : machine'[n] = machine[n]
          /\ machine'[m].auto = auto
          /\ optedOut' \subseteq optedOut /\ (auto => m \notin optedOut')
          /\ UNCHANGED call
      BY <2>2, <3>1, <1>0 DEF CreateMachine
    <3> QED BY <3>2, <1>0 DEF OptInv, OptOutStays, OptsIn
  <2>3. ASSUME NEW m \in Machines, DeleteMachine(m) PROVE OptInv'
    <3>1. ~NoMachine.exists
      BY DEF NoMachine
    <3>2. \A n \in Machines : machine'[n].exists /\ machine'[n].auto
                                => machine[n].exists /\ machine[n].auto
      BY <2>3, <3>1, <1>0 DEF DeleteMachine
    <3> QED BY <2>3, <3>2, Kept DEF DeleteMachine, KeepsOut
  <2>4. ASSUME NEW m \in Machines, NEW ip \in IPs, ChangeAddress(m, ip) PROVE OptInv'
    BY <2>4, <1>1 DEF ChangeAddress, tables
  <2> QED BY <1>7, <2>1, <2>2, <2>3, <2>4 DEF Elsewhere
<1>8. CASE UNCHANGED <<tables, world, call, drops, optedOut>> \/ UNCHANGED vars
  BY <1>8, <1>1 DEF vars, tables
<1> QED
  <2>1. ASSUME NEW w \in Writers, TableStep(w) PROVE OptInv'
    BY <2>1, <1>2, <1>3, <1>4, <1>5, <1>6 DEF TableStep
  <2> QED BY NextCases, <2>1, <1>6, <1>7, <1>8

(* PATCH of machines, syncProvider, deleteMachine: a machine opted out of       *)
(* automatic rotation stays out until somebody opts it in, with the exception   *)
(* the property states; for any number of edits and syncs that overlap.         *)
THEOREM OptOutCorrect == Spec => []OptOutStays
<1>1. Init => OptInv
  BY DEF Init, OptInv, OptOutStays
<1>2. TablesOK /\ OptInv /\ [Next]_vars => OptInv'
  BY OptStep
<1>3. OptInv => OptOutStays
  BY DEF OptInv
<1> QED BY <1>1, <1>2, <1>3, RegistryInvariant, PTL DEF Spec

=============================================================================
