------------------------------- MODULE DnsSync -------------------------------
(***************************************************************************)
(* DNS records and their synchronisation with the DNS service              *)
(* (backend/internal/api/dns.go, backend/internal/dns/dns.go, the DNS part *)
(* of rotate and retryRotationDNS in rotation.go).                         *)
(*                                                                         *)
(* A record row links a machine with an entry of the DNS service: a zone,  *)
(* a name and a type.  Four callers write entries: a record synchronised   *)
(* by hand, a machine's records by hand, a rotation that has found a new   *)
(* address, and the retry of a rotation's synchronisation.  Each copies    *)
(* rows and addresses at one time, calls the service at another, and       *)
(* stores the outcome at a third; nothing orders two of them, and edits,   *)
(* heartbeats and deletions come in between.                               *)
(*                                                                         *)
(* Of a rotation only its last part is here, from the address it records   *)
(* to its history row; module Rotation has all of it but DNS.  The two     *)
(* share what they say of that part: one rotation of a machine at a time,  *)
(* rows never taken over, statements lost with the context.                *)
(***************************************************************************)
EXTENDS Naturals, Sequences, FiniteSets

CONSTANTS
  Machines,     \* ids of machines
  Records,      \* ids of dns_records, never used twice
  Entries,      \* entries of the DNS service
  V6Entries,    \* those of type AAAA
  V4, V6,       \* addresses
  Owner,        \* the machine an address belongs to
  Links,        \* machines and entries a record may link
  Reports,      \* addresses that may be reported, by machine
  NoIP,         \* the empty string in an address column
  Calls,        \* goroutines that may synchronise
  Requests,     \* those that run under the context of an HTTP request
  MaxEdits,     \* bound of changes to records, addresses and the provider
  MaxFailures,  \* bound of failed requests, clients that go and crashes
  MaxRotations  \* bound of the rotations table

ASSUME DnsConstants ==
  /\ Machines # {} /\ Entries # {} /\ Records # {}
  /\ V6Entries \subseteq Entries /\ Requests \subseteq Calls
  /\ V4 \intersect V6 = {} /\ NoIP \notin V4 \union V6
  /\ Owner \in [V4 \union V6 -> Machines] /\ Links \subseteq Machines \X Entries
  /\ MaxEdits \in Nat /\ MaxFailures \in Nat /\ MaxRotations \in Nat

VARIABLES
  address,    \* public_ipv4 and public_ipv6 of the machines that have a row
  record,     \* the dns_records table
  provider,   \* the row of the DNS provider the records name
  emptied,    \* has a request to delete it counted no records?
  rotation,   \* the rotations table, as far as DNS goes
  served,     \* the DNS service: what each entry resolves to
  late,       \* requests given up by the controller and still on their way
  call,       \* local state of the synchronisations
  edits,      \* changes so far
  failures,   \* failures so far
  accepted,   \* history: addresses the service took for a record
  linked,     \* history: machines and entries some record has linked
  deleted     \* history: machines that were deleted

rows == <<record, provider, emptied, rotation>>
bounds == <<edits, failures>>
history == <<accepted, linked, deleted>>
vars == <<address, record, provider, emptied, rotation, served, late, call,
          edits, failures, accepted, linked, deleted>>

-----------------------------------------------------------------------------

Addresses == [exists : BOOLEAN, v4 : V4 \union {NoIP}, v6 : V6 \union {NoIP}]

ASSUME ReportsConstant ==
  \A m \in Machines : \A x \in Reports[m] :
    x \in Addresses /\ x.exists /\ \A ip \in {x.v4, x.v6} \ {NoIP} : Owner[ip] = m

NoAddresses == [exists |-> FALSE, v4 |-> NoIP, v6 |-> NoIP]

(* The column of a machine's row that belongs to the type of an entry. *)
AddressFor(m, e) == IF e \in V6Entries THEN address[m].v6 ELSE address[m].v4

(* What enabled and sync_after_rotation come to. *)
Sync == {"off", "byHand", "auto"}

Record == [row : {"unused", "live", "deleted"}, machine : Machines, entry : Entries,
           sync : Sync,
           lastIP : V4 \union V6 \union {NoIP}, status : {"none", "completed", "failed"}]

NoRecord == [row |-> "unused", machine |-> CHOOSE m \in Machines : TRUE,
             entry |-> CHOOSE e \in Entries : TRUE, sync |-> "off",
             lastIP |-> NoIP, status |-> "none"]

(* An INSERT, and the machine and entry it links. *)
NewRecord(link, sync) ==
  [NoRecord EXCEPT !.row = "live", !.machine = link[1], !.entry = link[2], !.sync = sync]

Live(r) == record[r].row = "live"

DnsStatus == {"none", "disabled", "failed", "completed"}

(* Rows of rotations; target and steady are history: the address that was  *)
(* recorded, and the records it is for that have not been edited since.    *)
Rotation == [machine : Machines, new : V4 \union {NoIP}, dns : DnsStatus,
             target : V4, steady : SUBSET Records]

Item == [id : Records, entry : Entries]
Request == [entry : Entries, ip : V4 \union V6]

(***************************************************************************)
(* A synchronisation.  v4 is the address it was started with, todo what is *)
(* left of the rows it selected, item and ip the row and the address being *)
(* written, ok the service's answer, dns the status a rotation will store. *)
(***************************************************************************)
Call == [pc : {"free", "read", "select", "loop", "lookup", "send", "store",
               "count", "finish", "mark"},
         kind : {"record", "machine", "rotation", "retry"},
         machine : Machines, v4 : V4 \union {NoIP},
         todo : SUBSET Item, item : Item, ip : V4 \union V6 \union {NoIP},
         ok : BOOLEAN, cancelled : BOOLEAN, row : Nat, dns : DnsStatus]

NoCall == [pc |-> "free", kind |-> "record", machine |-> NoRecord.machine, v4 |-> NoIP,
           todo |-> {}, item |-> [id |-> CHOOSE r \in Records : TRUE, entry |-> NoRecord.entry],
           ip |-> NoIP, ok |-> FALSE, cancelled |-> FALSE, row |-> 0, dns |-> "none"]

(* What is left of a call once a row of its loop is done with. *)
Between(c, pc) == [call[c] EXCEPT !.pc = pc, !.item = NoCall.item, !.ip = NoIP, !.ok = FALSE]

Begin(c, kind, m, pc) == [NoCall EXCEPT !.pc = pc, !.kind = kind, !.machine = m]

Set(c, value) == call' = [call EXCEPT ![c] = value]
Goto(c, pc) == Set(c, [call[c] EXCEPT !.pc = pc])
Return(c) == Set(c, NoCall)

ItemOf(r) == [id |-> r, entry |-> record[r].entry]

(* Mutant of Selected: always what a rotation selects. *)
SelectedAuto(m, kind) ==
  {r \in Records : Live(r) /\ record[r].machine = m /\ record[r].sync = "auto"}

(* Records of m that a rotation, or another synchronisation, selects. *)
Selected(m, kind) ==
  {r \in Records : /\ Live(r) /\ record[r].machine = m
                   /\ record[r].sync \in IF kind = "rotation" THEN {"auto"}
                                         ELSE {"byHand", "auto"}}

(* The controller starts with machines and with records never synchronised. *)
Init ==
  /\ address \in [Machines -> Addresses]
  /\ \A m \in Machines : address[m] \in Reports[m]
  /\ record \in [Records -> {NoRecord} \union {NewRecord(link, "auto") : link \in Links}]
  /\ provider = "enabled" /\ emptied = FALSE /\ rotation = <<>>
  /\ served = [e \in Entries |-> NoIP] /\ late = {}
  /\ call = [c \in Calls |-> NoCall]
  /\ edits = 0 /\ failures = 0
  /\ accepted = {} /\ deleted = {}
  /\ linked = {<<record[r].machine, record[r].entry>> : r \in {q \in Records : Live(q)}}

-----------------------------------------------------------------------------
(* A synchronisation begins.                                               *)

(* syncDNSRecord: SELECT the row, of whatever machine, enabled or not... *)
BeginRecord(c, r) ==
  /\ call[c].pc = "free" /\ Live(r)
  /\ Set(c, [Begin(c, "record", record[r].machine, "read") EXCEPT !.item = ItemOf(r)])
  /\ UNCHANGED <<address, rows, served, late, bounds, history>>

(* Mutant of ReadAddress: the address is that of the record's machine by now. *)
ReadAddressAgain(c) ==
  LET m == record[call[c].item.id].machine
      ip == AddressFor(m, call[c].item.entry) IN
  /\ call[c].pc = "read"
  /\ IF call[c].cancelled \/ ~address[m].exists \/ ip = NoIP THEN Return(c)
     ELSE Set(c, [call[c] EXCEPT !.pc = "lookup", !.ip = ip])
  /\ UNCHANGED <<address, rows, served, late, bounds, history>>

(* ...then the machine's address of its type; none ends the request. *)
ReadAddress(c) ==
  LET m == call[c].machine
      ip == AddressFor(m, call[c].item.entry) IN
  /\ call[c].pc = "read"
  /\ IF call[c].cancelled \/ ~address[m].exists \/ ip = NoIP THEN Return(c)
     ELSE Set(c, [call[c] EXCEPT !.pc = "lookup", !.ip = ip])
  /\ UNCHANGED <<address, rows, served, late, bounds, history>>

(* syncMachineDNS: SELECT public_ipv4. *)
BeginMachine(c, m) ==
  /\ call[c].pc = "free" /\ address[m].exists
  /\ Set(c, [Begin(c, "machine", m, "select") EXCEPT !.v4 = address[m].v4])
  /\ UNCHANGED <<address, rows, served, late, bounds, history>>

(* retryRotationDNS: SELECT machine_id,new_ip; a NULL address is not found. *)
BeginRetry(c, i) ==
  /\ call[c].pc = "free" /\ i \in DOMAIN rotation /\ rotation[i].new # NoIP
  /\ Set(c, [Begin(c, "retry", rotation[i].machine, "select") EXCEPT
               !.v4 = rotation[i].new, !.row = i])
  /\ UNCHANGED <<address, rows, served, late, bounds, history>>

(***************************************************************************)
(* rotate: UPDATE machines SET public_ipv4, under the context; then its    *)
(* synchronisation starts.  The lock allows one rotation of a machine.     *)
(***************************************************************************)
BeginRotation(c, m, ip, cancelled) ==
  /\ call[c].pc = "free"
  /\ \A d \in Calls : call[d].kind = "rotation" => call[d].machine # m
  /\ address[m].exists \/ m \in deleted
  /\ Len(rotation) < MaxRotations
  /\ address' = IF address[m].exists /\ ~cancelled
                THEN [address EXCEPT ![m].v4 = ip] ELSE address
  /\ rotation' = Append(rotation, [machine |-> m, new |-> NoIP, dns |-> "none", target |-> ip,
                                   steady |-> {r \in Selected(m, "rotation") :
                                                 record[r].entry \notin V6Entries}])
  /\ Set(c, [Begin(c, "rotation", m, "select") EXCEPT
               !.v4 = ip, !.row = Len(rotation) + 1, !.cancelled = cancelled])
  /\ UNCHANGED <<record, provider, emptied, served, late, bounds, history>>

-----------------------------------------------------------------------------
(* syncDNSForMachine and syncOneDNS.                                       *)

(* Mutant of Fail: a status the history does not know. *)
FailError(c) ==
  IF call[c].kind = "rotation"
  THEN Set(c, [Between(c, "finish") EXCEPT !.todo = {}, !.dns = "error"])
  ELSE Return(c)

(* The call ends with an error, or without one. *)
Fail(c) ==
  IF call[c].kind = "rotation"
  THEN Set(c, [Between(c, "finish") EXCEPT !.todo = {}, !.dns = "failed"])
  ELSE Return(c)

Succeed(c) ==
  CASE call[c].kind = "rotation" -> Goto(c, "count")
    [] call[c].kind = "retry" -> Goto(c, "mark")
    [] OTHER -> Return(c)

SelectRecords(c) ==
  /\ call[c].pc = "select"
  /\ IF call[c].cancelled THEN Fail(c)
     ELSE Set(c, [call[c] EXCEPT !.pc = "loop",
            !.todo = {ItemOf(r) : r \in Selected(call[c].machine, call[c].kind)}])
  /\ UNCHANGED <<address, rows, served, late, bounds, history>>

(* Mutant of LoopAddress: the IPv4 address will do for a machine without IPv6. *)
LoopAddressAny(c, x) ==
  LET m == call[c].machine IN
  IF x.entry \in V6Entries /\ address[m].exists /\ ~call[c].cancelled /\ address[m].v6 # NoIP
  THEN address[m].v6 ELSE call[c].v4

(***************************************************************************)
(* The address of an AAAA record is read in the loop.  When that fails,    *)
(* because the machine is gone or the request is, the IPv4 address stays   *)
(* in the variable.  A record without an address is skipped.               *)
(***************************************************************************)
LoopAddress(c, x) ==
  LET m == call[c].machine IN
  IF x.entry \in V6Entries /\ address[m].exists /\ ~call[c].cancelled
  THEN address[m].v6 ELSE call[c].v4

NextRecord(c) ==
  /\ call[c].pc = "loop"
  /\ \/ call[c].todo = {} /\ Succeed(c)
     \/ \E x \in call[c].todo :
          Set(c, IF LoopAddress(c, x) = NoIP THEN [call[c] EXCEPT !.todo = @ \ {x}]
                 ELSE [call[c] EXCEPT !.todo = @ \ {x}, !.item = x, !.ip = LoopAddress(c, x),
                                      !.pc = "lookup"])
  /\ UNCHANGED <<address, rows, served, late, bounds, history>>

(* Without an enabled provider the record keeps its old status. *)
LookupProvider(c) ==
  /\ call[c].pc = "lookup"
  /\ IF call[c].cancelled \/ provider # "enabled" THEN Fail(c) ELSE Goto(c, "send")
  /\ UNCHANGED <<address, rows, served, late, bounds, history>>

(***************************************************************************)
(* dns.Sync: the service takes the address and says so; or there is an     *)
(* error, and the request has come to nothing, or is still on its way.     *)
(***************************************************************************)
Send(c) ==
  LET e == call[c].item.entry
      request == [entry |-> e, ip |-> call[c].ip] IN
  /\ call[c].pc = "send"
  /\ \/ /\ ~call[c].cancelled
        /\ served' = [served EXCEPT ![e] = call[c].ip]
        /\ accepted' = accepted \union {<<call[c].item.id, call[c].ip>>}
        /\ Set(c, [call[c] EXCEPT !.pc = "store", !.ok = TRUE])
        /\ UNCHANGED <<late, failures>>
     \/ /\ \/ call[c].cancelled /\ UNCHANGED failures
           \/ ~call[c].cancelled /\ failures < MaxFailures /\ failures' = failures + 1
        /\ late' \in {late, late \union {request}}
        /\ Set(c, [call[c] EXCEPT !.pc = "store", !.ok = FALSE])
        /\ UNCHANGED <<served, accepted>>
  /\ UNCHANGED <<address, rows, edits, linked, deleted>>

Arrive(q) ==
  /\ q \in late
  /\ late' = late \ {q}
  /\ served' = [served EXCEPT ![q.entry] = q.ip]
  /\ UNCHANGED <<address, rows, call, bounds, history>>

(* Mutant of Store: the loop goes on after an error. *)
StoreAndGoOn(c) ==
  LET r == call[c].item.id IN
  /\ call[c].pc = "store"
  /\ record' = IF call[c].cancelled \/ ~Live(r) THEN record
               ELSE [record EXCEPT ![r].lastIP = call[c].ip,
                                   ![r].status = IF call[c].ok THEN "completed" ELSE "failed"]
  /\ IF call[c].kind = "record" THEN Return(c) ELSE Set(c, Between(c, "loop"))
  /\ UNCHANGED <<address, provider, emptied, rotation, served, late, bounds, history>>

(* Mutant of Store: the status before the service has answered. *)
StoreUnchecked(c) ==
  LET r == call[c].item.id IN
  /\ call[c].pc = "store"
  /\ record' = IF call[c].cancelled \/ ~Live(r) THEN record
               ELSE [record EXCEPT ![r].lastIP = call[c].ip, ![r].status = "completed"]
  /\ IF call[c].kind = "record" THEN Return(c)
     ELSE IF call[c].ok THEN Set(c, Between(c, "loop")) ELSE Fail(c)
  /\ UNCHANGED <<address, provider, emptied, rotation, served, late, bounds, history>>

(* UPDATE dns_records, its error ignored; an error of the service ends all. *)
Store(c) ==
  LET r == call[c].item.id IN
  /\ call[c].pc = "store"
  /\ record' = IF call[c].cancelled \/ ~Live(r) THEN record
               ELSE [record EXCEPT ![r].lastIP = call[c].ip,
                                   ![r].status = IF call[c].ok THEN "completed" ELSE "failed"]
  /\ IF call[c].kind = "record" THEN Return(c)
     ELSE IF call[c].ok THEN Set(c, Between(c, "loop")) ELSE Fail(c)
  /\ UNCHANGED <<address, provider, emptied, rotation, served, late, bounds, history>>

-----------------------------------------------------------------------------
(* What becomes of the rotation's history row.                             *)

(* rotate: COUNT the records; a failed query counts none. *)
CountRecords(c) ==
  /\ call[c].pc = "count"
  /\ Set(c, [call[c] EXCEPT !.pc = "finish",
       !.dns = IF ~call[c].cancelled /\ Selected(call[c].machine, "rotation") # {}
               THEN "completed" ELSE "disabled"])
  /\ UNCHANGED <<address, rows, served, late, bounds, history>>

(* UPDATE rotations SET new_ip, dns_sync_status, after the post check. *)
FinishRotation(c) ==
  LET i == call[c].row IN
  /\ call[c].pc = "finish"
  /\ rotation' = IF call[c].cancelled THEN rotation
                 ELSE [rotation EXCEPT ![i].new = call[c].v4, ![i].dns = call[c].dns]
  /\ Return(c)
  /\ UNCHANGED <<address, record, provider, emptied, served, late, bounds, history>>

MarkRetried(c) ==
  /\ call[c].pc = "mark"
  /\ rotation' = IF call[c].cancelled THEN rotation
                 ELSE [rotation EXCEPT ![call[c].row].dns = "completed"]
  /\ Return(c)
  /\ UNCHANGED <<address, record, provider, emptied, served, late, bounds, history>>

-----------------------------------------------------------------------------
(* Failures. *)

(* The client of a request goes away. *)
Cancel(c) ==
  /\ c \in Requests /\ call[c].pc # "free" /\ ~call[c].cancelled
  /\ failures < MaxFailures /\ failures' = failures + 1
  /\ Set(c, [call[c] EXCEPT !.cancelled = TRUE])
  /\ UNCHANGED <<address, rows, served, late, edits, history>>

(* The controller dies; requests it has sent may still arrive. *)
Crash ==
  /\ failures < MaxFailures /\ failures' = failures + 1
  /\ late' \in {late \union {[entry |-> call[c].item.entry, ip |-> call[c].ip] : c \in sent} :
                sent \in SUBSET {c \in Calls : call[c].pc = "send"}}
  /\ call' = [c \in Calls |-> NoCall]
  /\ UNCHANGED <<address, rows, served, edits, history>>

-----------------------------------------------------------------------------
(* Everything else that moves. *)

Edit == edits < MaxEdits /\ edits' = edits + 1

(* The record is no longer one that rotations so far were for. *)
Unsteady(r) ==
  rotation' = [i \in DOMAIN rotation |-> [rotation[i] EXCEPT !.steady = @ \ {r}]]

CreateRecord(r, link, sync) ==
  /\ record[r].row = "unused" /\ Edit
  /\ record' = [record EXCEPT ![r] = NewRecord(link, sync)]
  /\ linked' = linked \union {link}
  /\ UNCHANGED <<address, provider, emptied, rotation, served, late, call, failures, accepted, deleted>>

(* PATCH writes every column but those of the last synchronisation. *)
UpdateRecord(r, link, sync) ==
  /\ Live(r) /\ Edit
  /\ record' = [record EXCEPT ![r].machine = link[1], ![r].entry = link[2], ![r].sync = sync]
  /\ linked' = linked \union {link}
  /\ Unsteady(r)
  /\ UNCHANGED <<address, provider, emptied, served, late, call, failures, accepted, deleted>>

DeleteRecord(r) ==
  /\ Live(r) /\ Edit
  /\ record' = [record EXCEPT ![r].row = "deleted"]
  /\ Unsteady(r)
  /\ UNCHANGED <<address, provider, emptied, served, late, call, failures, history>>

(* A provider sync, a registration or a heartbeat writes the row. *)
Report(m, x) ==
  /\ x # address[m] /\ Edit
  /\ address' = [address EXCEPT ![m] = x]
  /\ UNCHANGED <<rows, served, late, call, failures, history>>

(* DELETE FROM machines leaves its records. *)
DeleteMachine(m) ==
  /\ address[m].exists /\ Edit
  /\ address' = [address EXCEPT ![m] = NoAddresses]
  /\ deleted' = deleted \union {m}
  /\ UNCHANGED <<rows, served, late, call, failures, accepted, linked>>

(* updateDNSProvider. *)
SetProvider(state) ==
  /\ provider # "deleted" /\ provider # state /\ Edit
  /\ provider' = state
  /\ UNCHANGED <<address, record, emptied, rotation, served, late, call, failures, history>>

(* deleteDNSProvider counts the records, then deletes, whoever adds one between. *)
CountForDelete ==
  /\ \A r \in Records : ~Live(r)
  /\ provider # "deleted" /\ ~emptied /\ Edit
  /\ emptied' = TRUE
  /\ UNCHANGED <<address, record, provider, rotation, served, late, call, failures, history>>

DeleteProvider ==
  /\ emptied
  /\ provider' = "deleted" /\ emptied' = FALSE
  /\ UNCHANGED <<address, record, rotation, served, late, call, bounds, history>>

-----------------------------------------------------------------------------

(* The next step of a synchronisation, and of what is done with its outcome. *)
CallStep(c) ==
  \/ ReadAddress(c) \/ SelectRecords(c) \/ NextRecord(c) \/ LookupProvider(c)
  \/ Send(c) \/ Store(c) \/ CountRecords(c) \/ FinishRotation(c) \/ MarkRetried(c)

ByHand(c) ==
  \/ \E r \in Records : BeginRecord(c, r)
  \/ \E m \in Machines : BeginMachine(c, m)
  \/ \E i \in DOMAIN rotation : BeginRetry(c, i)

Rotates(c) ==
  \E m \in Machines, ip \in V4 : Owner[ip] = m /\ BeginRotation(c, m, ip, FALSE)

EditRecord(r) ==
  \/ \E link \in Links, sync \in Sync : CreateRecord(r, link, sync) \/ UpdateRecord(r, link, sync)
  \/ DeleteRecord(r)

Next ==
  \/ \E c \in Calls : CallStep(c) \/ Rotates(c) \/ Cancel(c)
  \/ \E c \in Requests : ByHand(c)
  \/ \E q \in late : Arrive(q)
  \/ \E r \in Records : EditRecord(r)
  \/ \E m \in Machines : DeleteMachine(m) \/ \E x \in Reports[m] : Report(m, x)
  \/ \E state \in {"enabled", "disabled"} : SetProvider(state)
  \/ CountForDelete \/ DeleteProvider
  \/ Crash

Spec == Init /\ [][Next]_vars

(***************************************************************************)
(* Synchronisations go on: requests to the service have a timeout and the  *)
(* database answers.  What is on its way arrives some time.  Nobody has to *)
(* edit, rotate or synchronise anything.                                   *)
(***************************************************************************)
Fairness ==
  /\ \A c \in Calls : WF_vars(CallStep(c))
  /\ \A q \in Request : WF_vars(Arrive(q))

FairSpec == Spec /\ Fairness

-----------------------------------------------------------------------------

(* Every variable has its type. *)
DnsTypeOK ==
  /\ address \in [Machines -> Addresses]
  /\ record \in [Records -> Record]
  /\ provider \in {"enabled", "disabled", "deleted"} /\ emptied \in BOOLEAN
  /\ rotation \in Seq(Rotation)
  /\ served \in [Entries -> V4 \union V6 \union {NoIP}]
  /\ late \subseteq Request
  /\ call \in [Calls -> Call]
  /\ edits \in Nat /\ failures \in Nat
  /\ accepted \subseteq Records \X (V4 \union V6)
  /\ linked \subseteq Machines \X Entries
  /\ deleted \subseteq Machines

(***************************************************************************)
(* No entry is ever given the address of a machine it has nothing to do    *)
(* with, although a synchronisation copies the record at one time and      *)
(* reads the machine's address at another, and the record may be moved to  *)
(* another machine in between (dns.go:243-253, 276-297).                   *)
(***************************************************************************)
NoForeignAddress ==
  \A e \in Entries : served[e] # NoIP => <<Owner[served[e]], e>> \in linked

(***************************************************************************)
(* Entries hold addresses of their family, although the loop's variable    *)
(* starts with the IPv4 address and the error of reading the IPv6 address  *)
(* is ignored (dns.go:295).  The one exception the code leaves: a machine  *)
(* deleted before its AAAA records are synchronised has its IPv4 address   *)
(* sent for them.                                                          *)
(***************************************************************************)
FamilyRespected ==
  \A e \in Entries : served[e] # NoIP =>
    IF e \in V6Entries
    THEN served[e] \in V6 \/ Owner[served[e]] \in deleted
    ELSE served[e] \in V4

(***************************************************************************)
(* dns_sync_status 'completed' in the history of rotations means that the  *)
(* service has taken the new address for every record the rotation was for *)
(* and that has been left alone since: whether the rotation or a retry     *)
(* says so, whatever failed before, and though the rotation decides by a   *)
(* count of its own (rotation.go:144).                                     *)
(***************************************************************************)
CompletedMeansWritten ==
  \A i \in DOMAIN rotation : rotation[i].dns = "completed" =>
    \A r \in rotation[i].steady : <<r, rotation[i].target>> \in accepted

(***************************************************************************)
(* A record is shown as completed only with an address the service has     *)
(* taken for it; an UPDATE that was lost may leave an older one.           *)
(***************************************************************************)
CompletedWasAccepted ==
  \A r \in Records : record[r].status = "completed" => <<r, record[r].lastIP>> \in accepted

(* r is to be synchronised, can be, and shares its entry with no other. *)
Wanted(r) ==
  /\ Live(r) /\ record[r].sync # "off" /\ provider = "enabled"
  /\ AddressFor(record[r].machine, record[r].entry) # NoIP
  /\ \A q \in Records \ {r} : Live(q) => record[q].entry # record[r].entry

InStep(r) == served[record[r].entry] = AddressFor(record[r].machine, record[r].entry)

SyncedByHand(m) ==
  \E c \in Calls : call[c].pc = "select" /\ call[c].kind = "machine" /\ call[c].machine = m

(***************************************************************************)
(* The DNS service agrees with the machines' addresses in the end, however *)
(* synchronisations overlapped, failed or arrived late before: it is       *)
(* enough that somebody synchronises the machine again and again, and that *)
(* retries, which send the address of their rotation, come to an end.      *)
(***************************************************************************)
DnsConverges ==
  \A r \in Records :
    /\ <>[]Wanted(r)
    /\ []<>SyncedByHand(record[r].machine)
    /\ <>[][\A c \in Calls, i \in DOMAIN rotation : ~BeginRetry(c, i)]_vars
    => <>[]InStep(r)

=============================================================================
