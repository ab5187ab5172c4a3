------------------------------ MODULE DnsProofs ------------------------------
(* Theorems about DnsSync, for any number of machines, records, entries,     *)
(* addresses and synchronisations.                                           *)
EXTENDS DnsSync, SequenceTheorems, TLAPS

-----------------------------------------------------------------------------
(* The invariant: what each synchronisation and each row carries over from *)
(* the time it was read.                                                   *)

(* m has a row, or had one. *)
Known(m) == address[m].exists \/ m \in deleted

(* What FamilyRespected allows an entry to hold. *)
Good(e, ip) == IF e \in V6Entries THEN ip \in V6 \/ Owner[ip] \in deleted ELSE ip \in V4

(* What the service may be asked to write. *)
Right(e, ip) == ip \in V4 \union V6 /\ <<Owner[ip], e>> \in linked /\ Good(e, ip)

ServiceOK ==
  /\ \A e \in Entries : served[e] # NoIP => Right(e, served[e])
  /\ \A q \in late : Right(q.entry, q.ip)

AddressOK ==
  \A m \in Machines : /\ address[m].v4 # NoIP => Owner[address[m].v4] = m
                      /\ address[m].v6 # NoIP => Owner[address[m].v6] = m

RecordOK ==
  \A r \in Records : /\ Live(r) => <<record[r].machine, record[r].entry>> \in linked
                     /\ record[r].status = "completed" => <<r, record[r].lastIP>> \in accepted

(* A record that was left alone is still selected, and gets the IPv4 address. *)
RotationOK ==
  \A i \in DOMAIN rotation :
    LET row == rotation[i] IN
    /\ row.new \in {NoIP, row.target} /\ Owner[row.target] = row.machine /\ Known(row.machine)
    /\ \A r \in row.steady : /\ Live(r) /\ record[r].machine = row.machine
                             /\ record[r].sync = "auto" /\ record[r].entry \notin V6Entries
    /\ row.dns = "completed" => \A r \in row.steady : <<r, row.target>> \in accepted

(* The synchronisation x has still to write r, with the address it started with. *)
Pending(x, r) ==
  \/ \E y \in x.todo : y.id = r /\ y.entry \notin V6Entries
  \/ x.pc \in {"lookup", "send", "store"} /\ x.item.id = r /\ x.ip = x.v4

(* x has selected its records, and has not given up. *)
Selecting(x) ==
  \/ x.pc \in {"loop", "lookup", "send", "store", "count", "mark"}
  \/ x.pc = "finish" /\ x.dns = "completed"

(* x works for a row of rotations, and no record of it is forgotten. *)
RowFits(x) ==
  /\ x.row \in DOMAIN rotation
  /\ x.v4 = rotation[x.row].target /\ x.machine = rotation[x.row].machine
  /\ x.pc \in {"count", "mark", "finish"} => x.todo = {}
  /\ Selecting(x) =>
       \A r \in rotation[x.row].steady : <<r, x.v4>> \in accepted \/ Pending(x, r)

CallFits(x) ==
  /\ x.v4 # NoIP => Owner[x.v4] = x.machine
  /\ x.kind # "record" => Known(x.machine)
  /\ x.kind = "record" => x.pc \in {"free", "read", "lookup", "send", "store"}
  /\ x.pc = "read" => x.kind = "record"
  /\ x.pc \in {"count", "mark", "finish"} => x.kind \in {"rotation", "retry"}
  /\ \A y \in x.todo : <<x.machine, y.entry>> \in linked
  /\ x.pc \in {"read", "lookup", "send", "store"} => <<x.machine, x.item.entry>> \in linked
  /\ x.pc \in {"lookup", "send", "store"} =>
       /\ x.ip \in V4 \union V6 /\ Owner[x.ip] = x.machine
       /\ Good(x.item.entry, x.ip) \/ (x.pc = "lookup" /\ x.cancelled)
  /\ x.pc = "store" /\ x.ok => <<x.item.id, x.ip>> \in accepted
  /\ x.kind \in {"rotation", "retry"} => RowFits(x)

CallsOK == \A c \in Calls : CallFits(call[c])

DnsInv == DnsTypeOK /\ ServiceOK /\ AddressOK /\ RecordOK /\ RotationOK /\ CallsOK

(* What a step adds to all that synchronisations rely on. *)
Grows ==
  /\ linked \subseteq linked' /\ deleted \subseteq deleted' /\ accepted \subseteq accepted'
  /\ \A m \in Machines : Known(m) => Known(m)'
  /\ \A i \in DOMAIN rotation :
       /\ i \in DOMAIN rotation'
       /\ rotation'[i].target = rotation[i].target /\ rotation'[i].machine = rotation[i].machine
       /\ rotation'[i].steady \subseteq rotation[i].steady

-----------------------------------------------------------------------------

LEMMA DnsValues ==
  /\ NoCall \in Call /\ NoRecord \in Record /\ NoAddresses \in Addresses
  /\ \A link \in Links, sync \in Sync : NewRecord(link, sync) \in Record
<1>1. /\ (CHOOSE m \in Machines : TRUE) \in Machines
      /\ (CHOOSE e \in Entries : TRUE) \in Entries
      /\ (CHOOSE r \in Records : TRUE) \in Records
  BY DnsConstants
<1>2. NoRecord \in Record
  BY <1>1 DEF NoRecord, Record, Sync
<1>3. NoCall \in Call
  BY <1>1 DEF NoCall, Call, NoRecord, Item, DnsStatus
<1>4. NoAddresses \in Addresses
  BY DEF NoAddresses, Addresses
<1>5. ASSUME NEW link \in Links, NEW sync \in Sync PROVE NewRecord(link, sync) \in Record
  <2>1. link[1] \in Machines /\ link[2] \in Entries
    BY DnsConstants
  <2> QED BY <1>2, <2>1 DEF NewRecord, Record
<1> QED BY <1>2, <1>3, <1>4, <1>5

LEMMA CallTypes ==
  ASSUME DnsTypeOK, NEW c \in Calls
  PROVE  /\ call[c] \in Call
         /\ call[c].machine \in Machines /\ call[c].v4 \in V4 \union {NoIP}
         /\ call[c].todo \subseteq Item /\ call[c].item \in Item
         /\ call[c].item.id \in Records /\ call[c].item.entry \in Entries
         /\ call[c].ip \in V4 \union V6 \union {NoIP} /\ call[c].row \in Nat
         /\ call[c].dns \in DnsStatus
<1>1. call[c] \in Call
  BY DEF DnsTypeOK
<1>2. call[c].item \in Item
  BY <1>1 DEF Call
<1> QED BY <1>1, <1>2 DEF Call, Item

LEMMA RowTypes ==
  ASSUME DnsTypeOK
  PROVE  /\ \A m \in Machines : /\ address[m] \in Addresses
                                /\ address[m].v4 \in V4 \union {NoIP}
                                /\ address[m].v6 \in V6 \union {NoIP}
         /\ \A r \in Records : /\ record[r] \in Record
                               /\ record[r].machine \in Machines /\ record[r].entry \in Entries
         /\ \A i \in DOMAIN rotation : /\ rotation[i] \in Rotation
                                       /\ rotation[i].machine \in Machines
                                       /\ rotation[i].target \in V4
                                       /\ rotation[i].new \in V4 \union {NoIP}
                                       /\ rotation[i].steady \subseteq Records
         /\ Len(rotation) \in Nat /\ DOMAIN rotation = 1 .. Len(rotation)
         /\ rotation \in [1 .. Len(rotation) -> Rotation]
<1>1. \A m \in Machines : address[m] \in Addresses
  BY DEF DnsTypeOK
<1>2. \A r \in Records : record[r] \in Record
  BY DEF DnsTypeOK
<1>3. /\ Len(rotation) \in Nat /\ DOMAIN rotation = 1 .. Len(rotation)
      /\ rotation \in [1 .. Len(rotation) -> Rotation]
  BY LenProperties DEF DnsTypeOK
<1>4. \A i \in DOMAIN rotation : rotation[i] \in Rotation
  BY <1>3
<1> QED BY <1>1, <1>2, <1>3, <1>4 DEF Addresses, Record, Rotation

LEMMA ItemTypes ==
  ASSUME DnsTypeOK, NEW r \in Records
  PROVE  ItemOf(r) \in Item /\ ItemOf(r).id = r /\ ItemOf(r).entry = record[r].entry
BY RowTypes DEF ItemOf, Item

(* What holds of a synchronisation holds on as long as it does not move. *)
LEMMA StaysFit ==
  ASSUME DnsTypeOK, Grows, NEW c \in Calls, NEW x \in Call, call'[c] = x, CallFits(x)
  PROVE  CallFits(call[c])'
<1>1. x.machine \in Machines
  BY DEF Call
<1>2. x.kind # "record" => Known(x.machine)'
  BY <1>1 DEF CallFits, Grows
<1>3. x.kind \in {"rotation", "retry"} => RowFits(call[c])'
  BY DEF CallFits, RowFits, Grows, Selecting, Pending
<1>4. \A e, ip : Good(e, ip) => Good(e, ip)'
  BY DEF Good, Grows
<1> QED BY <1>2, <1>3, <1>4 DEF CallFits, Grows, Known, Good

LEMMA NothingCallFits == CallFits(NoCall)
BY DEF CallFits, NoCall

(* A step in which one synchronisation moves, and nothing else. *)
LEMMA OnlyCallMoves ==
  ASSUME DnsInv, NEW c \in Calls, NEW x \in Call, CallFits(x), call' = [call EXCEPT ![c] = x],
         UNCHANGED <<address, record, provider, emptied, rotation, served, late, edits,
                     accepted, linked, deleted>>,
         failures' \in Nat
  PROVE  DnsInv'
<1>1. Grows
  BY DEF Grows, Known
<1>2. CallsOK'
  <2>1. CallFits(call[c])'
    BY <1>1, StaysFit DEF DnsInv, DnsTypeOK
  <2>2. ASSUME NEW d \in Calls, d # c PROVE CallFits(call[d])'
    BY <1>1, <2>2, StaysFit DEF DnsInv, DnsTypeOK, CallsOK
  <2> QED BY <2>1, <2>2 DEF CallsOK
<1>3. DnsTypeOK'
  BY DEF DnsInv, DnsTypeOK
<1>4. (ServiceOK /\ AddressOK /\ RecordOK /\ RotationOK)'
  BY DEF DnsInv, ServiceOK, Right, Good, AddressOK, RecordOK, RotationOK, Live, Known
<1> QED BY <1>2, <1>3, <1>4 DEF DnsInv

-----------------------------------------------------------------------------
(* Synchronisations begin.                                                 *)

LEMMA BeginRecordKeeps ==
  ASSUME DnsInv, NEW c \in Calls, NEW r \in Records, BeginRecord(c, r)
  PROVE  DnsInv'
<1> DEFINE x == [Begin(c, "record", record[r].machine, "read") EXCEPT !.item = ItemOf(r)]
<1>1. Live(r) /\ call' = [call EXCEPT ![c] = x]
  BY DEF BeginRecord, Set
<1>2. x \in Call
  <2>1. ItemOf(r) \in Item /\ record[r].machine \in Machines
    BY ItemTypes, RowTypes DEF DnsInv
  <2> QED BY <2>1, DnsValues DEF Begin, Call
<1>3. /\ x.pc = "read" /\ x.kind = "record" /\ x.machine = record[r].machine
      /\ x.item = ItemOf(r) /\ x.v4 = NoIP /\ x.todo = {}
  BY DEF Begin, NoCall
<1>4. CallFits(x)
  <2> HIDE DEF x
  <2>1. <<x.machine, x.item.entry>> \in linked
    BY <1>1, <1>3, ItemTypes DEF DnsInv, RecordOK
  <2> QED BY <1>3, <2>1 DEF CallFits
<1> HIDE DEF x
<1> QED BY <1>1, <1>2, <1>4, OnlyCallMoves DEF BeginRecord, rows, bounds, history, DnsInv, DnsTypeOK

LEMMA BeginMachineKeeps ==
  ASSUME DnsInv, NEW c \in Calls, NEW m \in Machines, BeginMachine(c, m)
  PROVE  DnsInv'
<1> DEFINE x == [Begin(c, "machine", m, "select") EXCEPT !.v4 = address[m].v4]
<1>1. address[m].exists /\ call' = [call EXCEPT ![c] = x]
  BY DEF BeginMachine, Set
<1>2. x \in Call
  BY RowTypes, DnsValues DEF DnsInv, Begin, Call
<1>3. /\ x.pc = "select" /\ x.kind = "machine" /\ x.machine = m /\ x.v4 = address[m].v4
      /\ x.todo = {}
  BY DEF Begin, NoCall
<1> HIDE DEF x
<1>4. CallFits(x)
  BY <1>1, <1>3 DEF CallFits, Known, DnsInv, AddressOK
<1> QED BY <1>1, <1>2, <1>4, OnlyCallMoves DEF BeginMachine, rows, bounds, history, DnsInv, DnsTypeOK

LEMMA BeginRetryKeeps ==
  ASSUME DnsInv, NEW c \in Calls, NEW i \in DOMAIN rotation, BeginRetry(c, i)
  PROVE  DnsInv'
<1> DEFINE x == [Begin(c, "retry", rotation[i].machine, "select") EXCEPT
                   !.v4 = rotation[i].new, !.row = i]
<1>1. rotation[i].new # NoIP /\ call' = [call EXCEPT ![c] = x]
  BY DEF BeginRetry, Set
<1>2. x \in Call
  <2>1. i \in Nat /\ rotation[i].machine \in Machines /\ rotation[i].new \in V4 \union {NoIP}
    BY RowTypes DEF DnsInv
  <2> QED BY <2>1, DnsValues DEF Begin, Call
<1>3. /\ x.pc = "select" /\ x.kind = "retry" /\ x.machine = rotation[i].machine
      /\ x.v4 = rotation[i].new /\ x.row = i /\ x.todo = {}
  BY DEF Begin, NoCall
<1> HIDE DEF x
<1>4. CallFits(x)
  BY <1>1, <1>3 DEF CallFits, RowFits, Selecting, DnsInv, RotationOK
<1> QED BY <1>1, <1>2, <1>4, OnlyCallMoves DEF BeginRetry, rows, bounds, history, DnsInv, DnsTypeOK

-----------------------------------------------------------------------------
(* ...and go on.                                                           *)

LEMMA ReadAddressKeeps ==
  ASSUME DnsInv, NEW c \in Calls, ReadAddress(c)
  PROVE  DnsInv'
<1> DEFINE m == call[c].machine
           e == call[c].item.entry
           ip == AddressFor(m, e)
           x == [call[c] EXCEPT !.pc = "lookup", !.ip = ip]
<1>0. call[c] \in Call /\ m \in Machines /\ CallFits(call[c]) /\ call[c].pc = "read"
  BY CallTypes DEF DnsInv, CallsOK, ReadAddress
<1>1. \/ call' = [call EXCEPT ![c] = NoCall]
      \/ address[m].exists /\ ip # NoIP /\ call' = [call EXCEPT ![c] = x]
  BY DEF ReadAddress, Return, Set
<1>2. UNCHANGED <<address, record, provider, emptied, rotation, served, late, edits,
                  accepted, linked, deleted>> /\ failures' \in Nat
  BY DEF ReadAddress, rows, bounds, history, DnsInv, DnsTypeOK
<1>3. CASE call' = [call EXCEPT ![c] = NoCall]
  BY <1>2, <1>3, OnlyCallMoves, DnsValues, NothingCallFits
<1>4. CASE ip # NoIP /\ call' = [call EXCEPT ![c] = x]
  <2>1. /\ ip \in V4 \union V6 /\ Owner[ip] = m /\ Good(e, ip)
    BY <1>0, <1>4, RowTypes DEF AddressFor, Good, DnsInv, AddressOK
  <2>2. /\ x.pc = "lookup" /\ x.ip = ip
        /\ x.machine = m /\ x.v4 = call[c].v4 /\ x.kind = call[c].kind /\ x.todo = call[c].todo
        /\ x.item = call[c].item
    BY <1>0 DEF Call
  <2>3. x \in Call
    <3> HIDE DEF ip
    <3> QED BY <1>0, <2>1 DEF Call
  <2>4. call[c].kind = "record"
    BY <1>0 DEF CallFits, Call
  <2> HIDE DEF x, ip, e, m
  <2>5. CallFits(x)
    BY <1>0, <2>1, <2>2, <2>4 DEF CallFits, m, e
  <2> QED BY <1>2, <1>4, <2>3, <2>5, OnlyCallMoves
<1> QED BY <1>1, <1>3, <1>4

LEMMA Stepping ==
  ASSUME DnsInv, NEW c \in Calls,
         UNCHANGED <<address, rows, served, late, bounds, history>>
  PROVE  /\ UNCHANGED <<address, record, provider, emptied, rotation, served, late, edits,
                        accepted, linked, deleted>>
         /\ failures' \in Nat
         /\ call[c] \in Call /\ CallFits(call[c])
BY CallTypes DEF DnsInv, DnsTypeOK, CallsOK, rows, bounds, history

(* A synchronisation gives up: it ends, or its rotation stores that it failed. *)
LEMMA FailFits ==
  ASSUME DnsInv, NEW c \in Calls, Fail(c)
  PROVE  \E x \in Call : CallFits(x) /\ call' = [call EXCEPT ![c] = x]
<1> DEFINE x == [Between(c, "finish") EXCEPT !.todo = {}, !.dns = "failed"]
<1>0. call[c] \in Call /\ CallFits(call[c])
  BY CallTypes DEF DnsInv, CallsOK
<1>1. CASE call[c].kind = "rotation"
  <2>1. call' = [call EXCEPT ![c] = x]
    BY <1>1 DEF Fail, Set
  <2>2. x \in Call
    <3>1. Between(c, "finish") \in Call
      BY <1>0, DnsValues DEF Between, Call
    <3>2. "failed" \in DnsStatus
      BY DEF DnsStatus
    <3> QED BY <3>1, <3>2 DEF Call
  <2>3. /\ x.pc = "finish" /\ x.todo = {} /\ x.dns = "failed"
        /\ x.kind = "rotation" /\ x.machine = call[c].machine /\ x.v4 = call[c].v4
        /\ x.row = call[c].row
    BY <1>0, <1>1 DEF Between, Call
  <2> HIDE DEF x
  <2>4. CallFits(x)
    BY <1>0, <1>1, <2>3 DEF CallFits, RowFits, Selecting
  <2> QED BY <2>1, <2>2, <2>4
<1>2. CASE call[c].kind # "rotation"
  BY <1>2, DnsValues, NothingCallFits DEF Fail, Return, Set
<1> QED BY <1>1, <1>2

LEMMA SelectKeeps ==
  ASSUME DnsInv, NEW c \in Calls, SelectRecords(c)
  PROVE  DnsInv'
<1> DEFINE todo == {ItemOf(r) : r \in Selected(call[c].machine, call[c].kind)}
           x == [call[c] EXCEPT !.pc = "loop", !.todo = todo]
<1>0. call[c] \in Call /\ CallFits(call[c]) /\ call[c].pc = "select"
  BY CallTypes DEF DnsInv, CallsOK, SelectRecords
<1>1. UNCHANGED <<address, rows, served, late, bounds, history>>
  BY DEF SelectRecords
<1>2. CASE Fail(c)
  BY <1>1, <1>2, FailFits, Stepping, OnlyCallMoves
<1>3. CASE call' = [call EXCEPT ![c] = x]
  <2>1. \A r \in Selected(call[c].machine, call[c].kind) :
          /\ r \in Records /\ Live(r) /\ record[r].machine = call[c].machine
          /\ ItemOf(r) \in Item /\ ItemOf(r).id = r /\ ItemOf(r).entry = record[r].entry
    BY ItemTypes DEF Selected, DnsInv
  <2>2. todo \subseteq Item /\ \A y \in todo : <<call[c].machine, y.entry>> \in linked
    <3>1. \A r \in Selected(call[c].machine, call[c].kind) :
            ItemOf(r) \in Item /\ <<call[c].machine, ItemOf(r).entry>> \in linked
      BY <2>1 DEF DnsInv, RecordOK
    <3> QED BY <3>1
  <2>3. x \in Call
    <3> HIDE DEF todo
    <3> QED BY <1>0, <2>2 DEF Call
  <2>4. /\ x.pc = "loop" /\ x.todo = todo
        /\ x.machine = call[c].machine /\ x.v4 = call[c].v4 /\ x.kind = call[c].kind
        /\ x.row = call[c].row
    BY <1>0 DEF Call
  <2>5. x.kind # "record"
    BY <1>0, <2>4 DEF CallFits
  <2>6. ASSUME x.kind \in {"rotation", "retry"} PROVE RowFits(x)
    <3>1. x.row \in DOMAIN rotation /\ x.v4 = rotation[x.row].target
          /\ x.machine = rotation[x.row].machine
      BY <1>0, <2>4, <2>6 DEF CallFits, RowFits
    <3>2. ASSUME NEW r \in rotation[x.row].steady PROVE Pending(x, r)
      <4>1. r \in Records /\ Live(r) /\ record[r].machine = x.machine
            /\ record[r].sync = "auto" /\ record[r].entry \notin V6Entries
        BY <3>1, RowTypes DEF DnsInv, RotationOK
      <4>2. r \in Selected(call[c].machine, call[c].kind)
        BY <2>4, <4>1 DEF Selected
      <4>3. ItemOf(r) \in x.todo /\ ItemOf(r).id = r /\ ItemOf(r).entry = record[r].entry
        BY <2>1, <2>4, <4>2
      <4> QED BY <4>1, <4>3 DEF Pending
    <3> QED BY <2>4, <3>1, <3>2 DEF RowFits
  <2> HIDE DEF x, todo
  <2>7. CallFits(x)
    BY <1>0, <2>2, <2>4, <2>5, <2>6 DEF CallFits
  <2> QED BY <1>1, <1>3, <2>3, <2>7, Stepping, OnlyCallMoves
<1> QED BY <1>2, <1>3 DEF SelectRecords, Set

LEMMA LookupKeeps ==
  ASSUME DnsInv, NEW c \in Calls, LookupProvider(c)
  PROVE  DnsInv'
<1> DEFINE x == [call[c] EXCEPT !.pc = "send"]
<1>0. call[c] \in Call /\ CallFits(call[c]) /\ call[c].pc = "lookup"
  BY CallTypes DEF DnsInv, CallsOK, LookupProvider
<1>1. UNCHANGED <<address, rows, served, late, bounds, history>>
  BY DEF LookupProvider
<1>2. CASE Fail(c)
  BY <1>1, <1>2, FailFits, Stepping, OnlyCallMoves
<1>3. CASE ~call[c].cancelled /\ call' = [call EXCEPT ![c] = x]
  <2>1. x \in Call
    BY <1>0 DEF Call
  <2>2. /\ x.pc = "send" /\ x.machine = call[c].machine /\ x.v4 = call[c].v4
        /\ x.kind = call[c].kind /\ x.todo = call[c].todo /\ x.item = call[c].item
        /\ x.ip = call[c].ip /\ x.row = call[c].row
    BY <1>0 DEF Call
  <2> HIDE DEF x
  <2>3. x.kind \in {"rotation", "retry"} => RowFits(x)
    BY <1>0, <2>2 DEF CallFits, RowFits, Selecting, Pending
  <2>4. CallFits(x)
    BY <1>0, <1>3, <2>2, <2>3 DEF CallFits
  <2> QED BY <1>1, <1>3, <2>1, <2>4, Stepping, OnlyCallMoves
<1> QED BY <1>2, <1>3 DEF LookupProvider, Goto, Set

LEMMA CancelKeeps ==
  ASSUME DnsInv, NEW c \in Calls, Cancel(c)
  PROVE  DnsInv'
<1> DEFINE x == [call[c] EXCEPT !.cancelled = TRUE]
<1>0. call[c] \in Call /\ CallFits(call[c]) /\ call' = [call EXCEPT ![c] = x]
  BY CallTypes DEF DnsInv, CallsOK, Cancel, Set
<1>1. x \in Call
  BY <1>0 DEF Call
<1>2. /\ x.pc = call[c].pc /\ x.machine = call[c].machine /\ x.v4 = call[c].v4
      /\ x.kind = call[c].kind /\ x.todo = call[c].todo /\ x.item = call[c].item
      /\ x.ip = call[c].ip /\ x.row = call[c].row /\ x.ok = call[c].ok /\ x.dns = call[c].dns
      /\ x.cancelled
  BY <1>0 DEF Call
<1>3. UNCHANGED <<address, record, provider, emptied, rotation, served, late, edits,
                  accepted, linked, deleted>> /\ failures' \in Nat
  BY DEF Cancel, rows, history, DnsInv, DnsTypeOK
<1> HIDE DEF x
<1>4. x.kind \in {"rotation", "retry"} => RowFits(x)
  BY <1>0, <1>2 DEF CallFits, RowFits, Selecting, Pending
<1>5. CallFits(x)
  BY <1>0, <1>2, <1>4 DEF CallFits
<1> QED BY <1>0, <1>1, <1>3, <1>5, OnlyCallMoves

LEMMA CountKeeps ==
  ASSUME DnsInv, NEW c \in Calls, CountRecords(c)
  PROVE  DnsInv'
<1> DEFINE dns == IF ~call[c].cancelled /\ Selected(call[c].machine, "rotation") # {}
                  THEN "completed" ELSE "disabled"
           x == [call[c] EXCEPT !.pc = "finish", !.dns = dns]
<1>0. call[c] \in Call /\ CallFits(call[c]) /\ call[c].pc = "count"
      /\ call' = [call EXCEPT ![c] = x]
  BY CallTypes DEF DnsInv, CallsOK, CountRecords, Set
<1>1. UNCHANGED <<address, rows, served, late, bounds, history>>
  BY DEF CountRecords
<1>2. dns \in DnsStatus
  BY DEF DnsStatus
<1> HIDE DEF dns
<1>3. x \in Call
  BY <1>0, <1>2 DEF Call
<1>4. /\ x.pc = "finish" /\ x.machine = call[c].machine /\ x.v4 = call[c].v4
      /\ x.kind = call[c].kind /\ x.todo = call[c].todo /\ x.row = call[c].row
  BY <1>0 DEF Call
<1> HIDE DEF x
<1>5. x.kind \in {"rotation", "retry"}
  BY <1>0, <1>4 DEF CallFits
<1>6. RowFits(x)
  BY <1>0, <1>4, <1>5 DEF CallFits, RowFits, Selecting, Pending
<1>7. CallFits(x)
  BY <1>0, <1>4, <1>5, <1>6 DEF CallFits
<1> QED BY <1>0, <1>1, <1>3, <1>7, Stepping, OnlyCallMoves

LEMMA NextRecordKeeps ==
  ASSUME DnsInv, NEW c \in Calls, NextRecord(c)
  PROVE  DnsInv'
<1>0. call[c] \in Call /\ CallFits(call[c]) /\ call[c].pc = "loop" /\ call[c].kind # "record"
  BY CallTypes DEF DnsInv, CallsOK, NextRecord, CallFits
<1>1. UNCHANGED <<address, rows, served, late, bounds, history>>
  BY DEF NextRecord
<1>2. CASE call[c].todo = {} /\ Succeed(c)
  <2>1. CASE call' = [call EXCEPT ![c] = NoCall]
    BY <1>1, <2>1, DnsValues, NothingCallFits, Stepping, OnlyCallMoves
  <2>2. ASSUME NEW pc \in {"count", "mark"}, call[c].kind \in {"rotation", "retry"},
               call' = [call EXCEPT ![c] = [call[c] EXCEPT !.pc = pc]]
        PROVE  DnsInv'
    <3> DEFINE x == [call[c] EXCEPT !.pc = pc]
    <3>1. x \in Call
      BY <1>0 DEF Call
    <3>2. /\ x.pc = pc /\ x.machine = call[c].machine /\ x.v4 = call[c].v4
          /\ x.kind = call[c].kind /\ x.todo = {} /\ x.row = call[c].row
      BY <1>0, <1>2 DEF Call
    <3> HIDE DEF x
    <3>3. RowFits(x)
      BY <1>0, <1>2, <2>2, <3>2 DEF CallFits, RowFits, Selecting, Pending
    <3>4. CallFits(x)
      BY <1>0, <2>2, <3>2, <3>3 DEF CallFits
    <3> QED BY <1>1, <2>2, <3>1, <3>4, Stepping, OnlyCallMoves DEF x
  <2> QED BY <1>2, <2>1, <2>2 DEF Succeed, Goto, Return, Set
<1>3. ASSUME NEW y \in call[c].todo,
             call' = [call EXCEPT ![c] =
               IF LoopAddress(c, y) = NoIP THEN [call[c] EXCEPT !.todo = @ \ {y}]
               ELSE [call[c] EXCEPT !.todo = @ \ {y}, !.item = y, !.ip = LoopAddress(c, y),
                                    !.pc = "lookup"]]
      PROVE  DnsInv'
  <2> DEFINE ip == LoopAddress(c, y)
             m == call[c].machine
             x1 == [call[c] EXCEPT !.todo = @ \ {y}]
             x2 == [call[c] EXCEPT !.todo = @ \ {y}, !.item = y, !.ip = ip, !.pc = "lookup"]
  <2>0. /\ y \in Item /\ y.id \in Records /\ y.entry \in Entries /\ m \in Machines
        /\ call[c].v4 \in V4 \union {NoIP}
        /\ <<m, y.entry>> \in linked /\ Known(m)
    BY <1>0, <1>3, CallTypes DEF CallFits, Call, Item, DnsInv
  <2>1. /\ ip \in V4 \union V6 \union {NoIP}
        /\ y.entry \notin V6Entries => ip = call[c].v4
        /\ ip # NoIP => Owner[ip] = m /\ (Good(y.entry, ip) \/ call[c].cancelled)
    BY <1>0, <2>0, RowTypes DEF LoopAddress, Good, Known, CallFits, DnsInv, AddressOK
  <2>2. call[c].kind \in {"rotation", "retry"} =>
          /\ call[c].row \in DOMAIN rotation
          /\ call[c].v4 = rotation[call[c].row].target /\ call[c].v4 # NoIP
          /\ m = rotation[call[c].row].machine
          /\ \A r \in rotation[call[c].row].steady :
               \/ <<r, call[c].v4>> \in accepted
               \/ \E z \in call[c].todo : z.id = r /\ z.entry \notin V6Entries
    BY <1>0, RowTypes, DnsConstants DEF CallFits, RowFits, Selecting, Pending, DnsInv
  <2>3. CASE ip = NoIP
    <3>1. x1 \in Call
      BY <1>0 DEF Call
    <3>2. /\ x1.pc = "loop" /\ x1.machine = m /\ x1.v4 = call[c].v4
          /\ x1.kind = call[c].kind /\ x1.todo = call[c].todo \ {y} /\ x1.row = call[c].row
      BY <1>0 DEF Call
    <3> HIDE DEF x1, ip
    <3>3. x1.kind \in {"rotation", "retry"} => RowFits(x1)
      BY <2>1, <2>2, <2>3, <3>2 DEF RowFits, Selecting, Pending
    <3>4. CallFits(x1)
      BY <1>0, <3>2, <3>3 DEF CallFits
    <3>5. call' = [call EXCEPT ![c] = x1]
      BY <1>3, <2>3 DEF x1, ip
    <3> QED BY <1>1, <3>1, <3>4, <3>5, Stepping, OnlyCallMoves
  <2>4. CASE ip # NoIP
    <3>0. call' = [call EXCEPT ![c] = x2]
      BY <1>3, <2>4
    <3> HIDE DEF ip
    <3>1. x2 \in Call
      BY <1>0, <2>0, <2>1 DEF Call
    <3>2. /\ x2.pc = "lookup" /\ x2.machine = m /\ x2.v4 = call[c].v4
          /\ x2.kind = call[c].kind /\ x2.todo = call[c].todo \ {y} /\ x2.row = call[c].row
          /\ x2.item = y /\ x2.ip = ip /\ x2.cancelled = call[c].cancelled
      BY <1>0 DEF Call
    <3> HIDE DEF x2
    <3>3. x2.kind \in {"rotation", "retry"} => RowFits(x2)
      BY <2>1, <2>2, <3>2 DEF RowFits, Selecting, Pending
    <3>4. CallFits(x2)
      BY <1>0, <2>0, <2>1, <2>4, <3>2, <3>3 DEF CallFits
    <3> QED BY <1>1, <3>0, <3>1, <3>4, Stepping, OnlyCallMoves
  <2> QED BY <2>3, <2>4
<1> QED BY <1>2, <1>3 DEF NextRecord, Set

-----------------------------------------------------------------------------
(* Steps that change what synchronisations rely on.                        *)

(* A step that changes no synchronisation but c, which has x to go on with. *)
LEMMA OtherCallsStay ==
  ASSUME DnsInv, Grows, NEW c \in Calls, NEW x \in Call, CallFits(x),
         call' = [call EXCEPT ![c] = x]
  PROVE  CallsOK' /\ call' \in [Calls -> Call]
<1>1. call \in [Calls -> Call] /\ DnsTypeOK
  BY DEF DnsInv, DnsTypeOK
<1>2. call'[c] = x /\ \A d \in Calls \ {c} : call'[d] = call[d]
  BY <1>1
<1>3. CallFits(call[c])'
  BY <1>1, <1>2, StaysFit
<1>4. ASSUME NEW d \in Calls, d # c PROVE CallFits(call[d])'
  BY <1>1, <1>2, <1>4, StaysFit DEF DnsInv, CallsOK
<1> QED BY <1>1, <1>3, <1>4 DEF CallsOK

LEMMA CallsStay ==
  ASSUME DnsInv, Grows, UNCHANGED call
  PROVE  CallsOK' /\ call' \in [Calls -> Call]
<1>1. call \in [Calls -> Call] /\ DnsTypeOK
  BY DEF DnsInv, DnsTypeOK
<1>2. ASSUME NEW d \in Calls PROVE CallFits(call[d])'
  BY <1>1, <1>2, StaysFit DEF DnsInv, CallsOK
<1> QED BY <1>1, <1>2 DEF CallsOK

LEMMA RightStays ==
  ASSUME Grows, NEW e, NEW ip, Right(e, ip)
  PROVE  Right(e, ip)'
BY DEF Right, Good, Grows

LEMMA ServiceStays ==
  ASSUME DnsInv, Grows, UNCHANGED served, late' \subseteq late
  PROVE  ServiceOK'
<1>1. \A e \in Entries : served[e] # NoIP => Right(e, served[e])'
  BY RightStays DEF DnsInv, ServiceOK
<1>2. \A q \in late : Right(q.entry, q.ip)'
  BY RightStays DEF DnsInv, ServiceOK
<1> QED BY <1>1, <1>2 DEF ServiceOK, Right, Good

(* Rows of rotations stay right when their records do. *)
LEMMA RotationStays ==
  ASSUME DnsInv, Grows, UNCHANGED rotation,
         \A r \in Records : \/ record'[r] = record[r]
                            \/ \A i \in DOMAIN rotation : r \notin rotation[i].steady
                            \/ /\ Live(r) = Live(r)' /\ record'[r].machine = record[r].machine
                               /\ record'[r].sync = record[r].sync
                               /\ record'[r].entry = record[r].entry
  PROVE  RotationOK'
<1>1. ASSUME NEW i \in DOMAIN rotation, NEW r \in rotation[i].steady
      PROVE  /\ Live(r)' /\ record'[r].machine = rotation[i].machine
             /\ record'[r].sync = "auto" /\ record'[r].entry \notin V6Entries
  <2>1. r \in Records
    BY RowTypes DEF DnsInv
  <2> QED BY <2>1 DEF DnsInv, RotationOK, Live
<1>2. \A i \in DOMAIN rotation : Known(rotation[i].machine)'
  BY RowTypes DEF DnsInv, RotationOK, Grows
<1> QED BY <1>1, <1>2 DEF DnsInv, RotationOK, Grows, Live, Known

LEMMA SendKeeps ==
  ASSUME DnsInv, NEW c \in Calls, Send(c)
  PROVE  DnsInv'
<1> DEFINE e == call[c].item.entry
           ip == call[c].ip
           x(ok) == [call[c] EXCEPT !.pc = "store", !.ok = ok]
<1>0. /\ call[c] \in Call /\ CallFits(call[c]) /\ call[c].pc = "send" /\ DnsTypeOK
      /\ e \in Entries /\ call[c].item.id \in Records
  BY CallTypes DEF DnsInv, CallsOK, Send
<1>1. Right(e, ip) /\ ip \in V4 \union V6
  BY <1>0 DEF CallFits, Right
<1>2. UNCHANGED <<address, record, provider, emptied, rotation, edits, linked, deleted>>
  BY DEF Send, rows
<1>3. accepted \subseteq accepted'
  BY DEF Send
<1>4. Grows
  BY <1>2, <1>3 DEF Grows, Known
<1>5. ASSUME NEW ok \in BOOLEAN
      PROVE  /\ x(ok) \in Call /\ x(ok).pc = "store" /\ x(ok).ok = ok
             /\ x(ok).machine = call[c].machine /\ x(ok).v4 = call[c].v4
             /\ x(ok).kind = call[c].kind /\ x(ok).todo = call[c].todo
             /\ x(ok).item = call[c].item /\ x(ok).ip = ip /\ x(ok).row = call[c].row
             /\ x(ok).cancelled = call[c].cancelled
  BY <1>0 DEF Call
<1>6. (AddressOK /\ RecordOK /\ RotationOK)'
  <2>1. RotationOK'
    BY <1>2, <1>4, RotationStays
  <2>2. (AddressOK /\ RecordOK)'
    BY <1>2, <1>3 DEF DnsInv, AddressOK, RecordOK, Live
  <2> QED BY <2>1, <2>2
<1>7. ASSUME NEW ok \in BOOLEAN, call' = [call EXCEPT ![c] = x(ok)],
             ok => <<call[c].item.id, ip>> \in accepted'
      PROVE  CallsOK' /\ call' \in [Calls -> Call]
  <2> DEFINE y == x(ok)
  <2>0. call \in [Calls -> Call]
    BY <1>0 DEF DnsTypeOK
  <2>1. /\ y \in Call /\ y.pc = "store" /\ y.ok = ok
        /\ y.machine = call[c].machine /\ y.v4 = call[c].v4
        /\ y.kind = call[c].kind /\ y.todo = call[c].todo
        /\ y.item = call[c].item /\ y.ip = ip /\ y.row = call[c].row
    BY <1>5
  <2>2. call' = [call EXCEPT ![c] = y]
    BY <1>7
  <2> HIDE DEF y, x
  <2>3. call'[c] = y /\ \A d \in Calls \ {c} : call'[d] = call[d]
    BY <2>0, <2>2
  <2>4. y.kind \in {"rotation", "retry"} => RowFits(call[c])'
    BY <1>0, <1>2, <1>3, <2>1, <2>3 DEF CallFits, RowFits, Selecting, Pending, ip
  <2>5. CallFits(call[c])'
    BY <1>0, <1>1, <1>2, <1>3, <1>7, <2>1, <2>3, <2>4 DEF CallFits, Known, Right, Good, e, ip
  <2>6. ASSUME NEW d \in Calls, d # c PROVE CallFits(call[d])'
    BY <1>0, <1>4, <2>0, <2>3, <2>6, StaysFit DEF DnsInv, CallsOK
  <2> QED BY <2>0, <2>1, <2>2, <2>5, <2>6 DEF CallsOK
<1>8. CASE /\ served' = [served EXCEPT ![e] = ip]
           /\ accepted' = accepted \union {<<call[c].item.id, ip>>}
           /\ call' = [call EXCEPT ![c] = x(TRUE)]
           /\ UNCHANGED <<late, failures>>
  <2>1. CallsOK' /\ call' \in [Calls -> Call]
    BY <1>7, <1>8
  <2>2. DnsTypeOK'
    BY <1>0, <1>1, <1>2, <1>8, <2>1 DEF DnsTypeOK
  <2>3. ServiceOK'
    BY <1>0, <1>1, <1>2, <1>8 DEF DnsInv, ServiceOK, Right, Good, DnsTypeOK
  <2> QED BY <1>6, <2>1, <2>2, <2>3 DEF DnsInv
<1>9. CASE /\ late' \in {late, late \union {[entry |-> e, ip |-> ip]}}
           /\ call' = [call EXCEPT ![c] = x(FALSE)]
           /\ UNCHANGED <<served, accepted>> /\ failures' \in Nat
  <2>1. CallsOK' /\ call' \in [Calls -> Call]
    BY <1>7, <1>9
  <2>2. [entry |-> e, ip |-> ip] \in Request
    BY <1>0, <1>1 DEF Request
  <2>3. DnsTypeOK'
    BY <1>0, <1>2, <1>9, <2>1, <2>2 DEF DnsTypeOK
  <2>4. ServiceOK'
    BY <1>1, <1>2, <1>9 DEF DnsInv, ServiceOK, Right, Good
  <2> QED BY <1>6, <2>1, <2>3, <2>4 DEF DnsInv
<1>10. \/ /\ served' = [served EXCEPT ![e] = ip]
          /\ accepted' = accepted \union {<<call[c].item.id, ip>>}
          /\ call' = [call EXCEPT ![c] = x(TRUE)]
          /\ UNCHANGED <<late, failures>>
       \/ /\ late' \in {late, late \union {[entry |-> e, ip |-> ip]}}
          /\ call' = [call EXCEPT ![c] = x(FALSE)]
          /\ UNCHANGED <<served, accepted>> /\ failures' \in Nat
  BY <1>0 DEF Send, Set, DnsTypeOK
<1> QED BY <1>8, <1>9, <1>10

LEMMA StoreKeeps ==
  ASSUME DnsInv, NEW c \in Calls, Store(c)
  PROVE  DnsInv'
<1> DEFINE r == call[c].item.id
           between == Between(c, "loop")
<1>0. /\ call[c] \in Call /\ CallFits(call[c]) /\ call[c].pc = "store" /\ DnsTypeOK
      /\ r \in Records /\ call[c].ip \in V4 \union V6 \union {NoIP}
  BY CallTypes DEF DnsInv, CallsOK, Store
<1>1. UNCHANGED <<address, provider, emptied, rotation, served, late, edits, failures,
                  accepted, linked, deleted>>
  BY DEF Store, bounds, history
<1>2. Grows
  BY <1>1 DEF Grows, Known
<1>3. PICK status \in {"completed", "failed"} :
        /\ \/ record' = record
           \/ record' = [record EXCEPT ![r].lastIP = call[c].ip, ![r].status = status]
        /\ status = "completed" => call[c].ok
  BY DEF Store
<1>4. /\ record' \in [Records -> Record]
      /\ \A q \in Records : /\ record'[q].row = record[q].row
                            /\ record'[q].machine = record[q].machine
                            /\ record'[q].entry = record[q].entry
                            /\ record'[q].sync = record[q].sync
                            /\ \/ /\ record'[q].status = record[q].status
                                  /\ record'[q].lastIP = record[q].lastIP
                               \/ q = r /\ record'[q].status = status /\ record'[q].lastIP = call[c].ip
  <2>1. record[r] \in Record /\ record \in [Records -> Record]
    BY <1>0 DEF DnsTypeOK
  <2>2. CASE record' = record
    BY <2>1, <2>2
  <2>3. CASE record' = [record EXCEPT ![r].lastIP = call[c].ip, ![r].status = status]
    <3> DEFINE new == [record[r] EXCEPT !.lastIP = call[c].ip, !.status = status]
    <3>1. new \in Record
      BY <1>0, <2>1 DEF Record
    <3>2. /\ new.row = record[r].row /\ new.machine = record[r].machine
          /\ new.entry = record[r].entry /\ new.sync = record[r].sync
          /\ new.status = status /\ new.lastIP = call[c].ip
      BY <2>1 DEF Record
    <3>3. record' = [record EXCEPT ![r] = new]
      BY <1>0, <2>1, <2>3 DEF Record
    <3> HIDE DEF new
    <3> QED BY <1>0, <2>1, <3>1, <3>2, <3>3
  <2> QED BY <1>3, <2>2, <2>3
<1>5. RecordOK'
  <2>1. status = "completed" => <<r, call[c].ip>> \in accepted
    BY <1>0, <1>3 DEF CallFits
  <2> QED BY <1>1, <1>4, <2>1 DEF DnsInv, RecordOK, Live
<1>6. RotationOK'
  <2>1. \A q \in Records : Live(q) = Live(q)'
    BY <1>4 DEF Live
  <2> QED BY <1>1, <1>2, <1>4, <2>1, RotationStays
<1>7. \E x \in Call : CallFits(x) /\ call' = [call EXCEPT ![c] = x]
  <2>1. CASE call' = [call EXCEPT ![c] = NoCall]
    BY <2>1, DnsValues, NothingCallFits
  <2>2. CASE Fail(c)
    BY <2>2, FailFits
  <2>3. CASE call[c].kind # "record" /\ call[c].ok /\ call' = [call EXCEPT ![c] = between]
    <3>1. between \in Call
      BY <1>0, DnsValues DEF Between, Call
    <3>2. /\ between.pc = "loop" /\ between.machine = call[c].machine
          /\ between.v4 = call[c].v4 /\ between.kind = call[c].kind
          /\ between.todo = call[c].todo /\ between.row = call[c].row
      BY <1>0 DEF Between, Call
    <3> HIDE DEF between
    <3>3. between.kind \in {"rotation", "retry"} => RowFits(between)
      BY <1>0, <2>3, <3>2 DEF CallFits, RowFits, Selecting, Pending
    <3>4. CallFits(between)
      BY <1>0, <2>3, <3>2, <3>3 DEF CallFits
    <3> QED BY <2>3, <3>1, <3>4
  <2> QED BY <2>1, <2>2, <2>3 DEF Store, Return, Set
<1>8. CallsOK' /\ call' \in [Calls -> Call]
  BY <1>2, <1>7, OtherCallsStay
<1>9. DnsTypeOK'
  BY <1>0, <1>1, <1>4, <1>8 DEF DnsTypeOK
<1>10. ServiceOK' /\ AddressOK'
  BY <1>1, <1>2, ServiceStays DEF DnsInv, AddressOK
<1> QED BY <1>5, <1>6, <1>8, <1>9, <1>10 DEF DnsInv

(* A row keeps what a synchronisation relies on when only its outcome changes. *)
LEMMA RowsStay ==
  ASSUME RotationOK, UNCHANGED <<address, record, accepted, deleted>>,
         DOMAIN rotation' = DOMAIN rotation,
         \A j \in DOMAIN rotation :
           /\ rotation'[j].machine = rotation[j].machine
           /\ rotation'[j].target = rotation[j].target
           /\ rotation'[j].steady = rotation[j].steady
           /\ rotation'[j].new \in {NoIP, rotation[j].target}
           /\ rotation'[j].dns = "completed" =>
                \A r \in rotation[j].steady : <<r, rotation[j].target>> \in accepted
  PROVE  RotationOK'
BY DEF RotationOK, Known, Live

(* The row of a rotation or of a retry says 'completed' when all is written. *)
LEMMA RowWritten ==
  ASSUME DnsInv, NEW c \in Calls, call[c].pc \in {"finish", "mark"},
         NEW dns \in DnsStatus,
         dns = "completed" => call[c].pc = "mark" \/ call[c].dns = "completed",
         NEW new, new \in {rotation[call[c].row].new, call[c].v4},
         rotation' = [rotation EXCEPT ![call[c].row].new = new, ![call[c].row].dns = dns],
         call' = [call EXCEPT ![c] = NoCall],
         UNCHANGED <<address, record, provider, emptied, served, late, edits, failures,
                     accepted, linked, deleted>>
  PROVE  DnsInv'
<1> DEFINE i == call[c].row
           row == [rotation[i] EXCEPT !.new = new, !.dns = dns]
<1>0. call[c] \in Call /\ CallFits(call[c]) /\ DnsTypeOK
  BY CallTypes DEF DnsInv, CallsOK
<1>1. /\ i \in DOMAIN rotation /\ call[c].v4 = rotation[i].target
      /\ call[c].todo = {} /\ rotation[i] \in Rotation /\ rotation[i].target \in V4
      /\ rotation[i].new \in {NoIP, rotation[i].target}
  BY <1>0, RowTypes DEF CallFits, RowFits, DnsInv, RotationOK
<1>2. dns = "completed" => \A r \in rotation[i].steady : <<r, rotation[i].target>> \in accepted
  BY <1>0, <1>1 DEF CallFits, RowFits, Selecting, Pending
<1>3. /\ row \in Rotation /\ row.machine = rotation[i].machine
      /\ row.target = rotation[i].target /\ row.steady = rotation[i].steady
      /\ row.dns = dns /\ row.new = new
  BY <1>1 DEF Rotation
<1>4. rotation' = [rotation EXCEPT ![i] = row]
  BY <1>1, RowTypes DEF Rotation, DnsInv
<1> HIDE DEF row, i
<1>5. /\ rotation' \in Seq(Rotation) /\ DOMAIN rotation' = DOMAIN rotation
      /\ \A j \in DOMAIN rotation : rotation'[j] = IF j = i THEN row ELSE rotation[j]
  <2>1. rotation \in Seq(Rotation) /\ i \in 1 .. Len(rotation) /\ DOMAIN rotation = 1 .. Len(rotation)
    BY <1>0, <1>1, RowTypes DEF DnsTypeOK
  <2>2. rotation' \in Seq(Rotation)
    <3>1. [rotation EXCEPT ![i] = row] \in Seq(Rotation)
      BY <1>3, <2>1, ExceptSeq
    <3> QED BY <1>4, <3>1
  <2> QED BY <1>4, <2>1, <2>2
<1>6. Grows
  BY <1>3, <1>5 DEF Grows, Known
<1>7. CallsOK' /\ call' \in [Calls -> Call]
  BY <1>6, OtherCallsStay, DnsValues, NothingCallFits
<1>8. new \in {NoIP, rotation[i].target}
  BY <1>1 DEF i
<1>9. RotationOK'
  <2>1. \A j \in DOMAIN rotation :
          /\ rotation'[j].machine = rotation[j].machine
          /\ rotation'[j].target = rotation[j].target
          /\ rotation'[j].steady = rotation[j].steady
          /\ rotation'[j].new \in {NoIP, rotation[j].target}
          /\ rotation'[j].dns = "completed" =>
               \A r \in rotation[j].steady : <<r, rotation[j].target>> \in accepted
    BY <1>2, <1>3, <1>5, <1>8 DEF DnsInv, RotationOK
  <2> QED BY <1>5, <2>1, RowsStay DEF DnsInv
<1>10. DnsTypeOK'
  BY <1>0, <1>5, <1>7 DEF DnsTypeOK
<1>11. (ServiceOK /\ AddressOK /\ RecordOK)'
  BY <1>6, ServiceStays DEF DnsInv, AddressOK, RecordOK, Live
<1> QED BY <1>7, <1>9, <1>10, <1>11 DEF DnsInv

LEMMA RowKept ==
  ASSUME DnsInv, NEW c \in Calls, call' = [call EXCEPT ![c] = NoCall],
         UNCHANGED <<address, record, provider, emptied, rotation, served, late, edits, failures,
                     accepted, linked, deleted>>
  PROVE  DnsInv'
<1>1. failures' \in Nat
  BY DEF DnsInv, DnsTypeOK
<1> QED BY <1>1, OnlyCallMoves, DnsValues, NothingCallFits

LEMMA FinishKeeps ==
  ASSUME DnsInv, NEW c \in Calls, FinishRotation(c)
  PROVE  DnsInv'
<1>0. call[c].pc = "finish" /\ call[c].dns \in DnsStatus
  BY CallTypes DEF FinishRotation, DnsInv
<1>1. /\ call' = [call EXCEPT ![c] = NoCall]
      /\ UNCHANGED <<address, record, provider, emptied, served, late, edits, failures,
                     accepted, linked, deleted>>
  BY DEF FinishRotation, Return, Set, bounds, history
<1>2. CASE UNCHANGED rotation
  BY <1>1, <1>2, RowKept
<1>3. CASE rotation' = [rotation EXCEPT ![call[c].row].new = call[c].v4,
                                        ![call[c].row].dns = call[c].dns]
  <2> DEFINE new == call[c].v4
             dns == call[c].dns
  <2>1. new \in {rotation[call[c].row].new, call[c].v4} /\ dns \in DnsStatus
    BY <1>0
  <2>2. rotation' = [rotation EXCEPT ![call[c].row].new = new, ![call[c].row].dns = dns]
    BY <1>3
  <2>3. dns = "completed" => call[c].pc = "mark" \/ call[c].dns = "completed"
    OBVIOUS
  <2> HIDE DEF new, dns
  <2> QED BY <1>0, <1>1, <2>1, <2>2, <2>3, RowWritten
<1> QED BY <1>2, <1>3 DEF FinishRotation

LEMMA MarkKeeps ==
  ASSUME DnsInv, NEW c \in Calls, MarkRetried(c)
  PROVE  DnsInv'
<1>0. call[c].pc = "mark" /\ call[c] \in Call /\ CallFits(call[c])
  BY CallTypes DEF MarkRetried, DnsInv, CallsOK
<1>1. /\ call' = [call EXCEPT ![c] = NoCall]
      /\ UNCHANGED <<address, record, provider, emptied, served, late, edits, failures,
                     accepted, linked, deleted>>
  BY DEF MarkRetried, Return, Set, bounds, history
<1>2. CASE UNCHANGED rotation
  BY <1>1, <1>2, RowKept
<1>3. CASE rotation' = [rotation EXCEPT ![call[c].row].dns = "completed"]
  <2> DEFINE new == rotation[call[c].row].new
             dns == "completed"
  <2>1. new \in {rotation[call[c].row].new, call[c].v4} /\ dns \in DnsStatus
    BY DEF DnsStatus
  <2>2. rotation[call[c].row] \in Rotation /\ call[c].row \in DOMAIN rotation
        /\ rotation \in [DOMAIN rotation -> Rotation]
    BY <1>0, RowTypes DEF CallFits, RowFits, DnsInv
  <2>3. rotation' = [rotation EXCEPT ![call[c].row].new = new, ![call[c].row].dns = dns]
    BY <1>3, <2>2 DEF Rotation
  <2> HIDE DEF new, dns
  <2> QED BY <1>0, <1>1, <2>1, <2>3, RowWritten
<1> QED BY <1>2, <1>3 DEF MarkRetried

LEMMA BeginRotationKeeps ==
  ASSUME DnsInv, NEW c \in Calls, NEW m \in Machines, NEW ip \in V4, Owner[ip] = m,
         NEW cancelled \in BOOLEAN, BeginRotation(c, m, ip, cancelled)
  PROVE  DnsInv'
<1> DEFINE steady == {r \in Selected(m, "rotation") : record[r].entry \notin V6Entries}
           row == [machine |-> m, new |-> NoIP, dns |-> "none", target |-> ip, steady |-> steady]
           n == Len(rotation)
           x == [Begin(c, "rotation", m, "select") EXCEPT
                   !.v4 = ip, !.row = n + 1, !.cancelled = cancelled]
<1>0. /\ Known(m) /\ rotation' = Append(rotation, row) /\ call' = [call EXCEPT ![c] = x]
      /\ address' = address \/ address' = [address EXCEPT ![m].v4 = ip]
      /\ DnsTypeOK
  BY DEF BeginRotation, Known, Set, DnsInv
<1>1. UNCHANGED <<record, provider, emptied, served, late, edits, failures,
                  accepted, linked, deleted>>
  BY DEF BeginRotation, bounds, history
<1>2. /\ \A r \in steady : /\ r \in Records /\ Live(r) /\ record[r].machine = m
                           /\ record[r].sync = "auto" /\ record[r].entry \notin V6Entries
      /\ steady \in SUBSET Records
  BY DEF Selected
<1> HIDE DEF steady
<1>3. row \in Rotation /\ row.machine = m /\ row.new = NoIP /\ row.dns = "none"
      /\ row.target = ip /\ row.steady = steady
  BY <1>2 DEF Rotation, DnsStatus
<1> HIDE DEF row
<1>4. /\ rotation' \in Seq(Rotation) /\ n \in Nat /\ DOMAIN rotation = 1 .. n
      /\ DOMAIN rotation' = 1 .. (n + 1) /\ rotation'[n + 1] = row
      /\ \A i \in 1 .. n : rotation'[i] = rotation[i]
  <2>1. rotation \in Seq(Rotation) /\ n \in Nat /\ DOMAIN rotation = 1 .. n
    BY <1>0, RowTypes DEF DnsTypeOK
  <2>2. /\ rotation' \in Seq(Rotation) /\ Len(rotation') = n + 1
        /\ \A i \in 1 .. n : rotation'[i] = rotation[i]
        /\ rotation'[n + 1] = row
    BY <1>0, <1>3, <2>1, AppendProperties
  <2> QED BY <2>1, <2>2, LenProperties
<1>5. /\ address' \in [Machines -> Addresses]
      /\ \A k \in Machines : /\ address'[k].exists = address[k].exists
                             /\ address'[k].v6 = address[k].v6
                             /\ address'[k].v4 = address[k].v4 \/ (k = m /\ address'[k].v4 = ip)
  <2>1. \A k \in Machines : address[k] \in Addresses
    BY <1>0, RowTypes
  <2> DEFINE new == [address[m] EXCEPT !.v4 = ip]
  <2>2. new \in Addresses /\ new.exists = address[m].exists /\ new.v6 = address[m].v6 /\ new.v4 = ip
    BY <2>1 DEF Addresses
  <2>3. address' = address \/ address' = [address EXCEPT ![m] = new]
    BY <1>0, <2>1 DEF Addresses
  <2>4. address \in [Machines -> Addresses]
    BY <1>0 DEF DnsTypeOK
  <2> HIDE DEF new
  <2> QED BY <2>2, <2>3, <2>4
<1>6. Grows
  <2>1. \A k \in Machines : Known(k) => Known(k)'
    BY <1>1, <1>5 DEF Known
  <2> HIDE DEF n
  <2>2. \A i \in DOMAIN rotation : i \in DOMAIN rotation' /\ rotation'[i] = rotation[i]
    BY <1>4
  <2> QED BY <1>1, <2>1, <2>2 DEF Grows
<1>7. x \in Call
  <2>1. Begin(c, "rotation", m, "select") \in Call
    BY DnsValues DEF Begin, Call
  <2>2. n + 1 \in Nat
    BY <1>4
  <2> HIDE DEF n
  <2> QED BY <2>1, <2>2 DEF Call
<1>8. /\ x.pc = "select" /\ x.kind = "rotation" /\ x.machine = m /\ x.v4 = ip
      /\ x.row = n + 1 /\ x.todo = {}
  BY DEF Begin, NoCall
<1> HIDE DEF x, n
<1>9. CallsOK' /\ call' \in [Calls -> Call]
  <2>1. call \in [Calls -> Call]
    BY <1>0 DEF DnsTypeOK
  <2>2. call'[c] = x /\ \A d \in Calls \ {c} : call'[d] = call[d]
    BY <1>0, <2>1
  <2>3. RowFits(call[c])'
    BY <1>3, <1>4, <1>8, <2>2 DEF RowFits, Selecting
  <2>4. CallFits(call[c])'
    <3>1. Known(m)'
      BY <1>0, <1>6 DEF Grows
    <3> QED BY <1>8, <2>2, <2>3, <3>1 DEF CallFits, Known
  <2>5. ASSUME NEW d \in Calls, d # c PROVE CallFits(call[d])'
    BY <1>0, <1>6, <2>1, <2>2, <2>5, StaysFit DEF DnsInv, CallsOK
  <2> QED BY <1>0, <1>7, <2>1, <2>4, <2>5 DEF CallsOK
<1>10. RotationOK'
  <2>1. ASSUME NEW i \in 1 .. n
        PROVE  /\ Known(rotation[i].machine)' /\ rotation'[i] = rotation[i]
    BY <1>0, <1>4, <1>6, RowTypes DEF DnsInv, RotationOK, Grows
  <2>2. Known(m)'
    BY <1>0, <1>6 DEF Grows
  <2>3. \A i \in 1 .. (n + 1) : i \in 1 .. n \/ i = n + 1
    BY <1>4
  <2> QED BY <1>1, <1>2, <1>3, <1>4, <2>1, <2>2, <2>3 DEF DnsInv, RotationOK, Live, Known
<1>11. DnsTypeOK'
  BY <1>0, <1>1, <1>4, <1>5, <1>9 DEF DnsTypeOK
<1>12. ServiceOK' /\ RecordOK'
  BY <1>1, <1>6, ServiceStays DEF DnsInv, RecordOK, Live
<1>13. AddressOK'
  BY <1>5 DEF DnsInv, AddressOK
<1> QED BY <1>9, <1>10, <1>11, <1>12, <1>13 DEF DnsInv

-----------------------------------------------------------------------------
(* Everything else that moves.                                             *)

LEMMA ArriveKeeps ==
  ASSUME DnsInv, NEW q \in late, Arrive(q)
  PROVE  DnsInv'
<1>1. UNCHANGED <<address, record, provider, emptied, rotation, call, edits, failures,
                  accepted, linked, deleted>>
  BY DEF Arrive, rows, bounds, history
<1>2. /\ late' = late \ {q} /\ served' = [served EXCEPT ![q.entry] = q.ip]
      /\ q \in Request /\ Right(q.entry, q.ip) /\ DnsTypeOK
  BY DEF Arrive, DnsInv, DnsTypeOK, ServiceOK
<1>3. q.entry \in Entries /\ q.ip \in V4 \union V6
  BY <1>2 DEF Request
<1>4. Grows
  BY <1>1 DEF Grows, Known
<1>5. DnsTypeOK'
  BY <1>1, <1>2, <1>3 DEF DnsTypeOK
<1>6. ServiceOK'
  BY <1>1, <1>2, <1>3 DEF DnsInv, ServiceOK, Right, Good, DnsTypeOK
<1>7. (AddressOK /\ RecordOK)'
  BY <1>1 DEF DnsInv, AddressOK, RecordOK, Live
<1> QED BY <1>1, <1>4, <1>5, <1>6, <1>7, RotationStays, CallsStay DEF DnsInv

(* A heartbeat, a sync or a deletion changes the addresses of m. *)
LEMMA AddressesKeep ==
  ASSUME DnsInv, NEW m \in Machines, NEW x \in Addresses,
         x.v4 # NoIP => Owner[x.v4] = m, x.v6 # NoIP => Owner[x.v6] = m,
         address' = [address EXCEPT ![m] = x],
         deleted \subseteq deleted', deleted' \subseteq Machines, x.exists \/ m \in deleted',
         edits' \in Nat,
         UNCHANGED <<record, provider, emptied, rotation, served, late, call, failures,
                     accepted, linked>>
  PROVE  DnsInv'
<1>0. DnsTypeOK /\ address \in [Machines -> Addresses]
  BY DEF DnsInv, DnsTypeOK
<1>1. address'[m] = x /\ \A k \in Machines \ {m} : address'[k] = address[k]
  BY <1>0
<1>2. Grows
  BY <1>1 DEF Grows, Known
<1>3. AddressOK'
  BY <1>1 DEF DnsInv, AddressOK
<1>4. DnsTypeOK'
  BY <1>0 DEF DnsTypeOK
<1>5. RecordOK'
  BY DEF DnsInv, RecordOK, Live
<1> QED BY <1>2, <1>3, <1>4, <1>5, ServiceStays, RotationStays, CallsStay DEF DnsInv

LEMMA ReportKeeps ==
  ASSUME DnsInv, NEW m \in Machines, NEW x \in Reports[m], Report(m, x)
  PROVE  DnsInv'
<1>1. /\ x \in Addresses /\ x.exists
      /\ x.v4 # NoIP => Owner[x.v4] = m
      /\ x.v6 # NoIP => Owner[x.v6] = m
  BY ReportsConstant
<1>2. edits' \in Nat
  BY DEF Report, Edit, DnsInv, DnsTypeOK
<1>3. deleted' = deleted /\ deleted \subseteq Machines
  BY DEF Report, history, DnsInv, DnsTypeOK
<1> QED BY <1>1, <1>2, <1>3, AddressesKeep DEF Report, rows, history

LEMMA DeleteMachineKeeps ==
  ASSUME DnsInv, NEW m \in Machines, DeleteMachine(m)
  PROVE  DnsInv'
<1>1. NoAddresses \in Addresses /\ NoAddresses.v4 = NoIP /\ NoAddresses.v6 = NoIP
  BY DnsValues DEF NoAddresses
<1>2. edits' \in Nat
  BY DEF DeleteMachine, Edit, DnsInv, DnsTypeOK
<1>3. deleted' = deleted \union {m} /\ deleted \subseteq Machines
  BY DEF DeleteMachine, DnsInv, DnsTypeOK
<1> QED BY <1>1, <1>2, <1>3, AddressesKeep DEF DeleteMachine, rows

(* A record that is created, edited or deleted is no longer one that rotations *)
(* so far were for.                                                            *)
LEMMA RecordsKeep ==
  ASSUME DnsInv, NEW r \in Records, NEW x \in Record,
         record' = [record EXCEPT ![r] = x],
         x.row = "live" => <<x.machine, x.entry>> \in linked',
         x.status = "completed" => record[r].status = "completed" /\ x.lastIP = record[r].lastIP,
         \/ UNCHANGED rotation /\ \A i \in DOMAIN rotation : r \notin rotation[i].steady
         \/ Unsteady(r),
         linked \subseteq linked', linked' \subseteq Machines \X Entries, edits' \in Nat,
         UNCHANGED <<address, provider, emptied, served, late, call, failures, accepted, deleted>>
  PROVE  DnsInv'
<1>0. DnsTypeOK /\ record \in [Records -> Record] /\ rotation \in Seq(Rotation)
  BY DEF DnsInv, DnsTypeOK
<1>1. record'[r] = x /\ \A q \in Records \ {r} : record'[q] = record[q]
  BY <1>0
<1>2. /\ rotation' \in Seq(Rotation) /\ DOMAIN rotation' = DOMAIN rotation
      /\ \A i \in DOMAIN rotation : /\ rotation'[i].machine = rotation[i].machine
                                    /\ rotation'[i].target = rotation[i].target
                                    /\ rotation'[i].new = rotation[i].new
                                    /\ rotation'[i].dns = rotation[i].dns
                                    /\ rotation'[i].steady \subseteq rotation[i].steady \ {r}
  <2>1. CASE UNCHANGED rotation /\ \A i \in DOMAIN rotation : r \notin rotation[i].steady
    BY <1>0, <2>1
  <2>2. CASE Unsteady(r)
    <3> DEFINE row(i) == [rotation[i] EXCEPT !.steady = @ \ {r}]
    <3>1. ASSUME NEW i \in DOMAIN rotation
          PROVE  /\ row(i) \in Rotation
                 /\ row(i).machine = rotation[i].machine /\ row(i).target = rotation[i].target
                 /\ row(i).new = rotation[i].new /\ row(i).dns = rotation[i].dns
                 /\ row(i).steady = rotation[i].steady \ {r}
      <4>1. rotation[i] \in Rotation
        BY <1>0, RowTypes
      <4> QED BY <4>1 DEF Rotation
    <3>2. rotation' = [i \in DOMAIN rotation |-> row(i)]
      BY <2>2 DEF Unsteady
    <3> HIDE DEF row
    <3>3. rotation' \in [1 .. Len(rotation) -> Rotation] /\ Len(rotation) \in Nat
      BY <1>0, <3>1, <3>2, RowTypes
    <3>4. rotation' \in Seq(Rotation)
      BY <3>3
    <3> QED BY <3>1, <3>2, <3>4
  <2> QED BY <2>1, <2>2
<1>3. Grows
  BY <1>2 DEF Grows, Known
<1>4. RecordOK'
  <2>1. \A q \in Records \ {r} :
          /\ Live(q)' => <<record'[q].machine, record'[q].entry>> \in linked'
          /\ record'[q].status = "completed" => <<q, record'[q].lastIP>> \in accepted'
    BY <1>1 DEF DnsInv, RecordOK, Live
  <2>2. /\ Live(r)' => <<record'[r].machine, record'[r].entry>> \in linked'
        /\ record'[r].status = "completed" => <<r, record'[r].lastIP>> \in accepted'
    <3>1. record[r].status = "completed" => <<r, record[r].lastIP>> \in accepted
      BY DEF DnsInv, RecordOK
    <3>2. Live(r)' => x.row = "live"
      BY <1>1 DEF Live
    <3> QED BY <1>1, <3>1, <3>2
  <2> QED BY <2>1, <2>2 DEF RecordOK, Live
<1>5. RotationOK'
  <2>1. ASSUME NEW i \in DOMAIN rotation, NEW q \in rotation'[i].steady
        PROVE  /\ Live(q)' /\ record'[q].machine = rotation[i].machine
               /\ record'[q].sync = "auto" /\ record'[q].entry \notin V6Entries
    <3>1. q \in rotation[i].steady /\ q # r /\ q \in Records
      BY <1>0, <1>2, RowTypes
    <3> QED BY <1>1, <3>1 DEF DnsInv, RotationOK, Live
  <2> QED BY <1>2, <2>1 DEF DnsInv, RotationOK, Known, Live
<1>6. DnsTypeOK'
  BY <1>0, <1>2 DEF DnsTypeOK
<1>7. AddressOK'
  BY DEF DnsInv, AddressOK
<1> QED BY <1>3, <1>4, <1>5, <1>6, <1>7, ServiceStays, CallsStay DEF DnsInv

LEMMA EditKeeps ==
  ASSUME DnsInv, NEW r \in Records, EditRecord(r)
  PROVE  DnsInv'
<1>0. /\ record[r] \in Record /\ record \in [Records -> Record]
      /\ linked \subseteq Machines \X Entries /\ DnsTypeOK
      /\ Live(r) => <<record[r].machine, record[r].entry>> \in linked
  BY DEF DnsInv, DnsTypeOK, RecordOK
<1>1. ASSUME NEW link \in Links, NEW sync \in Sync, CreateRecord(r, link, sync)
      PROVE  DnsInv'
  <2> DEFINE x == NewRecord(link, sync)
  <2>1. /\ x \in Record /\ x.row = "live" /\ x.machine = link[1] /\ x.entry = link[2]
        /\ x.status = "none"
    BY DnsValues DEF NewRecord, NoRecord
  <2>2. record' = [record EXCEPT ![r] = x] /\ linked' = linked \union {link} /\ edits' \in Nat
    BY <1>0, <1>1 DEF CreateRecord, Edit, DnsTypeOK
  <2> HIDE DEF x
  <2>3. \A i \in DOMAIN rotation : r \notin rotation[i].steady
    BY <1>1 DEF CreateRecord, DnsInv, RotationOK, Live
  <2>4. link = <<link[1], link[2]>> /\ link \in Machines \X Entries
    BY DnsConstants
  <2>5. UNCHANGED <<address, provider, emptied, rotation, served, late, call, failures, accepted, deleted>>
    BY <1>1 DEF CreateRecord
  <2> QED BY <1>0, <2>1, <2>2, <2>3, <2>4, <2>5, RecordsKeep
<1>2. ASSUME NEW link \in Links, NEW sync \in Sync, UpdateRecord(r, link, sync)
      PROVE  DnsInv'
  <2> DEFINE x == [record[r] EXCEPT !.machine = link[1], !.entry = link[2], !.sync = sync]
  <2>1. link = <<link[1], link[2]>> /\ link \in Machines \X Entries
    BY DnsConstants
  <2>2. /\ x \in Record /\ x.machine = link[1] /\ x.entry = link[2]
        /\ x.status = record[r].status /\ x.lastIP = record[r].lastIP
    BY <1>0, <2>1 DEF Record
  <2>3. record' = [record EXCEPT ![r] = x]
    BY <1>0, <1>2 DEF UpdateRecord, Record
  <2>4. linked' = linked \union {link} /\ edits' \in Nat /\ Unsteady(r)
    BY <1>0, <1>2 DEF UpdateRecord, Edit, DnsTypeOK
  <2>5. UNCHANGED <<address, provider, emptied, served, late, call, failures, accepted, deleted>>
    BY <1>2 DEF UpdateRecord
  <2> HIDE DEF x
  <2> QED BY <1>0, <2>1, <2>2, <2>3, <2>4, <2>5, RecordsKeep
<1>3. CASE DeleteRecord(r)
  <2> DEFINE x == [record[r] EXCEPT !.row = "deleted"]
  <2>1. /\ x \in Record /\ x.row = "deleted"
        /\ x.status = record[r].status /\ x.lastIP = record[r].lastIP
    BY <1>0 DEF Record
  <2>2. record' = [record EXCEPT ![r] = x]
    BY <1>0, <1>3 DEF DeleteRecord, Record
  <2>3. edits' \in Nat /\ Unsteady(r)
    BY <1>0, <1>3 DEF DeleteRecord, Edit, DnsTypeOK
  <2>4. UNCHANGED <<address, provider, emptied, served, late, call, failures, accepted, linked, deleted>>
    BY <1>3 DEF DeleteRecord, history
  <2> HIDE DEF x
  <2> QED BY <1>0, <2>1, <2>2, <2>3, <2>4, RecordsKeep
<1> QED BY <1>1, <1>2, <1>3 DEF EditRecord

LEMMA ProviderKeeps ==
  ASSUME DnsInv,
         \/ \E state \in {"enabled", "disabled"} : SetProvider(state)
         \/ CountForDelete \/ DeleteProvider
  PROVE  DnsInv'
<1>1. UNCHANGED <<address, record, rotation, served, late, call, failures, accepted, linked, deleted>>
  BY DEF SetProvider, CountForDelete, DeleteProvider, bounds, history
<1>2. /\ provider' \in {"enabled", "disabled", "deleted"} /\ emptied' \in BOOLEAN
      /\ edits' \in Nat
  <2>1. edits \in Nat /\ emptied \in BOOLEAN /\ provider \in {"enabled", "disabled", "deleted"}
    BY DEF DnsInv, DnsTypeOK
  <2>2. CASE \E state \in {"enabled", "disabled"} : SetProvider(state)
    BY <2>1, <2>2 DEF SetProvider, Edit
  <2>3. CASE CountForDelete
    BY <2>1, <2>3 DEF CountForDelete, Edit
  <2>4. CASE DeleteProvider
    BY <2>1, <2>4 DEF DeleteProvider, bounds
  <2> QED BY <2>2, <2>3, <2>4
<1>3. Grows
  BY <1>1 DEF Grows, Known
<1>4. DnsTypeOK'
  BY <1>1, <1>2 DEF DnsInv, DnsTypeOK
<1>5. (AddressOK /\ RecordOK)'
  BY <1>1 DEF DnsInv, AddressOK, RecordOK, Live
<1> QED BY <1>1, <1>3, <1>4, <1>5, ServiceStays, RotationStays, CallsStay DEF DnsInv

LEMMA CrashKeeps ==
  ASSUME DnsInv, Crash
  PROVE  DnsInv'
<1>0. /\ UNCHANGED <<address, record, provider, emptied, rotation, served, edits,
                     accepted, linked, deleted>>
      /\ failures' \in Nat /\ call' = [c \in Calls |-> NoCall] /\ DnsTypeOK
  BY DEF Crash, rows, history, DnsInv, DnsTypeOK
<1>1. \A q \in late' : q \in Request /\ Right(q.entry, q.ip)
  <2> DEFINE request(c) == [entry |-> call[c].item.entry, ip |-> call[c].ip]
  <2>1. PICK sent \in SUBSET {c \in Calls : call[c].pc = "send"} :
               late' = late \union {request(c) : c \in sent}
    BY DEF Crash
  <2>2. ASSUME NEW c \in sent
        PROVE  request(c) \in Request /\ Right(request(c).entry, request(c).ip)
    <3>1. /\ CallFits(call[c]) /\ call[c].pc = "send" /\ call[c].item.entry \in Entries
      BY CallTypes DEF DnsInv, CallsOK
    <3>2. call[c].ip \in V4 \union V6 /\ Right(call[c].item.entry, call[c].ip)
      BY <3>1 DEF CallFits, Right
    <3> QED BY <3>1, <3>2 DEF Request
  <2>3. \A q \in late : q \in Request /\ Right(q.entry, q.ip)
    BY <1>0 DEF DnsInv, DnsTypeOK, ServiceOK
  <2> HIDE DEF request
  <2> QED BY <2>1, <2>2, <2>3
<1>2. Grows
  BY <1>0 DEF Grows, Known
<1>3. call' \in [Calls -> Call] /\ CallsOK'
  BY <1>0, DnsValues DEF CallsOK, CallFits, NoCall
<1>4. DnsTypeOK'
  BY <1>0, <1>1, <1>3 DEF DnsTypeOK
<1>5. ServiceOK'
  BY <1>0, <1>1 DEF DnsInv, ServiceOK, Right, Good
<1>6. (AddressOK /\ RecordOK)'
  BY <1>0 DEF DnsInv, AddressOK, RecordOK, Live
<1> QED BY <1>0, <1>2, <1>3, <1>4, <1>5, <1>6, RotationStays DEF DnsInv

-----------------------------------------------------------------------------

LEMMA InitialDns == Init => DnsInv
<1> SUFFICES ASSUME Init PROVE DnsInv
  OBVIOUS
<1>1. record \in [Records -> Record]
      /\ \A r \in Records : /\ record[r].status = "none"
                            /\ Live(r) => <<record[r].machine, record[r].entry>> \in linked
  <2>1. \A x \in {NoRecord} \union {NewRecord(link, "auto") : link \in Links} :
          x \in Record /\ x.status = "none"
    <3>1. "auto" \in Sync
      BY DEF Sync
    <3>2. NoRecord \in Record /\ NoRecord.status = "none"
      BY DnsValues DEF NoRecord
    <3>3. \A link \in Links : NewRecord(link, "auto") \in Record
      BY <3>1, DnsValues
    <3>4. \A link \in Links : NewRecord(link, "auto").status = "none"
      BY DEF NewRecord, NoRecord
    <3> QED BY <3>2, <3>3, <3>4
  <2> QED BY <2>1 DEF Init
<1>2. /\ late = {} /\ rotation = <<>> /\ accepted = {} /\ deleted = {}
      /\ served = [e \in Entries |-> NoIP] /\ call = [c \in Calls |-> NoCall]
  BY DEF Init
<1>3. DnsTypeOK
  <2>1. linked \subseteq Machines \X Entries
    <3>1. \A r \in Records : record[r].machine \in Machines /\ record[r].entry \in Entries
      BY <1>1 DEF Record
    <3> QED BY <3>1 DEF Init
  <2>2. rotation \in Seq(Rotation)
    BY <1>2
  <2> QED BY <1>1, <1>2, <2>1, <2>2, DnsValues DEF Init, DnsTypeOK
<1>4. AddressOK
  BY ReportsConstant DEF Init, AddressOK
<1>5. CallsOK
  BY <1>2, NothingCallFits DEF CallsOK
<1>6. ServiceOK /\ RotationOK
  BY <1>2 DEF ServiceOK, RotationOK
<1>7. RecordOK
  BY <1>1 DEF RecordOK
<1> QED BY <1>3, <1>4, <1>5, <1>6, <1>7 DEF DnsInv

LEMMA StepKeeps == DnsInv /\ [Next]_vars => DnsInv'
<1> SUFFICES ASSUME DnsInv, [Next]_vars PROVE DnsInv'
  OBVIOUS
<1>1. ASSUME NEW c \in Calls, CallStep(c) PROVE DnsInv'
  BY <1>1, ReadAddressKeeps, SelectKeeps, NextRecordKeeps, LookupKeeps, SendKeeps, StoreKeeps,
     CountKeeps, FinishKeeps, MarkKeeps DEF CallStep
<1>2. ASSUME NEW c \in Calls, Rotates(c) PROVE DnsInv'
  BY <1>2, BeginRotationKeeps DEF Rotates
<1>3. ASSUME NEW c \in Requests, ByHand(c) PROVE DnsInv'
  <2>1. c \in Calls
    BY DnsConstants
  <2> QED BY <1>3, <2>1, BeginRecordKeeps, BeginMachineKeeps, BeginRetryKeeps DEF ByHand
<1>4. CASE UNCHANGED vars
  <2>1. UNCHANGED <<address, record, provider, emptied, rotation, served, late, call, edits,
                    failures, accepted, linked, deleted>>
    BY <1>4 DEF vars
  <2>2. Grows
    BY <2>1 DEF Grows, Known
  <2>3. (DnsTypeOK /\ AddressOK /\ RecordOK)'
    BY <2>1 DEF DnsInv, DnsTypeOK, AddressOK, RecordOK, Live
  <2> QED BY <2>1, <2>2, <2>3, ServiceStays, RotationStays, CallsStay DEF DnsInv
<1> QED BY <1>1, <1>2, <1>3, <1>4, CancelKeeps, ArriveKeeps, EditKeeps, DeleteMachineKeeps,
           ReportKeeps, ProviderKeeps, CrashKeeps DEF Next

LEMMA DnsInvariant == Spec => []DnsInv
BY InitialDns, StepKeeps, PTL DEF Spec

(* The rows, the requests on their way and the local state of                *)
(* syncDNSForMachine, syncDNSRecord, rotate and retryRotationDNS have their  *)
(* types.                                                                    *)
THEOREM DnsTypeCorrect == Spec => []DnsTypeOK
<1>1. DnsInv => DnsTypeOK
  BY DEF DnsInv
<1> QED BY <1>1, DnsInvariant, PTL

(* syncDNSForMachine and syncDNSRecord: no entry is given the address of a   *)
(* machine it was never linked with, whatever is moved, deleted or rotated   *)
(* while the address is on its way.                                          *)
THEOREM NoForeignAddressCorrect == Spec => []NoForeignAddress
<1>1. DnsInv => NoForeignAddress
  BY DEF DnsInv, ServiceOK, Right, NoForeignAddress
<1> QED BY <1>1, DnsInvariant, PTL

(* The loop of syncDNSForMachine: an AAAA entry holds an IPv4 address only   *)
(* of a machine that was deleted, an A entry never an IPv6 address.          *)
THEOREM FamilyCorrect == Spec => []FamilyRespected
<1>1. DnsInv => FamilyRespected
  BY DEF DnsInv, ServiceOK, Right, Good, FamilyRespected
<1> QED BY <1>1, DnsInvariant, PTL

(* rotate and retryRotationDNS: a rotation whose dns_sync_status is          *)
(* 'completed' has had its address taken for every record it was for.        *)
THEOREM CompletedCorrect == Spec => []CompletedMeansWritten
<1>1. DnsInv => CompletedMeansWritten
  BY DEF DnsInv, RotationOK, CompletedMeansWritten
<1> QED BY <1>1, DnsInvariant, PTL

(* syncOneDNS: a record's status 'completed' goes with an address that the   *)
(* service took for it.                                                      *)
THEOREM AcceptedCorrect == Spec => []CompletedWasAccepted
<1>1. DnsInv => CompletedWasAccepted
  BY DEF DnsInv, RecordOK, CompletedWasAccepted
<1> QED BY <1>1, DnsInvariant, PTL

=============================================================================
