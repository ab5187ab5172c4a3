--------------------------------- MODULE Hub ---------------------------------
(***************************************************************************)
(* The realtime hub: WebSocket connections of dashboards, and the events   *)
(* that handlers broadcast to them (backend/internal/realtime/hub.go, ws   *)
(* in backend/internal/api/api.go).                                        *)
(*                                                                         *)
(* Broadcast copies the set of clients under the mutex and writes outside  *)
(* it, in the goroutine of the handler, with two seconds for each client.  *)
(* Meanwhile clients come, go, and are removed by their own handler or by  *)
(* another broadcast.                                                      *)
(***************************************************************************)
EXTENDS Naturals, FiniteSets

CONSTANTS
  Sockets,  \* places for connections
  Writers   \* goroutines that broadcast

(* There is no bound of goroutines, but at no time are they infinitely many. *)
ASSUME FiniteWriters == IsFiniteSet(Writers)

VARIABLES
  conn,     \* state of the connection in each place
  handler,  \* how far the ws handler of the connection is
  clients,  \* Hub.clients
  sending,  \* clients a broadcast has still to write to
  removing, \* the client a broadcast could not write to and has not yet removed
  owed      \* history: events an open connection has missed or has still to get

hubVars == <<conn, handler, clients, sending, removing, owed>>

HubInit ==
  /\ conn = [s \in Sockets |-> "closed"]
  /\ handler = [s \in Sockets |-> "none"]
  /\ clients = {}
  /\ sending = [w \in Writers |-> {}]
  /\ removing = [w \in Writers |-> {}]
  /\ owed = [s \in Sockets |-> 0]

-----------------------------------------------------------------------------

(* A goroutine that broadcasts still holds the connection in place s. *)
Held(s) == \E w \in Writers : s \in sending[w] \union removing[w]

(* websocket.Accept: a dashboard has connected. *)
Accept(s) ==
  /\ handler[s] = "none" /\ conn[s] = "closed"
  /\ s \notin clients /\ ~Held(s)
  /\ conn' = [conn EXCEPT ![s] = "open"]
  /\ handler' = [handler EXCEPT ![s] = "add"]
  /\ owed' = [owed EXCEPT ![s] = 0]
  /\ UNCHANGED <<clients, sending, removing>>

Add(s) ==
  /\ handler[s] = "add"
  /\ clients' = clients \union {s}
  /\ handler' = [handler EXCEPT ![s] = "read"]
  /\ UNCHANGED <<conn, sending, removing, owed>>

(* The peer closes the connection, or vanishes without a word. *)
Leave(s) ==
  /\ conn[s] = "open"
  /\ \E state \in {"closed", "broken"} : conn' = [conn EXCEPT ![s] = state]
  /\ owed' = [owed EXCEPT ![s] = 0]
  /\ UNCHANGED <<handler, clients, sending, removing>>

(* c.Read fails: at once when the connection is closed, perhaps when it is broken. *)
ReadError(s) ==
  /\ handler[s] = "read" /\ conn[s] # "open"
  /\ handler' = [handler EXCEPT ![s] = "remove"]
  /\ UNCHANGED <<conn, clients, sending, removing, owed>>

(***************************************************************************)
(* Hub.Remove: the entry is deleted under the mutex, by whoever comes      *)
(* first, and then the connection is closed outside it.                    *)
(***************************************************************************)
Delete(s) ==
  /\ s \in clients
  /\ clients' = clients \ {s}
  /\ UNCHANGED <<conn, owed>>

Close(s) ==
  /\ s \notin clients
  /\ conn' = [conn EXCEPT ![s] = "closed"]
  /\ owed' = [owed EXCEPT ![s] = 0]
  /\ UNCHANGED clients

(* Mutant of RemoveDeferred: the handler closes the connection only. *)
RemoveForgotten(s) ==
  /\ handler[s] = "remove"
  /\ conn' = [conn EXCEPT ![s] = "closed"]
  /\ owed' = [owed EXCEPT ![s] = 0]
  /\ handler' = [handler EXCEPT ![s] = "none"]
  /\ UNCHANGED <<clients, sending, removing>>

(* The deferred Remove of the handler. *)
RemoveDeferred(s) ==
  /\ handler[s] = "remove"
  /\ \/ Delete(s) /\ UNCHANGED handler
     \/ Close(s) /\ handler' = [handler EXCEPT ![s] = "none"]
  /\ UNCHANGED <<sending, removing>>

(* Broadcast copies the clients. *)
Snapshot(w) ==
  /\ sending' = [sending EXCEPT ![w] = clients]
  /\ owed' = [s \in Sockets |-> IF s \in clients /\ conn[s] = "open" THEN owed[s] + 1 ELSE owed[s]]
  /\ UNCHANGED <<conn, handler, clients, removing>>

(* The loop goes on to s. *)
WriteTo(w, s) ==
  /\ s \in sending[w] /\ removing[w] = {}
  /\ sending' = [sending EXCEPT ![w] = @ \ {s}]

(* The peer gets the event, or it will when it is only slow. *)
Delivered(w, s) ==
  /\ conn[s] = "open" /\ WriteTo(w, s)
  /\ owed' = [owed EXCEPT ![s] = @ - 1]
  /\ UNCHANGED <<conn, handler, clients, removing>>

(* A broken connection takes the event into a buffer. *)
Swallowed(w, s) ==
  /\ conn[s] = "broken" /\ WriteTo(w, s)
  /\ UNCHANGED <<conn, handler, clients, removing, owed>>

(* Mutant of WriteFailed: the error is ignored. *)
WriteIgnored(w, s) ==
  /\ WriteTo(w, s)
  /\ UNCHANGED <<conn, handler, clients, removing, owed>>

(* Mutant of WriteFailed: the write has no deadline. *)
WriteHangs(w, s) ==
  /\ conn[s] = "closed" /\ WriteTo(w, s)
  /\ removing' = [removing EXCEPT ![w] = {s}]
  /\ UNCHANGED <<conn, handler, clients, owed>>

(* Write fails: at once, or after two seconds, also for a peer that is slow... *)
WriteFailed(w, s) ==
  /\ WriteTo(w, s)
  /\ removing' = [removing EXCEPT ![w] = {s}]
  /\ UNCHANGED <<conn, handler, clients, owed>>

(* ...and its client is removed, before the loop goes on. *)
RemoveFailed(w, s) ==
  /\ s \in removing[w]
  /\ \/ Delete(s) /\ UNCHANGED removing
     \/ Close(s) /\ removing' = [removing EXCEPT ![w] = @ \ {s}]
  /\ UNCHANGED <<handler, sending>>

(* What happens to a connection when nothing is written to it. *)
HubNext ==
  \E s \in Sockets :
    Accept(s) \/ Add(s) \/ Leave(s) \/ ReadError(s) \/ RemoveDeferred(s)

(* What the handler of a connection does in any case. *)
HandlerStep(s) ==
  \/ Add(s)
  \/ conn[s] = "closed" /\ ReadError(s)
  \/ RemoveDeferred(s)

-----------------------------------------------------------------------------

HubTypeOK ==
  /\ conn \in [Sockets -> {"closed", "open", "broken"}]
  /\ handler \in [Sockets -> {"none", "add", "read", "remove"}]
  /\ clients \subseteq Sockets
  /\ sending \in [Writers -> SUBSET Sockets]
  /\ removing \in [Writers -> SUBSET Sockets]
  /\ owed \in [Sockets -> Nat]

(***************************************************************************)
(* A dashboard whose connection is open has got every event since it was   *)
(* added, except those of broadcasts still on their way to it: a client    *)
(* that missed one has been disconnected, so that it connects again, or is *)
(* about to be by the broadcast whose write failed, however broadcasts,    *)
(* removals and new clients interleave outside the mutex.                  *)
(***************************************************************************)
NothingMissed ==
  \A s \in Sockets :
    conn[s] = "open" /\ (\A w \in Writers : s \notin removing[w])
      => owed[s] = Cardinality({w \in Writers : s \in sending[w]})

(* The hub keeps no connection whose handler has gone. *)
ClientsAreHandled == \A s \in clients : handler[s] \in {"read", "remove"}

=============================================================================
