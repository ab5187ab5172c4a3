--------------------------- MODULE RotationLedger ---------------------------
(***************************************************************************)
(* What rotations promise, in terms of a ledger: a rotation of a machine   *)
(* is entered in the history before the provider is asked for a change,    *)
(* asks for one change at most, and is closed as completed only if it has  *)
(* asked.  One rotation of a machine is under way at a time; a crash ends  *)
(* all that are and leaves the ledger as it is.  Module Rotation, with its *)
(* lock, checks, limits and polls, implements it (RotationImplements).     *)
(***************************************************************************)
EXTENDS Naturals, Sequences, FiniteSets, FiniteSetTheorems, TLAPS

CONSTANT Machines

VARIABLES
  rotating,  \* machines with a rotation under way
  history,   \* entries, each of a machine and with a status
  open,      \* entries of the rotations under way
  unasked,   \* those whose change has not been asked for
  asked      \* changes the provider was asked for, by machine

ledgerVars == <<rotating, history, open, unasked, asked>>

Entry == [machine : Machines, status : {"running", "failed", "completed"}]

LedgerInit ==
  /\ rotating = {} /\ history = <<>> /\ open = {} /\ unasked = {}
  /\ asked = [m \in Machines |-> 0]

HasEntry(m) == \E i \in open : history[i].machine = m

Begin(m) ==
  /\ m \notin rotating
  /\ rotating' = rotating \union {m}
  /\ UNCHANGED <<history, open, unasked, asked>>

(* A rotation that is not allowed, or not confirmed, leaves no entry. *)
GiveUp(m) ==
  /\ m \in rotating /\ ~HasEntry(m)
  /\ rotating' = rotating \ {m}
  /\ UNCHANGED <<history, open, unasked, asked>>

EnterHistory(m) ==
  LET i == Len(history) + 1 IN
  /\ m \in rotating /\ ~HasEntry(m)
  /\ history' = Append(history, [machine |-> m, status |-> "running"])
  /\ open' = open \union {i} /\ unasked' = unasked \union {i}
  /\ UNCHANGED <<rotating, asked>>

Asked(i) == asked' = [asked EXCEPT ![history[i].machine] = @ + 1]

Ask(i) ==
  /\ i \in unasked
  /\ Asked(i)
  /\ unasked' = unasked \ {i}
  /\ UNCHANGED <<rotating, history, open>>

End(i) ==
  /\ rotating' = rotating \ {history[i].machine}
  /\ open' = open \ {i} /\ unasked' = unasked \ {i}

(* The change was refused, or its answer was lost, or no new address came. *)
Fail(i) ==
  /\ i \in open
  /\ history' = [history EXCEPT ![i].status = "failed"]
  /\ UNCHANGED asked \/ (i \in unasked /\ Asked(i))
  /\ End(i)

Complete(i) ==
  /\ i \in open \ unasked
  /\ history' = [history EXCEPT ![i].status = "completed"]
  /\ End(i)
  /\ UNCHANGED asked

(* The request behind the rotation is gone: its entry stays as it is. *)
LeaveOpen(i) ==
  /\ i \in open \ unasked
  /\ End(i)
  /\ UNCHANGED <<history, asked>>

Stop ==
  /\ rotating' = {} /\ open' = {} /\ unasked' = {}
  /\ UNCHANGED <<history, asked>>

LedgerNext ==
  \/ \E m \in Machines : Begin(m) \/ GiveUp(m) \/ EnterHistory(m)
  \/ \E i \in DOMAIN history : Ask(i) \/ Fail(i) \/ Complete(i) \/ LeaveOpen(i)
  \/ Stop

LedgerSpec == LedgerInit /\ [][LedgerNext]_ledgerVars

-----------------------------------------------------------------------------

Entries(m) == {i \in DOMAIN history : history[i].machine = m}
Completed(m) == {i \in Entries(m) : history[i].status = "completed"}

(***************************************************************************)
(* The books balance: every completed entry stands for a change that was   *)
(* asked for, and every change asked for has an entry.                     *)
(***************************************************************************)
Balanced ==
  \A m \in Machines : /\ Cardinality(Completed(m)) <= asked[m]
                      /\ asked[m] <= Cardinality(Entries(m))

-----------------------------------------------------------------------------
(***************************************************************************)
(* Balanced is not inductive: an entry may be completed after others were  *)
(* asked for.  The entries asked for and still open are counted with the   *)
(* completed ones, and those not asked for are set apart.                  *)
(***************************************************************************)
Spent(m) == Completed(m) \union (Entries(m) \intersect (open \ unasked))

LedgerTypeOK ==
  /\ history \in Seq(Entry)
  /\ unasked \subseteq open /\ open \subseteq DOMAIN history
  /\ asked \in [Machines -> Nat]

OpenRuns == \A i \in open : history[i].status = "running"

Books == \A m \in Machines : /\ Cardinality(Spent(m)) <= asked[m]
                             /\ asked[m] <= Cardinality(Entries(m) \ unasked)

LedgerInv == LedgerTypeOK /\ OpenRuns /\ Books

LEMMA EntriesFinite ==
  ASSUME NEW h \in Seq(Entry), NEW S \in SUBSET DOMAIN h
  PROVE  IsFiniteSet(S) /\ Cardinality(S) \in Nat
<1>1. DOMAIN h = 1..Len(h) /\ Len(h) \in Nat
  OBVIOUS
<1>2. IsFiniteSet(1..Len(h))
  BY <1>1, FS_Interval
<1> QED BY <1>1, <1>2, FS_Subset, FS_CardinalityType

LEMMA AtMostOneMore ==
  ASSUME NEW S, IsFiniteSet(S), NEW T, NEW i, T \subseteq S \union {i}
  PROVE  /\ Cardinality(T) <= Cardinality(S) + 1
         /\ Cardinality(T) \in Nat /\ Cardinality(S) \in Nat
<1>1. /\ IsFiniteSet(S \union {i}) /\ Cardinality(S) \in Nat
      /\ Cardinality(S \union {i}) = IF i \in S THEN Cardinality(S) ELSE Cardinality(S) + 1
  BY FS_AddElement, FS_CardinalityType
<1>2. IsFiniteSet(T) /\ Cardinality(T) <= Cardinality(S \union {i})
  BY <1>1, FS_Subset
<1>3. Cardinality(T) \in Nat
  BY <1>2, FS_CardinalityType
<1> QED BY <1>1, <1>2, <1>3

(* What a step may do to a machine's entries and to its account. *)
Quiet(m) ==
  /\ asked'[m] = asked[m]
  /\ Spent(m)' \subseteq Spent(m) /\ Entries(m) \ unasked \subseteq (Entries(m) \ unasked)'

Charged(m, i) ==
  /\ asked'[m] = asked[m] + 1 /\ i \notin Entries(m) \ unasked
  /\ Spent(m)' \subseteq Spent(m) \union {i}
  /\ (Entries(m) \ unasked) \union {i} \subseteq (Entries(m) \ unasked)'

LEMMA BooksStep ==
  ASSUME LedgerInv, LedgerTypeOK',
         \A m \in Machines : Quiet(m) \/ \E i \in DOMAIN history : Charged(m, i)
  PROVE  Books'
<1> SUFFICES ASSUME NEW m \in Machines
             PROVE  /\ Cardinality(Spent(m)') <= asked'[m]
                    /\ asked'[m] <= Cardinality((Entries(m) \ unasked)')
  BY DEF Books
<1>1. PICK S, T, U, V : /\ S = Spent(m) /\ T = Spent(m)'
                        /\ U = Entries(m) \ unasked /\ V = (Entries(m) \ unasked)'
  OBVIOUS
<1>2. IsFiniteSet(S) /\ IsFiniteSet(U) /\ Cardinality(S) \in Nat /\ Cardinality(U) \in Nat
  <2>1. S \subseteq DOMAIN history /\ U \subseteq DOMAIN history
    BY <1>1 DEF Spent, Completed, Entries
  <2> QED BY <2>1, EntriesFinite DEF LedgerInv, LedgerTypeOK
<1>3. IsFiniteSet(V) /\ Cardinality(V) \in Nat
  <2>1. V \subseteq DOMAIN history'
    BY <1>1 DEF Entries
  <2> QED BY <2>1, EntriesFinite DEF LedgerTypeOK
<1>4. Cardinality(S) <= asked[m] /\ asked[m] <= Cardinality(U) /\ asked[m] \in Nat
  BY <1>1 DEF LedgerInv, LedgerTypeOK, Books
<1>5. CASE Quiet(m)
  <2>1. T \subseteq S /\ U \subseteq V
    BY <1>1, <1>5 DEF Quiet
  <2>2. Cardinality(T) <= Cardinality(S) /\ Cardinality(T) \in Nat
    BY <1>2, <2>1, FS_Subset, FS_CardinalityType
  <2>3. Cardinality(U) <= Cardinality(V)
    BY <1>3, <2>1, FS_Subset
  <2>4. Cardinality(T) <= asked'[m] /\ asked'[m] <= Cardinality(V)
    BY <1>2, <1>3, <1>4, <1>5, <2>2, <2>3 DEF Quiet
  <2> QED BY <1>1, <2>4
<1>6. ASSUME NEW i \in DOMAIN history, Charged(m, i)
      PROVE  /\ Cardinality(Spent(m)') <= asked'[m]
             /\ asked'[m] <= Cardinality((Entries(m) \ unasked)')
  <2>1. T \subseteq S \union {i} /\ U \union {i} \subseteq V /\ i \notin U
    BY <1>1, <1>6 DEF Charged
  <2>2. Cardinality(T) <= Cardinality(S) + 1 /\ Cardinality(T) \in Nat
    BY <1>2, <2>1, AtMostOneMore
  <2>3. Cardinality(U \union {i}) = Cardinality(U) + 1
    BY <1>2, <2>1, FS_AddElement
  <2>4. Cardinality(U) + 1 <= Cardinality(V)
    BY <1>3, <2>1, <2>3, FS_Subset
  <2>5. Cardinality(T) <= asked'[m] /\ asked'[m] <= Cardinality(V)
    BY <1>2, <1>3, <1>4, <1>6, <2>2, <2>4 DEF Charged
  <2> QED BY <1>1, <2>5
<1> QED BY <1>5, <1>6

LEMMA LedgerStep ==
  ASSUME LedgerInv, [LedgerNext]_ledgerVars
  PROVE  LedgerInv'
<1>0. /\ history \in Seq(Entry) /\ unasked \subseteq open /\ open \subseteq DOMAIN history
      /\ asked \in [Machines -> Nat]
      /\ \A i \in DOMAIN history : history[i] \in Entry /\ history[i].machine \in Machines
      /\ \A i \in open : history[i].status = "running"
  <2>1. \A i \in DOMAIN history : history[i] \in Entry
    BY DEF LedgerInv, LedgerTypeOK
  <2>2. \A i \in DOMAIN history : history[i].machine \in Machines
    BY <2>1 DEF Entry
  <2> QED BY <2>1, <2>2 DEF LedgerInv, LedgerTypeOK, OpenRuns
<1>1. ASSUME UNCHANGED <<history, asked>>, open' \subseteq open, unasked' \subseteq unasked,
             unasked' \subseteq open', open' \ unasked' \subseteq open \ unasked
      PROVE  LedgerInv'
  <2>1. LedgerTypeOK' /\ OpenRuns'
    BY <1>0, <1>1 DEF LedgerTypeOK, OpenRuns
  <2>2. \A m \in Machines : Quiet(m)
    BY <1>1 DEF Quiet, Spent, Completed, Entries
  <2> QED BY <2>1, <2>2, BooksStep DEF LedgerInv
<1>2. ASSUME NEW m \in Machines, EnterHistory(m) PROVE LedgerInv'
  <2> DEFINE n == Len(history) + 1
             new == [machine |-> m, status |-> "running"]
  <2>1. new \in Entry /\ new.status = "running"
    BY DEF Entry
  <2>2. /\ history' \in Seq(Entry) /\ DOMAIN history' = DOMAIN history \union {n}
        /\ n \notin DOMAIN history /\ history'[n] = new
        /\ \A i \in DOMAIN history : history'[i] = history[i]
    <3>1. history' = Append(history, new)
      BY <1>2 DEF EnterHistory
    <3> HIDE DEF new
    <3>2. /\ DOMAIN history = 1..Len(history) /\ DOMAIN history' = 1..(Len(history) + 1)
          /\ Len(history) \in Nat
      BY <1>0, <2>1, <3>1
    <3>3. 1..(Len(history) + 1) = 1..Len(history) \union {Len(history) + 1}
      BY <3>2
    <3> QED BY <1>0, <2>1, <3>1, <3>2, <3>3
  <2>3. open' = open \union {n} /\ unasked' = unasked \union {n} /\ asked' = asked
    BY <1>2 DEF EnterHistory
  <2> HIDE DEF n, new
  <2>4. LedgerTypeOK'
    BY <1>0, <2>2, <2>3 DEF LedgerTypeOK
  <2>5. OpenRuns'
    BY <1>0, <2>1, <2>2, <2>3 DEF OpenRuns
  <2>6. \A k \in Machines : Quiet(k)
    BY <1>0, <2>1, <2>2, <2>3 DEF Quiet, Spent, Completed, Entries
  <2> QED BY <2>4, <2>5, <2>6, BooksStep DEF LedgerInv
<1>3. ASSUME NEW i \in DOMAIN history, Ask(i) PROVE LedgerInv'
  <2>1. /\ i \in unasked /\ unasked' = unasked \ {i} /\ history' = history /\ open' = open
        /\ asked' = [asked EXCEPT ![history[i].machine] = @ + 1]
    BY <1>3 DEF Ask, Asked
  <2>2. LedgerTypeOK' /\ OpenRuns'
    BY <1>0, <2>1 DEF LedgerTypeOK, OpenRuns
  <2>3. ASSUME NEW m \in Machines PROVE Quiet(m) \/ Charged(m, i)
    <3>1. CASE m = history[i].machine
      BY <1>0, <2>1, <3>1 DEF Charged, Spent, Completed, Entries
    <3>2. CASE m # history[i].machine
      BY <1>0, <2>1, <3>2 DEF Quiet, Spent, Completed, Entries
    <3> QED BY <3>1, <3>2
  <2> QED BY <2>2, <2>3, BooksStep DEF LedgerInv
<1>4. ASSUME NEW i \in DOMAIN history, NEW status \in {"failed", "completed"},
             history' = [history EXCEPT ![i].status = status],
             i \in open, End(i),
             \/ asked' = asked /\ (status = "completed" => i \notin unasked)
             \/ i \in unasked /\ status = "failed" /\ Asked(i)
      PROVE  LedgerInv'
  <2>1. open' = open \ {i} /\ unasked' = unasked \ {i}
    BY <1>4 DEF End
  <2>2. /\ history' \in Seq(Entry) /\ DOMAIN history' = DOMAIN history
        /\ \A k \in DOMAIN history : /\ history'[k].machine = history[k].machine
                                     /\ k # i => history'[k] = history[k]
        /\ history'[i].status = status
    <3> DEFINE closed == [history[i] EXCEPT !.status = status]
    <3>1. history[i] \in Entry
      BY <1>0
    <3>2. closed \in Entry /\ closed.machine = history[i].machine /\ closed.status = status
      BY <1>4, <3>1 DEF Entry
    <3>3. history' = [history EXCEPT ![i] = closed]
      BY <1>4
    <3> HIDE DEF closed
    <3> QED BY <1>0, <3>2, <3>3
  <2>3. asked' \in [Machines -> Nat]
    BY <1>0, <1>4 DEF Asked
  <2>4. LedgerTypeOK' /\ OpenRuns'
    BY <1>0, <2>1, <2>2, <2>3 DEF LedgerTypeOK, OpenRuns
  <2>5. ASSUME NEW m \in Machines PROVE Quiet(m) \/ Charged(m, i)
    <3>1. CASE asked' = asked /\ (status = "completed" => i \notin unasked)
      BY <1>0, <1>4, <2>1, <2>2, <3>1 DEF Quiet, Spent, Completed, Entries
    <3>2. CASE i \in unasked /\ status = "failed" /\ Asked(i) /\ m = history[i].machine
      BY <1>0, <1>4, <2>1, <2>2, <3>2 DEF Charged, Spent, Completed, Entries, Asked
    <3>3. CASE i \in unasked /\ status = "failed" /\ Asked(i) /\ m # history[i].machine
      BY <1>0, <1>4, <2>1, <2>2, <3>3 DEF Quiet, Spent, Completed, Entries, Asked
    <3> QED BY <1>4, <3>1, <3>2, <3>3
  <2> QED BY <2>4, <2>5, BooksStep DEF LedgerInv
<1>5. ASSUME NEW i \in DOMAIN history, Fail(i) \/ Complete(i) PROVE LedgerInv'
  BY <1>4, <1>5 DEF Fail, Complete
<1>6. ASSUME NEW i \in DOMAIN history, LeaveOpen(i) PROVE LedgerInv'
  BY <1>0, <1>1, <1>6 DEF LeaveOpen, End
<1>7. ASSUME NEW m \in Machines, Begin(m) \/ GiveUp(m) PROVE LedgerInv'
  BY <1>0, <1>1, <1>7 DEF Begin, GiveUp
<1>8. CASE Stop \/ UNCHANGED ledgerVars
  BY <1>0, <1>1, <1>8 DEF Stop, ledgerVars
<1> QED BY <1>2, <1>3, <1>5, <1>6, <1>7, <1>8 DEF LedgerNext

LEMMA LedgerStart == LedgerInit => LedgerInv
<1> SUFFICES ASSUME LedgerInit PROVE LedgerInv
  OBVIOUS
<1>1. LedgerTypeOK /\ OpenRuns
  BY DEF LedgerInit, LedgerTypeOK, OpenRuns
<1>2. \A m \in Machines : Spent(m) = {} /\ Entries(m) = {} /\ asked[m] = 0
  BY DEF LedgerInit, Spent, Completed, Entries
<1> QED BY <1>1, <1>2, FS_EmptySet DEF LedgerInv, Books

LEMMA LedgerBalances == LedgerInv => Balanced
<1> SUFFICES ASSUME LedgerInv, NEW m \in Machines
             PROVE  Cardinality(Completed(m)) <= asked[m] /\ asked[m] <= Cardinality(Entries(m))
  BY DEF Balanced
<1>1. /\ Completed(m) \subseteq Spent(m) /\ Spent(m) \subseteq DOMAIN history
      /\ Entries(m) \ unasked \subseteq Entries(m) /\ Entries(m) \subseteq DOMAIN history
  BY DEF Spent, Completed, Entries
<1>2. \A S \in SUBSET DOMAIN history : IsFiniteSet(S) /\ Cardinality(S) \in Nat
  BY EntriesFinite DEF LedgerInv, LedgerTypeOK
<1>3. /\ Cardinality(Completed(m)) <= Cardinality(Spent(m))
      /\ Cardinality(Entries(m) \ unasked) <= Cardinality(Entries(m))
  BY <1>1, <1>2, FS_Subset
<1>4. /\ asked[m] \in Nat /\ Cardinality(Completed(m)) \in Nat
      /\ Cardinality(Spent(m)) \in Nat /\ Cardinality(Entries(m)) \in Nat
      /\ Cardinality(Entries(m) \ unasked) \in Nat
  BY <1>1, <1>2 DEF LedgerInv, LedgerTypeOK
<1>5. Cardinality(Spent(m)) <= asked[m] /\ asked[m] <= Cardinality(Entries(m) \ unasked)
  BY DEF LedgerInv, Books
<1> QED BY <1>3, <1>4, <1>5

(* The ledger balances at all times: changes are neither made up nor left out. *)
THEOREM BalancedCorrect == LedgerSpec => []Balanced
  BY LedgerStart, LedgerStep, LedgerBalances, PTL DEF LedgerSpec
=============================================================================
