------------------------- MODULE RotationImplements -------------------------
(***************************************************************************)
(* Module Rotation implements the ledger of module RotationLedger: the     *)
(* lock is the set of machines that rotate, the rows of the rotations in   *)
(* progress are the open entries, and a row whose job has still to call    *)
(* the provider is unasked.                                                *)
(***************************************************************************)
EXTENDS Rotation

History == [i \in DOMAIN rotations |->
              [machine |-> rotations[i].machine, status |-> rotations[i].status]]
Open    == {job[j].row : j \in {k \in Jobs : InHistory(k)}}
Unasked == {job[j].row : j \in {k \in Jobs : job[k].pc = "change"}}
Asked   == [m \in Machines |-> panel[m].asked]

Ledger == INSTANCE RotationLedger WITH
  rotating <- lock, history <- History, open <- Open, unasked <- Unasked, asked <- Asked

(***************************************************************************)
(* Every step of the rotations, whatever checks, crashes, cancelled        *)
(* requests and other writers come between, is a step of the ledger or     *)
(* leaves it alone: nothing asks before it has a row, asks twice, closes   *)
(* another's row, or completes what was not asked for.                     *)
(***************************************************************************)
ImplementsLedger == Ledger!LedgerSpec

(***************************************************************************)
(* The books of the code balance: the provider was asked for a change for  *)
(* every rotation that is recorded as completed, and has a row for every   *)
(* change it was asked for, across failures, cancelled requests and        *)
(* restarts.                                                               *)
(***************************************************************************)
LedgerBalanced == Ledger!Balanced
=============================================================================
