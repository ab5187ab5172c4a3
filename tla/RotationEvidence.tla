-------------------------- MODULE RotationEvidence --------------------------
(***************************************************************************)
(* Rotation with history variables: what the checks of a machine found, as *)
(* in HealthHistory, and which rotations knew the address they replaced.   *)
(* They say on what grounds the address of a machine is changed, and that  *)
(* it was.  The history variables never restrict a step.                   *)
(***************************************************************************)
EXTENDS RotationImplements, HealthHistory

VARIABLES
  sighted,   \* rotations in progress whose old address was the provider's when they asked
  trusted    \* the rows of such rotations

historicVars == <<vars, failed, grounds, late, sighted, trusted>>

HistoricInit ==
  /\ RotationInit
  /\ failed = [m \in Machines |-> 0] /\ grounds = [m \in Machines |-> 0] /\ late = {}
  /\ sighted = {} /\ trusted = {}

(* j writes its new address, and with it zero counters. *)
Records(j) == RecordAddress(j) /\ machine[job[j].machine].exists /\ ~job[j].cancelled

(* The step lets the count of m begin anew. *)
Renews(m) == \/ machine'[m].exists # machine[m].exists
             \/ \E j \in Jobs : Records(j) /\ job[j].machine = m

(* A check that the step ends and a count that begins anew enter the history. *)
NoteChecks ==
  \/ \E c \in Callers : CheckStore(c) /\ NoteCheck(c)
  \/ \E m \in Machines : Renews(m) /\ NoteRenewal(m)
  \/ Crash /\ late' = {} /\ UNCHANGED <<failed, grounds>>
  \/ /\ ~(\E c \in Callers : CheckStore(c)) /\ ~(\E m \in Machines : Renews(m)) /\ ~Crash
     /\ Unnoted

(* j has asked for the list and goes on with the address the provider shows. *)
Sights(j) ==
  /\ job[j].pc = "list" /\ job'[j].pc = "insert"
  /\ job'[j].old = panel[job[j].machine].ip

NoteAddresses ==
  /\ sighted' = {j \in Jobs : job'[j].pc # "idle" /\ (j \in sighted \/ Sights(j))}
  /\ trusted' = trusted \union
       {job'[j].row : j \in {k \in sighted : job[k].pc = "insert" /\ job'[k].pc = "change"}}

HistoricNext == Next /\ NoteChecks /\ NoteAddresses

HistoricSpec == HistoricInit /\ [][HistoricNext]_historicVars

-----------------------------------------------------------------------------

(* Completed rotations of m that knew the address they replaced. *)
CompletedSighted(m) ==
  {i \in trusted : rotations[i].machine = m /\ rotations[i].status = "completed"}

(***************************************************************************)
(* Rotations of m that are completed, and whose list request had shown     *)
(* them the old address, are no more than the changes the provider has     *)
(* carried out: none takes an unchanged address for a new one, and a late  *)
(* change of a rotation that timed out is not taken for theirs by two.     *)
(* (It fails for rotations that had to rely on the stored address.)        *)
(***************************************************************************)
CompletedWereCarriedOut ==
  \A m \in Machines : Cardinality(CompletedSighted(m)) <= panel[m].done

(***************************************************************************)
(* A machine is suspect only on the grounds of checks since its address    *)
(* was recorded, late ones apart, although the address is recorded by a    *)
(* rotation that runs checks of its own; and an automatic rotation is in   *)
(* progress, or about to start, only for a machine of which                *)
(* FailureThreshold checks have really failed, across restarts as well.    *)
(***************************************************************************)
EvidenceBeforeRotation ==
  /\ EvidenceBeforeSuspect
  /\ \A j \in Jobs : Live(j) /\ job[j].auto => failed[job[j].machine] = FailureThreshold
=============================================================================
