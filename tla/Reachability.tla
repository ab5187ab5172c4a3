---------------------------- MODULE Reachability ----------------------------
(***************************************************************************)
(* HealthHistory driven by the state of the machines' networks: do the     *)
(* counters follow it in the end, although checks overlap and overwrite    *)
(* one another's counts?                                                   *)
(***************************************************************************)
EXTENDS HealthHistory

VARIABLE link   \* can the probes reach the machine?

linkVars == <<machine, check, spawned, failed, grounds, late, link>>

Links == {"up", "flaky", "down"}

(* The failure scores checks may have over each kind of link. *)
ScoresOver(l) ==
  CASE l = "up" -> {"low"} [] l = "down" -> {"high"} [] l = "flaky" -> Scores

LinkInit == HistoryInit /\ link = [m \in Machines |-> "flaky"]

(* Steps that neither end a check nor begin a count anew. *)
Silent == Unnoted /\ UNCHANGED link

ProbeLink(c, m) == \E score \in ScoresOver(link[m]) : CheckProbe(c, m, score) /\ Silent

(* The client goes while the probes run: the score says nothing of the link. *)
AbandonLink(c, m) == \E score \in Scores : CheckAbandon(c, m, score) /\ Silent

StoreNoted(c) == CheckStore(c) /\ NoteCheck(c) /\ UNCHANGED link

ChangeLink(m, l) ==
  /\ link' = [link EXCEPT ![m] = l]
  /\ UNCHANGED historyVars

LinkNext ==
  \/ \E c \in Callers, m \in Machines : ProbeLink(c, m) \/ AbandonLink(c, m)
  \/ \E c \in Callers : (CheckLoad(c) \/ CheckCancel(c)) /\ Silent
  \/ \E c \in Callers : StoreNoted(c)
  \/ \E m \in Machines :
       \/ RunSpawned(m) /\ Silent
       \/ (ResetCounters(m) \/ DeleteMachine(m)) /\ NoteRenewal(m) /\ UNCHANGED link
       \/ \E auto \in BOOLEAN : CreateMachine(m, auto) /\ NoteRenewal(m) /\ UNCHANGED link
       \/ \E l \in Links : ChangeLink(m, l)

(***************************************************************************)
(* A goroutine in a check goes on: the probes have timeouts and so has the *)
(* database.  (Strong fairness of CheckStore only makes up for the bound   *)
(* MaxSpawned in its guard; in the code the step is never disabled.)       *)
(* Spawned rotations run.  The scheduler comes back to every machine: some *)
(* caller that is not a request checks it again and again.                 *)
(***************************************************************************)
LinkFairness ==
  /\ \A c \in Callers :
       /\ WF_linkVars(CheckLoad(c) /\ Silent)
       /\ SF_linkVars(StoreNoted(c))
  /\ \A m \in Machines :
       /\ WF_linkVars(RunSpawned(m) /\ Silent)
       /\ SF_linkVars(\E c \in Callers \ Requests : ProbeLink(c, m))

LinkSpec == LinkInit /\ [][LinkNext]_linkVars /\ LinkFairness

-----------------------------------------------------------------------------

(* From some time on machine m exists, its link is l and no rotation resets it. *)
Settles(m, l) ==
  /\ <>[](machine[m].exists /\ link[m] = l)
  /\ <>[][~ResetCounters(m)]_linkVars

(***************************************************************************)
(* A machine that stays unreachable becomes suspect and stays so, whatever *)
(* the overlap: a slow check may take the count back to what it read, but  *)
(* the smallest of the stored and the held counts only grows.              *)
(***************************************************************************)
DownIsDetected ==
  \A m \in Machines : Settles(m, "down") => <>[](machine[m].health = "suspect")

(* A machine that stays reachable is shown as healthy in the end, and stays so. *)
RecoveryIsSeen ==
  \A m \in Machines : Settles(m, "up") => <>[](machine[m].health = "healthy")

-----------------------------------------------------------------------------
(***************************************************************************)
(* Why they hold, step by step.  Over a link that stays down the failure   *)
(* column is told by the checks, over one that stays up the success        *)
(* column; l is the link.                                                  *)
(***************************************************************************)
Telling(l)   == IF l = "down" THEN "high" ELSE "low"
Threshold(l) == IF l = "down" THEN FailureThreshold ELSE SuccessRecovery
Shown(l)     == IF l = "down" THEN "suspect" ELSE "healthy"
Stored(m, l) == IF l = "down" THEN machine[m].failure ELSE machine[m].success
Held(c, l)   == IF l = "down" THEN check[c].failure ELSE check[c].success

(* Checks under way, but for those whose client has gone: these write no row. *)
Checks(m) == {c \in Callers : check[c].machine = m /\ check[c].pc \in {"probed", "loaded"}}
Loaded(m) == {c \in Checks(m) : check[c].pc = "loaded"}

(* m exists, and its checks that are under way found the link as it is now. *)
Steady(m, l) ==
  /\ machine[m].exists /\ link[m] = l
  /\ \A c \in Checks(m) : check[c].score = Telling(l)

(* No count of m, stored or held by a check, is below n. *)
AtLeast(m, l, n) == Stored(m, l) >= n /\ \A c \in Loaded(m) : Held(c, l) >= n

(* The stored count has passed n; the checks that lag behind still hold n. *)
Ahead(m, l, n) == AtLeast(m, l, n) /\ Stored(m, l) > n
Lagging(m, l, n) == {c \in Loaded(m) : Held(c, l) <= n}

Seen(m, l) == AtLeast(m, l, Threshold(l)) /\ machine[m].health = Shown(l)

NothingFallsBack(m, l) ==
  /\ Steady(m, l)'
  /\ \A n \in 0..Threshold(l) :
       /\ AtLeast(m, l, n) => AtLeast(m, l, n)'
       /\ Ahead(m, l, n) => Ahead(m, l, n)' /\ Lagging(m, l, n)' \subseteq Lagging(m, l, n)
  /\ Seen(m, l) => Seen(m, l)'

StoreAdvances(m, l, c) ==
  \A n \in 0..Threshold(l) :
    AtLeast(m, l, n) => IF n < Threshold(l) THEN Ahead(m, l, n)' ELSE Seen(m, l)'

(***************************************************************************)
(* While m exists, its link stays l and no rotation resets it: the         *)
(* smallest count never falls, a check that lags behind it never comes     *)
(* anew, the health shown stays once the count has reached its threshold,  *)
(* and every check that stores its verdict passes the smallest count, or   *)
(* shows the health.  So a machine is seen as it is after Threshold(l)     *)
(* rounds in which each check under way ends.                              *)
(***************************************************************************)
CountsFollowLink ==
  [][\A m \in Machines, l \in {"up", "down"} :
       Steady(m, l) /\ machine'[m].exists /\ link'[m] = l /\ ~ResetCounters(m) =>
         /\ NothingFallsBack(m, l)
         /\ \A c \in Loaded(m) : CheckStore(c) => StoreAdvances(m, l, c)]_linkVars
=============================================================================
