------------------------------ MODULE NonceSync ------------------------------
(***************************************************************************)
(* The sync-nonce command (apps/relayer/src/cli/sync-nonce.ts): an         *)
(* operator's repair of a journal whose signing key was used elsewhere.    *)
(* The command is a process of its own on the journal file of              *)
(* SignerCoordinator; the service lock keeps it and the coordinator from   *)
(* running at the same time (StateDirectory shows what the lock does, and  *)
(* what the command's own checks do when the lock file is replaced).       *)
(***************************************************************************)
EXTENDS SignerCoordinator

VARIABLE
    sync    \* the command in progress, None when there is none

syncVars == <<vars, sync>>

\* `base' is the snapshot read first, `plan' the one to write.
Sync == [stage : {"inspect", "save"}, apply : BOOLEAN,
         base : Snapshot, plan : Snapshot \cup {None}]

SyncTypeOK == TypeOK /\ sync \in Sync \cup {None}

-----------------------------------------------------------------------------
(* planNonceSync.                                                          *)

Plan(status, snapshot) == [status |-> status, snapshot |-> snapshot]

\* An attempt that may still be mined rules the repair out.
HasAttempts(s) == s.attempts # <<>>

\* The observation is older than the recorded one, or of another fork.
AnchorRefused(s, obs) ==
    \/ obs.num < s.lastObs.num
    \/ obs.num = s.lastObs.num /\ obs.hash # s.lastObs.hash

\* It would lower a counter, or forget that the account was seen further on.
NonceRefused(s, obs) == obs.nonce < s.next \/ obs.nonce < s.lastObs.nonce

\* What the journal keeps of the repair, and of the ones before it.
RepairOf(s, obs) == [previous |-> s.next, next |-> obs.nonce, observed |-> obs.nonce]

LatestRepairs_All(rs) == rs
LatestRepairs(rs) ==
    IF Len(rs) > MaxRepairs THEN SubSeq(rs, Len(rs) - MaxRepairs + 1, Len(rs)) ELSE rs

Repaired(s, obs) ==
    [s EXCEPT !.lastObs = obs, !.next = obs.nonce, !.durableNext = obs.nonce,
              !.repairs = LatestRepairs(Append(@, RepairOf(s, obs)))]

PlanNonceSync(s, obs, latestNonce, pendingNonce) ==
    CASE HasAttempts(s)             -> Plan("refused", None)
      [] ~HasAttempts(s) /\ AnchorRefused(s, obs) -> Plan("refused", None)
      [] OTHER ->
         CASE NonceRefused(s, obs) -> Plan("refused", None)
           [] ~NonceRefused(s, obs)
              /\ (obs.nonce # latestNonce \/ obs.nonce # pendingNonce) ->
                Plan("deferred", None)
           [] ~NonceRefused(s, obs)
              /\ obs.nonce = latestNonce /\ obs.nonce = pendingNonce ->
                IF obs.nonce = s.next THEN Plan("already-synchronized", None)
                ELSE Plan("repair-available", Repaired(s, obs))

-----------------------------------------------------------------------------
(* syncNonce.                                                              *)

\* The command reads the journal.  A missing one, or one with attempts, ends it.
SyncRead ==
    /\ ~up /\ sync = None
    /\ disk # None
    /\ ~HasAttempts(disk)
    /\ \E apply \in BOOLEAN :
         sync' = [stage |-> "inspect", apply |-> apply, base |-> disk, plan |-> None]
    /\ UNCHANGED vars

InspectedBlocks_Latest == 1..Len(chain)

\* The durable block, which the provider may answer from a moment ago.
InspectedBlocks == 1..durable

PlanAt(n, pendingNonce) ==
    PlanNonceSync(sync.base, AnchoredNonce(n), LatestNonce, pendingNonce)

\* inspectNonceSync and the plan from it.  A preview, every plan without a repair
\* and a repair the journal's validation refuses end the command.
SyncPlan ==
    /\ sync # None /\ sync.stage = "inspect"
    /\ \E n \in InspectedBlocks, pendingNonce \in {LatestNonce, LatestNonce + 1} :
         LET plan == PlanAt(n, pendingNonce)
         IN  sync' = IF /\ sync.apply
                        /\ plan.status = "repair-available"
                        /\ ValidSnapshot(plan.snapshot)
                     THEN [sync EXCEPT !.stage = "save", !.plan = plan.snapshot]
                     ELSE None
    /\ UNCHANGED vars

\* store.save: the repair is durable before the command reports it.
SyncApply ==
    /\ sync # None /\ sync.stage = "save"
    /\ disk' = sync.plan
    /\ sync' = None
    /\ UNCHANGED <<chainVars, memVars>>

\* Cancelled, refused by a later check, failed or killed before the file is
\* replaced.
SyncStop ==
    /\ sync # None
    /\ sync' = None
    /\ UNCHANGED vars

SyncStart == sync = None /\ Start /\ UNCHANGED sync

SyncInit == Init /\ sync = None

SyncNext ==
    \/ SyncRead \/ SyncPlan \/ SyncApply \/ SyncStop
    \/ SyncStart
    \/ /\ Crash \/ Persistence \/ Inspection \/ Recovery \/ Inclusion \/ Submission
       /\ UNCHANGED sync
    \/ ChainNext /\ UNCHANGED <<disk, memVars, sync>>

SyncSpec == SyncInit /\ [][SyncNext]_syncVars

-----------------------------------------------------------------------------
\* Whatever journal the command starts from and whatever the provider answers, a
\* repair it offers is one the journal's own validation accepts.
RepairIsValid ==
    (sync # None /\ sync.stage = "inspect") =>
        \A n \in InspectedBlocks, pendingNonce \in {LatestNonce, LatestNonce + 1} :
            LET plan == PlanAt(n, pendingNonce)
            IN  plan.status = "repair-available" => ValidSnapshot(plan.snapshot)

\* Neither the coordinator nor the command locks itself out of its journal: no
\* update they derive is refused by validateTransactionJournalSnapshot.
SyncInv == SyncTypeOK /\ OwnUpdatesAreValid /\ RepairIsValid

\* Evidence that the key was used elsewhere leaves the journal only by a repair,
\* and only once a durable block has the account at least as far as the evidence:
\* no reorganisation, stale provider or restart can clear it otherwise.
EvidenceIsAccountedFor ==
    [][(disk # None /\ UnattributedIn(disk) /\ ~UnattributedIn(disk')) =>
         /\ sync # None
         /\ disk.lastObs.nonce <= disk'.next
         /\ disk'.next <= chain[durable].nonce]_syncVars

\* After a repair, a coordinator that starts on the file is not blocked and will
\* never sign with a nonce that is consumed at a durable block it has observed.
RepairUnblocks ==
    [][(sync # None /\ disk' # disk) =>
         /\ Latched(disk') = {}
         /\ disk'.lastObs.num <= durable
         /\ disk'.next = chain[disk'.lastObs.num].nonce
         /\ disk'.next > disk.next]_syncVars

\* A repair clears what it has accounted for, and all of it.
RepairsAreSound == EvidenceIsAccountedFor /\ RepairUnblocks
=============================================================================
