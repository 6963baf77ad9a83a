-------------------------- MODULE SignerCoordinator --------------------------
(***************************************************************************)
(* apps/relayer/src/state/signer-coordinator.ts: the single owner of the   *)
(* signer's nonce allocation, of its journal and of the authority to sign  *)
(* and to broadcast, with crashes and restarts of the process.             *)
(*                                                                         *)
(* Any caller may invoke any public operation whenever the coordinator     *)
(* accepts it.  An operation is split where the code awaits: the RPC reads *)
(* or the signature, the journal write, the broadcast request.  Everything *)
(* between two awaits is one action.                                       *)
(*                                                                         *)
(* The journal file is one atomic register, `disk': JournalStore shows     *)
(* that FileTransactionJournalStore is one.  A write that did not complete *)
(* may or may not have reached it.                                         *)
(***************************************************************************)
EXTENDS SignerInspection

CONSTANTS
    MaxRetained,  \* maxRetainedAttempts
    HeadBrackets  \* whether a caller uses SignerInspection.openHead

ASSUME CoordinatorAssumption ==
    /\ MaxRetained \in Nat \ {0}
    /\ HeadBrackets \in BOOLEAN

VARIABLES
    disk,         \* the journal file: a snapshot, or None when there is none
    up,           \* the process runs
    current,      \* persistence.current: the last acknowledged snapshot
    pending,      \* the snapshot being written, or retained by a failed write
    pstate,       \* persistence.state
    write,        \* pendingWrite: its kind, and whether it exhausts a search
    recovered,    \* recoveryComplete
    inclusions,   \* inclusionChecksComplete
    op,           \* the operation in progress (busy), None when there is none
    permit,       \* broadcastPermit
    blockers,     \* the latched blockers
    owner         \* inspectionOwner

memVars == <<up, current, pending, pstate, write, recovered, inclusions, op,
             permit, blockers, owner>>
vars    == <<chainVars, disk, memVars>>

Unattributed == "unattributed-signer-activity"
Exhausted    == "conflict-search-exhausted"

WriteKind == {"bootstrap", "observation", "resolution", "search-progress",
              "prepared", "broadcast"}
OpKind    == {"recover", "inclusions", "open-head", "prepare", "broadcast", "retry"}
OpStage   == {"read", "sign", "write", "send"}

\* `permit': the attempt the operation may authorise once its write succeeds;
\* `complete': whether its inclusion checks were complete.
Op    == [kind : OpKind, stage : OpStage, permit : AttemptIds \cup {None},
          complete : BOOLEAN]
Owner == [abandoning : BOOLEAN, bracket : {"none", "open", "closed", "failed"},
          ran : BOOLEAN, head : Anchor \cup {None}]

\* The absent value is told apart from every value it may stand in for.
ASSUME AbsentAssumption == None \notin Snapshot /\ None \notin Op /\ None \notin Owner

TypeOK ==
    /\ ChainTypeOK
    /\ disk \in Snapshot \cup {None}
    /\ current \in Snapshot \cup {None}
    /\ pending \in Snapshot \cup {None}
    /\ up \in BOOLEAN /\ recovered \in BOOLEAN /\ inclusions \in BOOLEAN
    /\ pstate \in {"idle", "writing", "failed"}
    /\ write \in [kind : WriteKind, exhausted : BOOLEAN] \cup {None}
    /\ op \in Op \cup {None}
    /\ permit \in AttemptIds \cup {None}
    /\ blockers \subseteq {Unattributed, Exhausted}
    /\ owner \in Owner \cup {None}

-----------------------------------------------------------------------------
(* Derived state.                                                          *)

\* The oldest attempt without a recorded inclusion (only if there is one).
Unresolved(s) == s.attempts[FirstUnresolved(s.attempts)]

\* latchUnattributedActivity: the account moved past every allocated nonce.
UnattributedIn(s) == s # None /\ s.lastObs.nonce > s.next

\* latchExhaustedSearch: the recorded search reached the last observation.
ExhaustedIn(s) ==
    /\ s # None
    /\ FirstUnresolved(s.attempts) # 0
    /\ LET a == Unresolved(s)
       IN  /\ a.search # None
           /\ a.search.through # None
           /\ s.lastObs.nonce > a.nonce
           /\ a.search.through = AnchorPart(s.lastObs)

Latched(s) ==
    (IF UnattributedIn(s) THEN {Unattributed} ELSE {})
    \cup (IF ExhaustedIn(s) THEN {Exhausted} ELSE {})

\* evaluateSignerGate, and the part SignerCoordinator.status adds to it.
GateOpen ==
    /\ up /\ op = None /\ owner = None
    /\ pstate = "idle" /\ blockers = {}
    /\ recovered /\ inclusions /\ current # None
    /\ FirstUnresolved(current.attempts) = 0
    /\ Len(current.attempts) < MaxRetained

\* SignerCoordinator.canBroadcast.
CanBroadcast ==
    /\ up /\ op = None /\ owner = None
    /\ write = None /\ pstate = "idle" /\ current # None
    /\ FirstUnresolved(current.attempts) # 0
    /\ recovered /\ blockers = {}
    /\ permit = Unresolved(current).id
    /\ current.lastObs.nonce = Unresolved(current).nonce

\* assertAvailable for a caller outside an inspection, and for its owner.
Available      == up /\ owner = None /\ op = None
OwnerAvailable == up /\ owner # None /\ ~owner.abandoning /\ op = None
Settled        == write = None /\ pstate = "idle"

\* assertInspectionWorkAllowed.
WorkAllowed == OwnerAvailable /\ owner.bracket \in {"none", "open"}

\* runInspectionOperation: an operation that throws fails an open bracket.
\* Its authorisations were revoked when it began.
FailBracket(o) == IF o # None /\ o.bracket = "open"
                  THEN [o EXCEPT !.bracket = "failed"] ELSE o

Begin(kind, stage) ==
    op' = [kind |-> kind, stage |-> stage, permit |-> None, complete |-> FALSE]

-----------------------------------------------------------------------------
(* Process lifetime.                                                       *)

Down ==
    /\ up' = FALSE /\ current' = None /\ pending' = None /\ pstate' = "idle"
    /\ write' = None /\ recovered' = FALSE /\ inclusions' = FALSE
    /\ op' = None /\ permit' = None /\ blockers' = {} /\ owner' = None

Init ==
    /\ ChainInit
    /\ disk = None
    /\ up = FALSE /\ current = None /\ pending = None /\ pstate = "idle"
    /\ write = None /\ recovered = FALSE /\ inclusions = FALSE
    /\ op = None /\ permit = None /\ blockers = {} /\ owner = None

\* SignerCoordinator.create: load the journal and latch what it records.
Start ==
    /\ ~up
    /\ up' = TRUE
    /\ current' = disk
    /\ blockers' = Latched(disk)
    /\ UNCHANGED <<chainVars, disk, pending, pstate, write, recovered,
                   inclusions, op, permit, owner>>

\* The process stops.  A write in progress may or may not have landed.
Crash ==
    /\ up
    /\ \/ UNCHANGED disk
       \/ pstate = "writing" /\ disk' = pending
    /\ Down
    /\ UNCHANGED chainVars

-----------------------------------------------------------------------------
(* Journal persistence under an operation (JournalPersistence).            *)

\* persistence.save(next), with pendingWrite already set to `kind'.
Save(next, kind, exhausted) ==
    /\ ValidSnapshot(next)
    /\ pending' = next
    /\ pstate' = "writing"
    /\ write' = [kind |-> kind, exhausted |-> exhausted]

Committed_InMemory ==
    /\ UNCHANGED disk
    /\ current' = pending
    /\ pending' = None
    /\ pstate' = "idle"

\* persistPending succeeds.
Committed ==
    /\ disk' = pending
    /\ current' = pending
    /\ pending' = None
    /\ pstate' = "idle"

\* finishWrite: clear the pending write and re-latch the blockers.
FinishWrite ==
    /\ write' = None
    /\ blockers' = (CASE write.kind = "resolution" -> blockers \ {Exhausted}
                      [] write.kind = "search-progress" /\ write.exhausted ->
                           blockers \cup {Exhausted}
                      [] write.kind = "search-progress" /\ ~write.exhausted ->
                           blockers \ {Exhausted}
                      [] OTHER -> blockers)
                   \cup Latched(pending)

\* The write is rejected; whether it landed is not known.  The operation fails:
\* authority obtained from it never appears.
WriteFails ==
    /\ up /\ pstate = "writing"
    /\ \/ UNCHANGED disk
       \/ disk' = pending
    /\ pstate' = "failed"
    /\ recovered' = (recovered /\ op.kind # "prepare")
    /\ owner' = FailBracket(owner)
    /\ op' = None
    /\ UNCHANGED <<chainVars, up, current, pending, write, inclusions, permit,
                   blockers>>

\* retryPersistence writes the retained snapshot again.
RetryPersistence ==
    /\ Available
    /\ write # None /\ pstate = "failed"
    /\ pstate' = "writing"
    /\ Begin("retry", "write")
    /\ UNCHANGED <<chainVars, disk, up, current, pending, write, recovered,
                   inclusions, permit, blockers, owner>>

RetryCommits ==
    /\ up /\ op # None /\ op.kind = "retry"
    /\ Committed /\ FinishWrite
    /\ op' = None
    /\ UNCHANGED <<chainVars, up, recovered, inclusions, permit, owner>>

-----------------------------------------------------------------------------
(* Inspections.                                                            *)

BeginInspection ==
    /\ Available /\ Settled
    /\ owner' = [abandoning |-> FALSE, bracket |-> "none", ran |-> FALSE,
                 head |-> None]
    /\ permit' = None /\ inclusions' = FALSE
    /\ UNCHANGED <<chainVars, disk, up, current, pending, pstate, write,
                   recovered, op, blockers>>

\* finishInspection: the pass may now authorise actions.
FinishInspection ==
    /\ OwnerAvailable /\ Settled
    /\ owner.bracket \in {"none", "closed"}
    /\ owner' = None
    /\ UNCHANGED <<chainVars, disk, up, current, pending, pstate, write,
                   recovered, inclusions, op, permit, blockers>>

\* abandonInspection: revoke now, and again once the operation in flight, whose
\* completion may authorise something, has settled.
AbandonInspection ==
    /\ up /\ owner # None /\ ~owner.abandoning
    /\ owner' = [owner EXCEPT !.abandoning = TRUE]
    /\ permit' = None /\ inclusions' = FALSE
    /\ UNCHANGED <<chainVars, disk, up, current, pending, pstate, write,
                   recovered, op, blockers>>

CompleteAbandonment_KeepsAuthority ==
    /\ up /\ owner # None /\ owner.abandoning /\ op = None
    /\ owner' = None
    /\ UNCHANGED <<chainVars, disk, up, current, pending, pstate, write,
                   recovered, inclusions, op, permit, blockers>>

CompleteAbandonment ==
    /\ up /\ owner # None /\ owner.abandoning /\ op = None
    /\ owner' = None
    /\ permit' = None /\ inclusions' = FALSE
    /\ UNCHANGED <<chainVars, disk, up, current, pending, pstate, write,
                   recovered, op, blockers>>

\* openInspectionHeadOwned: until the head is confirmed the bracket is failed.
OpenHeadBegin ==
    /\ HeadBrackets
    /\ WorkAllowed /\ ~owner.ran /\ owner.bracket = "none"
    /\ \E n \in 1..Len(chain) :
         owner' = [owner EXCEPT !.bracket = "failed", !.head = AnchorOf(n)]
    /\ Begin("open-head", "read")
    /\ UNCHANGED <<chainVars, disk, up, current, pending, pstate, write,
                   recovered, inclusions, permit, blockers>>

OpenHeadEnd ==
    /\ up /\ op # None /\ op.kind = "open-head"
    /\ \/ owner' = owner
       \/ /\ Canonical(owner.head)
          /\ owner' = [owner EXCEPT !.bracket = "open"]
    /\ op' = None
    /\ UNCHANGED <<chainVars, disk, up, current, pending, pstate, write,
                   recovered, inclusions, permit, blockers>>

-----------------------------------------------------------------------------
(* recoverOwned.                                                           *)

RecoverBegin ==
    /\ WorkAllowed /\ Settled
    /\ owner' = [owner EXCEPT !.ran = TRUE]
    /\ permit' = None /\ recovered' = FALSE /\ inclusions' = FALSE
    /\ Begin("recover", "read")
    /\ UNCHANGED <<chainVars, disk, up, current, pending, pstate, write, blockers>>

Reading(kind) == up /\ op # None /\ op.kind = kind /\ op.stage = "read"

\* The pass ends without a write: the anchor changed, or (which also fails an
\* open bracket) a request failed or a response was refused.
RecoverGivesUp ==
    /\ Reading("recover")
    /\ op' = None
    /\ owner' \in {owner, FailBracket(owner)}
    /\ UNCHANGED <<chainVars, disk, up, current, pending, pstate, write,
                   recovered, inclusions, permit, blockers>>

\* The blocks recovery may be anchored at: the durable head, which the caller may
\* have read a while ago.
RecoveryAnchors_Latest == {Len(chain)}
RecoveryAnchors == 1..durable

\* No journal: adopt the durable nonce once the three transaction counts agree.
RecoverBootstrapsAt(n) ==
    /\ Reading("recover")
    /\ current = None
    /\ \E pendingNonce \in {LatestNonce, LatestNonce + 1} :
         BootstrapReady(n, pendingNonce)
    /\ Save([baseline |-> chain[n].nonce, next |-> chain[n].nonce,
             durableNext |-> chain[n].nonce, lastObs |-> AnchoredNonce(n),
             repairs |-> <<>>, attempts |-> <<>>],
            "bootstrap", FALSE)
    /\ op' = [op EXCEPT !.stage = "write"]
    /\ UNCHANGED <<chainVars, disk, up, current, recovered, inclusions, permit,
                   blockers, owner>>

RecoverBootstraps == \E n \in RecoveryAnchors : RecoverBootstrapsAt(n)

\* Recorded evidence of other activity is not replaced by a lower observation.
KeepsEvidence(s, obs) ==
    Unattributed \in blockers /\ s.lastObs.nonce > obs.nonce

ObservationToKeep(s, obs) == IF KeepsEvidence(s, obs) THEN s.lastObs ELSE obs

\* Results that recoverOwned returns without writing anything.
ReturnsEarly(s, r) ==
    \/ r.status \in {"nonce-behind-journal", "inconsistent-observations"}
    \/ /\ r.status = "unresolved"
       /\ r.search.status \in {"boundary-changed", "anchor-behind-search"}
    \/ KeepsEvidence(s, r.obs) /\ r.status # "resolution-available"

\* The lower bound a first recovery pass records for an attempt without one.
RecordedSearch(a, s, lastObs) ==
    IF a.search = None /\ lastObs.nonce <= a.nonce
    THEN [lower |-> lastObs, through |-> None]
    ELSE ResolvedSearch(a, s.lastObs)

\* The snapshot a recovery pass writes.
RecoverySnapshot(s, r) ==
    LET lastObs == ObservationToKeep(s, r.obs)
        oldest  == s.attempts[1]
        bound   == RecordedSearch(oldest, s, lastObs)
        search  == IF r.search.status = "not-found"
                   THEN [bound EXCEPT !.through = r.search.at] ELSE bound
    IN  CASE s.attempts = <<>> -> [s EXCEPT !.lastObs = lastObs]
          [] s.attempts # <<>> /\ r.status = "resolution-available" ->
               [s EXCEPT !.lastObs = lastObs,
                         !.durableNext = oldest.nonce + 1,
                         !.attempts = Tail(@)]
          [] s.attempts # <<>> /\ r.status # "resolution-available" ->
               [s EXCEPT !.lastObs = lastObs, !.attempts[1].search = search]

RecoveryWriteKind(r) ==
    CASE r.status = "resolution-available" -> "resolution"
      [] r.status = "unresolved" /\ r.search.status = "not-found" ->
           "search-progress"
      [] OTHER -> "observation"

\* A pass that found the oldest attempt neither mined nor its nonce consumed
\* may authorise broadcasting it again.
RecoveryPermit(s, r) ==
    IF /\ r.status = "unresolved"
       /\ s.attempts[1].phase # "included"
       /\ r.obs.nonce = s.attempts[1].nonce
       /\ r.search = NoSearch
       /\ r.receipt = "absent"
    THEN s.attempts[1].id ELSE None

RecoverInspectsAt(n, served) ==
    /\ Reading("recover")
    /\ current # None
    /\ \E r \in {InspectRecovery(current, n, served)} :
           /\ ~ReturnsEarly(current, r)
           /\ Save(RecoverySnapshot(current, r), RecoveryWriteKind(r),
                   r.search.exhausted)
           /\ op' = [op EXCEPT !.stage = "write",
                               !.permit = RecoveryPermit(current, r)]
    /\ UNCHANGED <<chainVars, disk, up, current, recovered, inclusions, permit,
                   blockers, owner>>

RecoverInspects ==
    \E n \in RecoveryAnchors, served \in BOOLEAN : RecoverInspectsAt(n, served)

RecoverCommits ==
    /\ up /\ op # None /\ op.kind = "recover" /\ op.stage = "write"
    /\ Committed /\ FinishWrite
    /\ recovered' = TRUE
    /\ permit' = IF blockers' = {} THEN op.permit ELSE None
    /\ op' = None
    /\ UNCHANGED <<chainVars, up, inclusions, owner>>

-----------------------------------------------------------------------------
(* checkInclusionsOwned.                                                   *)

InclusionsBegin ==
    /\ WorkAllowed /\ Settled /\ current # None
    /\ owner' = [owner EXCEPT !.ran = TRUE]
    /\ permit' = None /\ inclusions' = FALSE
    /\ Begin("inclusions", "read")
    /\ UNCHANGED <<chainVars, disk, up, current, pending, pstate, write,
                   recovered, blockers>>

\* The head changed or a request failed; any such end fails an open bracket.
InclusionsGiveUp ==
    /\ Reading("inclusions")
    /\ op' = None
    /\ owner' = FailBracket(owner)
    /\ UNCHANGED <<chainVars, disk, up, current, pending, pstate, write,
                   recovered, inclusions, permit, blockers>>

InclusionHeads_Any == 1..Len(chain)

\* The blocks a pass may be anchored at: the opened head, else any head.
InclusionHeads ==
    {n \in 1..Len(chain) : owner.bracket = "open" => owner.head = AnchorOf(n)}

\* The head contradicts the journal: recovery has to be repeated.
InclusionsContradictAt(n, servedAt) ==
    /\ Reading("inclusions")
    /\ InspectInclusions(current, n, servedAt).status # "inspected"
    /\ recovered' = FALSE
    /\ op' = None
    /\ owner' = FailBracket(owner)
    /\ UNCHANGED <<chainVars, disk, up, current, pending, pstate, write,
                   inclusions, permit, blockers>>

InclusionsInspectAt_Prunes(n, servedAt) ==
    /\ Reading("inclusions")
    /\ \E r \in {InspectInclusions(current, n, servedAt)} :
           LET open == SelectSeq(r.attempts, LAMBDA a : a.phase # "included")
           IN  /\ r.status = "inspected"
               /\ Save([current EXCEPT !.lastObs = ObservationToKeep(current, r.obs),
                                       !.durableNext = current.next - Len(open),
                                       !.attempts = open],
                       "observation", FALSE)
               /\ op' = [op EXCEPT !.stage = "write", !.permit = r.permit,
                                   !.complete = r.complete]
    /\ UNCHANGED <<chainVars, disk, up, current, recovered, inclusions, permit,
                   blockers, owner>>

InclusionsInspectAt(n, servedAt) ==
    /\ Reading("inclusions")
    /\ \E r \in {InspectInclusions(current, n, servedAt)} :
           /\ r.status = "inspected"
           /\ Save([current EXCEPT !.lastObs = ObservationToKeep(current, r.obs),
                                   !.attempts = r.attempts],
                   "observation", FALSE)
           /\ op' = [op EXCEPT !.stage = "write", !.permit = r.permit,
                               !.complete = r.complete]
    /\ UNCHANGED <<chainVars, disk, up, current, recovered, inclusions, permit,
                   blockers, owner>>

InclusionsContradict ==
    /\ Reading("inclusions")
    /\ \E n \in InclusionHeads, servedAt \in SUBSET (1..Len(current.attempts)) :
         InclusionsContradictAt(n, servedAt)
InclusionsInspect ==
    /\ Reading("inclusions")
    /\ \E n \in InclusionHeads, servedAt \in SUBSET (1..Len(current.attempts)) :
         InclusionsInspectAt(n, servedAt)

InclusionsCommit ==
    /\ up /\ op # None /\ op.kind = "inclusions" /\ op.stage = "write"
    /\ Committed /\ FinishWrite
    /\ inclusions' = op.complete
    /\ permit' = IF /\ recovered /\ blockers' = {}
                    /\ FirstUnresolved(pending.attempts) # 0
                    /\ op.permit = Unresolved(pending).id
                    /\ pending.lastObs.nonce = Unresolved(pending).nonce
                 THEN op.permit ELSE None
    /\ owner' = IF owner.bracket = "open"
                THEN [owner EXCEPT !.bracket = "closed"] ELSE owner
    /\ op' = None
    /\ UNCHANGED <<chainVars, up, recovered>>

-----------------------------------------------------------------------------
(* prepareAttempt.                                                         *)

\* The identity stands for a random UUID: one that is neither recorded nor out.
Fresh(id) ==
    /\ \A t \in escaped : t.id # id
    /\ \A i \in 1..Len(current.attempts) : current.attempts[i].id # id

RetainedWork(id) == \E i \in 1..Len(current.attempts) :
                        WorkOf[current.attempts[i].id] = WorkOf[id]

PrepareBeginFor(id) ==
    /\ GateOpen /\ Settled
    /\ Fresh(id) /\ ~RetainedWork(id)
    /\ op' = [kind |-> "prepare", stage |-> "sign", permit |-> id,
              complete |-> FALSE]
    /\ permit' = None
    /\ UNCHANGED <<chainVars, disk, up, current, pending, pstate, write,
                   recovered, inclusions, blockers, owner>>

PrepareBegin == \E id \in AttemptIds : PrepareBeginFor(id)

PrepareSigned ==
    /\ up /\ op # None /\ op.kind = "prepare" /\ op.stage = "sign"
    /\ Save([current EXCEPT
               !.next = @ + 1,
               !.attempts = Append(@,
                 [id |-> op.permit, nonce |-> current.next, phase |-> "signed",
                  incl |-> None, seen |-> None,
                  search |-> [lower |-> current.lastObs, through |-> None]])],
            "prepared", FALSE)
    /\ inclusions' = FALSE
    /\ op' = [op EXCEPT !.stage = "write"]
    /\ UNCHANGED <<chainVars, disk, up, current, recovered, permit, blockers, owner>>

\* Signing fails, or the snapshot is refused before any write: the previous
\* authorisation stands.
PrepareRefused ==
    /\ up /\ op # None /\ op.kind = "prepare" /\ op.stage = "sign"
    /\ op' = None
    /\ UNCHANGED <<chainVars, disk, up, current, pending, pstate, write,
                   recovered, inclusions, permit, blockers, owner>>

PrepareCommits_Unauthorised ==
    /\ up /\ op # None /\ op.kind = "prepare" /\ op.stage = "write"
    /\ Committed /\ FinishWrite
    /\ permit' = None
    /\ op' = None
    /\ UNCHANGED <<chainVars, up, recovered, inclusions, owner>>

PrepareCommits ==
    /\ up /\ op # None /\ op.kind = "prepare" /\ op.stage = "write"
    /\ Committed /\ FinishWrite
    /\ permit' = op.permit
    /\ op' = None
    /\ UNCHANGED <<chainVars, up, recovered, inclusions, owner>>

-----------------------------------------------------------------------------
(* broadcastAttempt.                                                       *)

\* The attempt is marked in the journal before its first broadcast; a repeated
\* broadcast finds the mark already there.
NeedsMark_Never(a) == FALSE
NeedsMark(a) == a.phase = "signed"

BroadcastBegin ==
    /\ CanBroadcast
    /\ LET i == FirstUnresolved(current.attempts)
           a == current.attempts[i]
       IN  /\ op' = [kind |-> "broadcast",
                     stage |-> IF NeedsMark(a) THEN "write" ELSE "send",
                     permit |-> a.id, complete |-> FALSE]
           /\ IF NeedsMark(a)
              THEN Save([current EXCEPT
                           !.attempts[i].phase = "broadcast-may-have-occurred",
                           !.attempts[i].incl = None, !.attempts[i].seen = None],
                        "broadcast", FALSE)
              ELSE UNCHANGED <<pending, pstate, write>>
    /\ permit' = None /\ recovered' = FALSE /\ inclusions' = FALSE
    /\ UNCHANGED <<chainVars, disk, up, current, blockers, owner>>

\* The mark is durable.  Ownership is kept: finishWrite is not called here.
BroadcastMarked ==
    /\ up /\ op # None /\ op.kind = "broadcast" /\ op.stage = "write"
    /\ Committed
    /\ write' = None
    /\ op' = [op EXCEPT !.stage = "send"]
    /\ UNCHANGED <<chainVars, up, recovered, inclusions, permit, blockers, owner>>

\* One eth_sendRawTransaction.  Acknowledged or not, the transaction has left
\* and may be mined at any later time, or never.
BroadcastSend ==
    /\ up /\ op # None /\ op.kind = "broadcast" /\ op.stage = "send"
    /\ Deliver(TxOf(Unresolved(current)))
    /\ op' = None
    /\ UNCHANGED <<disk, up, current, pending, pstate, write, recovered,
                   inclusions, permit, blockers, owner>>

\* The request never reaches the node; the caller sees `not-acknowledged'.
BroadcastLost ==
    /\ up /\ op # None /\ op.kind = "broadcast" /\ op.stage = "send"
    /\ op' = None
    /\ UNCHANGED <<chainVars, disk, up, current, pending, pstate, write, recovered,
                   inclusions, permit, blockers, owner>>

-----------------------------------------------------------------------------
Process == Start \/ Crash
Persistence == WriteFails \/ RetryPersistence \/ RetryCommits
Inspection ==
    \/ BeginInspection \/ FinishInspection
    \/ AbandonInspection \/ CompleteAbandonment
    \/ OpenHeadBegin \/ OpenHeadEnd
Recovery ==
    \/ RecoverBegin \/ RecoverGivesUp
    \/ RecoverBootstraps \/ RecoverInspects \/ RecoverCommits
Inclusion ==
    \/ InclusionsBegin \/ InclusionsGiveUp
    \/ InclusionsContradict \/ InclusionsInspect \/ InclusionsCommit
Submission ==
    \/ PrepareBegin \/ PrepareSigned \/ PrepareRefused \/ PrepareCommits
    \/ BroadcastBegin \/ BroadcastMarked \/ BroadcastSend \/ BroadcastLost

Next ==
    \/ Process \/ Persistence \/ Inspection \/ Recovery \/ Inclusion \/ Submission
    \/ ChainNext /\ UNCHANGED <<disk, memVars>>

Spec == Init /\ [][Next]_vars

-----------------------------------------------------------------------------
(* Safety.                                                                 *)

\* The attempts of the file that are recorded as possibly on the network.
Marked(s) == {TxOf(s.attempts[i]) :
                i \in {j \in 1..Len(s.attempts) : s.attempts[j].phase # "signed"}}

\* A transaction that left the process is in the journal file, marked as
\* possibly broadcast, until its nonce is durably consumed: whatever crash or
\* failed write comes next, a restart will know of it.
EscapedIsJournaled ==
    \A t \in escaped :
        /\ disk # None
        /\ t.nonce >= disk.durableNext => t \in Marked(disk)

\* The relayer never lets two different transactions out under one nonce, over
\* all crashes, restarts and lost writes (broadcastAttempt sends only recorded
\* attempts, prepareAttempt allocates from the journal).
NoEquivocation ==
    \A t, u \in escaped : t.nonce = u.nonce => t = u

\* A second transaction for the same work leaves only after the nonce of the
\* first one is consumed at a durable block (`already-retained').
OneTransactionPerWork ==
    \A t, u \in escaped :
        (WorkOf[t.id] = WorkOf[u.id] /\ t.nonce < u.nonce) =>
            t.nonce < chain[durable].nonce

\* A nonce is released from the journal only when it is consumed at a durable
\* block, by the attempt or by a replacement (the resolution of recoverOwned).
ResolutionIsDurable ==
    \A s \in {disk, current, pending} \ {None} :
        s.durableNext <= chain[durable].nonce

\* No transaction can be stranded behind a nonce that was never sent: every
\* retained attempt older than a marked one is marked too.
NoStrandedNonce ==
    disk # None =>
        \A j \in 1..Len(disk.attempts) : disk.attempts[j].phase # "signed" =>
            \A i \in 1..j : disk.attempts[i].phase # "signed"

\* When the gate is open, the next nonce to sign with is exactly the account
\* nonce that was observed, and as long as the observed block stays canonical
\* every retained attempt is in a canonical block (status.open).
GateOpenIsSound ==
    GateOpen =>
        /\ current = disk
        /\ current.lastObs.nonce = current.next
        /\ Canonical(AnchorPart(current.lastObs)) =>
             \A i \in 1..Len(current.attempts) : Canonical(current.attempts[i].incl)

\* A broadcast is authorised only for a journaled attempt, and as long as the
\* observed block stays canonical every older attempt is in a canonical block.
PermitIsSound ==
    CanBroadcast =>
        /\ current = disk
        /\ Canonical(AnchorPart(current.lastObs)) =>
             \A i \in 1..(FirstUnresolved(current.attempts) - 1) :
                 Canonical(current.attempts[i].incl)

\* Authority to sign or to send, whenever it is there, rests on the journal in the
\* file and on what was verified at the observed block (status.open, the permit).
AuthorityIsSound == GateOpenIsSound /\ PermitIsSound

\* A recorded replacement search never skipped the block in which the nonce was
\* consumed, over reorganisations, demotions and restarts (searchedThrough).
SearchIsSound ==
    \A s \in {disk, current} \ {None} : \A i \in 1..Len(s.attempts) :
        LET a == s.attempts[i]
        IN  (a.search # None /\ a.search.through # None) =>
              /\ Canonical(a.search.through)
              /\ \A k \in (a.search.lower.num + 1)..a.search.through.num :
                   chain[k].tx # None => chain[k].tx.nonce # a.nonce

\* The exhausted-search blocker is raised only when the account's nonce really
\* moved without a transaction, in a durable block.
ExhaustionIsReal ==
    Exhausted \in blockers =>
        \E k \in 2..durable :
            /\ chain[k].tx = None
            /\ chain[k].nonce > chain[k - 1].nonce
            /\ chain[k - 1].nonce >= current.durableNext

\* The blocker for unattributed activity is exactly what the acknowledged
\* journal records, so a restart from the file finds it again.
UnattributedIsRecorded ==
    up => ((Unattributed \in blockers) <=>
             (current # None /\ current.lastObs.nonce > current.next))

\* Activity of another holder of the key is found and nothing else is taken for
\* it, over reorganisations, searches in parts and restarts.
ForeignActivityIsFound == SearchIsSound /\ ExhaustionIsReal /\ UnattributedIsRecorded

\* Validation never refuses a snapshot the coordinator itself derives from a
\* recovery or inclusion pass: it cannot lock itself out of its journal.
OwnUpdatesAreValid ==
    /\ (Reading("recover") /\ current # None) =>
         \A n \in RecoveryAnchors, served \in BOOLEAN :
             LET r == InspectRecovery(current, n, served)
             IN  ReturnsEarly(current, r) \/ ValidSnapshot(RecoverySnapshot(current, r))
    /\ Reading("inclusions") =>
         \A n \in InclusionHeads, servedAt \in SUBSET (1..Len(current.attempts)) :
             LET r == InspectInclusions(current, n, servedAt)
             IN  r.status = "inspected" =>
                   ValidSnapshot([current EXCEPT !.lastObs = r.obs,
                                                 !.attempts = r.attempts])

\* What an inclusion pass inside an open head bracket recorded was observed at
\* that very head, unless older evidence of unattributed activity was kept.
BracketBindsObservation ==
    (owner # None /\ owner.bracket = "closed") =>
        \/ AnchorPart(current.lastObs) = owner.head
        \/ Unattributed \in blockers

\* What the signer may act on: gate and permit stand on observed facts, and with
\* head brackets on facts of the very head the cycle opened (openHead).
GroundsAreSound == AuthorityIsSound /\ BracketBindsObservation

-----------------------------------------------------------------------------
(* Action properties.                                                      *)

\* The gate opens only when an inspection is finished, never by an abandoned
\* one, a retried write or a restart; or it reopens after a refused preparation.
GateOpensByInspection ==
    [][(~GateOpen /\ GateOpen') =>
         \/ owner # None /\ ~owner.abandoning /\ owner' = None
         \/ op # None /\ op.kind = "prepare" /\ current' = current]_vars

\* Authority to broadcast appears only at the end of a finished inspection or
\* of a successful preparation of that very attempt.
PermitByInspection ==
    [][(~CanBroadcast /\ CanBroadcast') =>
         \/ owner # None /\ ~owner.abandoning /\ owner' = None
         \/ op # None /\ op.kind = "prepare" /\ permit' = op.permit]_vars

\* An inspection that was abandoned while one of its operations was in flight
\* grants nothing, however late its answers come (completeAbandonment).
AuthorityByInspection == GateOpensByInspection /\ PermitByInspection

\* The file never forgets an attempt except the oldest one, once its nonce is
\* durably consumed, never lowers a nonce counter, and keeps the evidence of
\* unattributed activity whatever the chain answers later (the comments in
\* recoverOwned, checkInclusionsOwned).
JournalOnlyAdvances ==
    [][(disk # None /\ disk' # disk) =>
         /\ disk'.next >= disk.next
         /\ disk'.durableNext >= disk.durableNext
         /\ UnattributedIn(disk) => UnattributedIn(disk')
         /\ \A i \in 1..Len(disk.attempts) :
              \/ \E j \in 1..Len(disk'.attempts) :
                   TxOf(disk'.attempts[j]) = TxOf(disk.attempts[i])
              \/ i = 1 /\ disk.attempts[1].nonce < chain[durable].nonce]_vars
=============================================================================
