---------------------------- MODULE RecoveryCycle ----------------------------
(***************************************************************************)
(* The callers of the coordinator: TransactionManager.reconcile and submit *)
(* (state/transaction-manager.ts), the one SignerRecoveryCycle they share  *)
(* (state/signer-recovery-cycle.ts), its two schedules, and                *)
(* execution/submit-transaction.ts.                                        *)
(*                                                                         *)
(* Every step on the signer is an action of SignerCoordinator, taken in    *)
(* the order of the code.  `run' is the manager's operation in progress:   *)
(* where it stands, the heads it was given, and what its last recovery     *)
(* pass answered.  Time is left out: a retry delay elapses at some point,  *)
(* and a completed durable pass may expire before any of its uses.         *)
(*                                                                         *)
(* Faults (crash, failed write, failed request, receipt not served, send   *)
(* that does not arrive, cancellation) and disturbances of the chain       *)
(* (reorganisation, other activity of the key) are finite in number, so    *)
(* that what has to happen in the end can be stated.                       *)
(***************************************************************************)
EXTENDS SignerCoordinator

CONSTANTS
    CalmAfter,  \* blocks after which the chain only extends
    MaxFaults   \* bound: faults over the whole behaviour

ASSUME CycleAssumption ==
    /\ CalmAfter \in 0..MaxBlocks
    /\ MaxFaults \in Nat

VARIABLES
    run,        \* the operation of the manager, Idle when it is not busy
    completed,  \* completedDurableRevision and DurableRecoverySchedule.completed
    retry,      \* BroadcastRetrySchedule: the tracked attempt, and if it is due
    quiet,      \* history: attempts whose delay has not elapsed since a send
    faults      \* faults so far

cycleVars == <<run, completed, retry, quiet, faults>>
allVars   == <<vars, cycleVars>>

\* Steps of SignerRecoveryCycle.run, then those of submit.
CyclePhase  == {"begin", "retry", "recover", "recovering", "include", "including",
                "finish", "abandon", "abandoning", "send", "resend"}
SubmitPhase == {"gate", "prepare", "preparing", "broadcast", "sending"}

\* What a pass answers; "returned" stands for every answer without a write.
Answers == {"no-attempt", "unresolved", "resolution-available", "bootstrapped",
            "returned"}

\* The absent value is told apart from every answer.
ASSUME AnswerAssumption == None \notin Answers

Idle    == [phase |-> "idle", submit |-> None, anchor |-> None, head |-> None,
            passes |-> 0, result |-> None, settled |-> FALSE, reused |-> FALSE]
NoRetry == [id |-> None, due |-> FALSE]

\* durableRecoveryRevision: the counters and attempts of the journal, without the
\* heads the inclusions were last seen under.
Projected(a) ==
    [a EXCEPT !.seen = IF @ = None THEN None ELSE [tx |-> @.tx, nonce |-> @.nonce]]

Revision(s, latched) ==
    IF s = None THEN [attempts |-> None, latched |-> latched]
    ELSE [next |-> s.next, durableNext |-> s.durableNext,
          attempts |-> [i \in 1..Len(s.attempts) |-> Projected(s.attempts[i])],
          latched |-> latched]

CycleTypeOK ==
    /\ TypeOK
    /\ run.phase \in {"idle"} \cup CyclePhase \cup SubmitPhase
    /\ run.submit \in AttemptIds \cup {None}
    /\ run.anchor \in Anchor \cup {None} /\ run.head \in Anchor \cup {None}
    /\ run.passes \in Nat /\ run.settled \in BOOLEAN /\ run.reused \in BOOLEAN
    /\ run.result \in Answers \cup {None}
    /\ run.phase = "idle" => run = Idle
    /\ completed # None => completed.anchor \in Anchor
    /\ retry.id \in AttemptIds \cup {None} /\ retry.due \in BOOLEAN
    /\ quiet \subseteq AttemptIds
    /\ faults \in 0..MaxFaults

-----------------------------------------------------------------------------
(* The schedules.                                                          *)

\* SignerRecoveryCycle.retryAttempt.
RetryAttempt(s) ==
    IF s = None \/ FirstUnresolved(s.attempts) = 0 THEN None ELSE Unresolved(s)

Tracked_AlwaysDue(r, a) ==
    CASE a = None -> NoRetry
      [] a # None /\ a.id = r.id -> r
      [] a # None /\ a.id # r.id -> [id |-> a.id, due |-> TRUE]
Tracked_Restarts(r, a) ==
    IF a = None THEN NoRetry
    ELSE [id |-> a.id, due |-> a.phase = "signed"]

\* BroadcastRetrySchedule.track: an attempt observed again keeps its schedule; a
\* new one is due at once unless it may already have been sent.
Tracked(r, a) ==
    CASE a = None -> NoRetry
      [] a # None /\ a.id = r.id -> r
      [] a # None /\ a.id # r.id -> [id |-> a.id, due |-> a.phase = "signed"]

\* The delay of the tracked attempt passes.
Elapse ==
    /\ up /\ retry.id # None /\ ~retry.due
    /\ retry' = [retry EXCEPT !.due = TRUE]
    /\ quiet' = quiet \ {retry.id}
    /\ UNCHANGED <<vars, run, completed, faults>>

SameDurable_Ignored(a) == TRUE
SameDurable(a) == completed.anchor = a

\* canReuseDurablePass, but for the refresh interval.
CanReuse ==
    /\ recovered /\ inclusions /\ pstate = "idle" /\ blockers = {}
    /\ completed # None
    /\ completed.revision = Revision(current, blockers)
    /\ SameDurable(run.anchor)

\* isDurableRecoveryComplete, for the result in `run' and the journal after it.
DurableComplete ==
    /\ recovered' /\ pstate' = "idle"
    /\ \/ run.result \in {"no-attempt", "resolution-available"}
          /\ current'.attempts = <<>>
       \/ run.result = "unresolved" /\ run.settled

-----------------------------------------------------------------------------
At(phase)   == up /\ run.phase = phase
Goto(phase) == run' = [run EXCEPT !.phase = phase]
Fault       == faults < MaxFaults /\ faults' = faults + 1
FaultUnless(ok) == IF ok THEN UNCHANGED faults ELSE Fault

\* Where an exception of the operation leads: an inspection is abandoned first.
Throw == IF owner # None THEN Goto("abandon") ELSE run' = Idle

\* The cycle forgets its completed pass whenever it throws; a failure of the
\* submission after it does not concern it.
Forget == completed' = IF run.phase \in CyclePhase THEN None ELSE completed

-----------------------------------------------------------------------------
(* Process lifetime.                                                       *)

\* TransactionManager.create.
Create ==
    /\ Start
    /\ retry' = Tracked(NoRetry, RetryAttempt(disk))
    /\ UNCHANGED <<run, completed, quiet, faults>>

Stop ==
    /\ Fault /\ Crash
    /\ run' = Idle /\ completed' = None /\ retry' = NoRetry
    /\ UNCHANGED quiet

-----------------------------------------------------------------------------
(* SignerRecoveryCycle.run.                                                *)

\* reconcile (id = None) or submit of the work of `id', with the durable block n
\* and the head h that the heads reader answered; both may be out of date.  The
\* identity is a random one that was not used before.
BeginRun(n, h, id) ==
    /\ At("idle")
    /\ id \notin quiet /\ \A t \in escaped : t.id # id
    /\ retry' = Tracked(retry, RetryAttempt(current))
    /\ run' = [Idle EXCEPT !.phase = "begin", !.submit = id,
                           !.anchor = AnchorOf(n), !.head = AnchorOf(h)]
    /\ UNCHANGED <<vars, completed, quiet, faults>>

\* The heads run accepts with the durable block n.
HeadsFor(n) == n..Len(chain)

BeginAny == \E n \in 1..durable : \E h \in HeadsFor(n) :
                \E id \in AttemptIds \cup {None} : BeginRun(n, h, id)
BeginFresh == BeginRun(durable, Len(chain), None)

\* A failed write is repeated before the chain is inspected.
RetryFirst ==
    /\ At("begin") /\ pstate = "failed"
    /\ RetryPersistence /\ Goto("retry")
    /\ UNCHANGED <<completed, retry, quiet, faults>>

Retried ==
    /\ At("retry")
    /\ RetryCommits /\ Goto("begin")
    /\ retry' = Tracked(retry, RetryAttempt(current'))
    /\ UNCHANGED <<completed, quiet, faults>>

\* The last durable pass is still good: skip to the inclusions.
Reuse ==
    /\ At("begin") /\ CanReuse
    /\ BeginInspection
    /\ run' = [run EXCEPT !.phase = "include", !.reused = TRUE]
    /\ UNCHANGED <<completed, retry, quiet, faults>>

\* maxRecoveryPasses: one for every retained attempt, at least one.
MaxPasses(s) == IF s = None \/ s.attempts = <<>> THEN 1 ELSE Len(s.attempts)

\* It is not, or the refresh interval is over.
Repass ==
    /\ At("begin") /\ pstate = "idle"
    /\ BeginInspection
    /\ run' = [run EXCEPT !.phase = "recover", !.passes = MaxPasses(current)]
    /\ completed' = None
    /\ UNCHANGED <<retry, quiet, faults>>

Recover ==
    /\ At("recover")
    /\ RecoverBegin /\ Goto("recovering")
    /\ UNCHANGED <<completed, retry, quiet, faults>>

\* The pass reads the chain at the durable anchor.  A receipt served from a fork
\* proves nothing, and the pass is not settled.
Answered(status, settled) ==
    run' = [run EXCEPT !.result = status, !.settled = settled]

PassReads ==
    /\ At("recovering") /\ current # None
    /\ \E served, forked \in BOOLEAN :
         \E r \in {InspectRecovery(current, run.anchor.num, served)} :
             /\ forked => ~served
             /\ RecoverInspectsAt(run.anchor.num, served)
             /\ Answered(r.status, /\ r.status = "unresolved" /\ ~forked
                                   /\ r.obs.nonce <= current.attempts[1].nonce
                                   /\ r.search = NoSearch)
             /\ FaultUnless(served)
    /\ UNCHANGED <<completed, retry, quiet>>

PassBootstraps ==
    /\ At("recovering")
    /\ RecoverBootstrapsAt(run.anchor.num)
    /\ Answered("bootstrapped", FALSE)
    /\ UNCHANGED <<completed, retry, quiet, faults>>

\* The pass has written.  After a resolution the next attempt may be resolvable
\* at the same anchor; otherwise the pass may count as complete.
PassCommits ==
    /\ At("recovering")
    /\ RecoverCommits
    /\ IF /\ run.result = "resolution-available"
          /\ run.passes > 1 /\ current'.attempts # <<>>
       THEN /\ run' = [run EXCEPT !.phase = "recover", !.passes = @ - 1]
            /\ UNCHANGED completed
       ELSE /\ Goto("include")
            /\ completed' = IF DurableComplete
                            THEN [anchor |-> run.anchor,
                                  revision |-> Revision(current', blockers')]
                            ELSE completed
    /\ UNCHANGED <<retry, quiet, faults>>

\* The pass answers without writing: the bootstrap is deferred, or the chain and
\* the journal do not fit at this anchor.
PassReturns ==
    /\ At("recovering")
    /\ RecoverGivesUp
    /\ \/ /\ current = None
          /\ FaultUnless(~BootstrapReady(run.anchor.num, LatestNonce))
       \/ /\ current # None
          /\ \E served \in BOOLEAN :
               /\ ReturnsEarly(current,
                               InspectRecovery(current, run.anchor.num, served))
               /\ FaultUnless(served)
    /\ run' = [run EXCEPT !.phase = "include", !.result = "returned"]
    /\ UNCHANGED <<completed, retry, quiet>>

Include ==
    /\ At("include") /\ recovered
    /\ InclusionsBegin /\ Goto("including")
    /\ UNCHANGED <<completed, retry, quiet, faults>>

SkipInclude ==
    /\ At("include") /\ ~recovered
    /\ Goto("finish") /\ completed' = None
    /\ UNCHANGED <<vars, retry, quiet, faults>>

\* The inclusion pass reads the chain at the head, if that is still canonical.
\* That it fits the journal then is HeadNeverContradicts.
InclusionReads ==
    /\ At("including") /\ Canonical(run.head)
    /\ \E servedAt \in SUBSET (1..Len(current.attempts)) :
         /\ InclusionsInspectAt(run.head.num, servedAt)
         /\ FaultUnless(servedAt = 1..Len(current.attempts))
    /\ UNCHANGED <<run, completed, retry, quiet>>

InclusionHeadMoved ==
    /\ At("including") /\ ~Canonical(run.head)
    /\ InclusionsGiveUp /\ Goto("finish") /\ completed' = None
    /\ UNCHANGED <<retry, quiet, faults>>

InclusionCommits ==
    /\ At("including")
    /\ InclusionsCommit /\ Goto("finish")
    /\ completed' = IF inclusions' THEN completed ELSE None
    /\ UNCHANGED <<retry, quiet, faults>>

Finish ==
    /\ At("finish")
    /\ FinishInspection /\ Goto("send")
    /\ retry' = Tracked(retry, RetryAttempt(current))
    /\ UNCHANGED <<completed, quiet, faults>>

\* claim: the attempt is due, and the next opportunity is scheduled.
ClaimDue == CanBroadcast /\ retry.id = Unresolved(current).id /\ retry.due

Resend ==
    /\ At("send") /\ ClaimDue
    /\ BroadcastBegin /\ Goto("resend")
    /\ retry' = [retry EXCEPT !.due = FALSE]
    /\ UNCHANGED <<completed, quiet, faults>>

NoResend ==
    /\ At("send") /\ ~ClaimDue
    /\ Goto("gate")
    /\ UNCHANGED <<vars, completed, retry, quiet, faults>>

-----------------------------------------------------------------------------
(* What the send of a recorded transaction has in common for both callers. *)
(* A delay is counted from the claim, so it may elapse during a slow send. *)

SendMarks ==
    /\ At("resend") \/ At("sending")
    /\ BroadcastMarked
    /\ UNCHANGED cycleVars

SendEnds ==
    /\ At("resend") \/ At("sending")
    /\ \/ BroadcastSend /\ UNCHANGED faults
       \/ BroadcastLost /\ Fault
    /\ IF run.phase = "resend" THEN Goto("gate") ELSE run' = Idle
    /\ quiet' = IF retry.id = op.permit /\ retry.due
                THEN quiet ELSE quiet \cup {op.permit}
    /\ UNCHANGED <<completed, retry>>

-----------------------------------------------------------------------------
(* submit, after its reconciliation.                                       *)

Submittable == run.submit # None /\ GateOpen /\ ~RetainedWork(run.submit)

\* reconcile reports; submit is deferred, or finds the work retained already.
Report ==
    /\ At("gate")
    /\ ~Submittable
    /\ run' = Idle
    /\ UNCHANGED <<vars, completed, retry, quiet, faults>>

\* submitTransaction asks the node for fees before it prepares.
Accept ==
    /\ At("gate")
    /\ Submittable
    /\ Goto("prepare")
    /\ UNCHANGED <<vars, completed, retry, quiet, faults>>

Prepare ==
    /\ At("prepare")
    /\ PrepareBeginFor(run.submit) /\ Goto("preparing")
    /\ UNCHANGED <<completed, retry, quiet, faults>>

PrepareSigns ==
    /\ At("preparing")
    /\ PrepareSigned
    /\ UNCHANGED cycleVars

PrepareEnds ==
    /\ At("preparing")
    /\ \/ PrepareCommits /\ Goto("broadcast") /\ UNCHANGED faults
       \/ PrepareRefused /\ run' = Idle /\ Fault
    /\ UNCHANGED <<completed, retry, quiet>>

Broadcast ==
    /\ At("broadcast")
    /\ BroadcastBegin /\ Goto("sending")
    /\ UNCHANGED <<completed, retry, quiet, faults>>

-----------------------------------------------------------------------------
(* Failures.                                                               *)

WriteFailure ==
    /\ Fault /\ WriteFails
    /\ Throw /\ Forget
    /\ UNCHANGED <<retry, quiet>>

RequestFailure ==
    /\ Fault /\ (RecoverGivesUp \/ InclusionsGiveUp)
    /\ Throw /\ Forget
    /\ UNCHANGED <<retry, quiet>>

\* The signal is checked between operations, though not before the first pass;
\* a failing fee request of submitTransaction ends it in the same way.
Interrupt ==
    /\ up /\ run.phase \in {"begin", "recover", "include", "finish",
                            "gate", "prepare", "broadcast"}
    /\ run.phase = "recover" => run.result # None
    /\ Fault
    /\ Throw /\ Forget
    /\ UNCHANGED <<vars, retry, quiet>>

Abandon ==
    /\ At("abandon")
    /\ AbandonInspection /\ Goto("abandoning")
    /\ UNCHANGED <<completed, retry, quiet, faults>>

Abandoned ==
    /\ At("abandoning")
    /\ CompleteAbandonment /\ run' = Idle
    /\ UNCHANGED <<completed, retry, quiet, faults>>

-----------------------------------------------------------------------------
CycleInit ==
    /\ Init
    /\ run = Idle /\ completed = None /\ retry = NoRetry
    /\ quiet = {} /\ faults = 0

CycleStep ==
    \/ RetryFirst \/ Retried \/ Reuse \/ Repass
    \/ Recover \/ PassReads \/ PassBootstraps \/ PassCommits \/ PassReturns
    \/ Include \/ SkipInclude
    \/ InclusionReads \/ InclusionHeadMoved \/ InclusionCommits
    \/ Finish \/ Abandon \/ Abandoned
    \/ Resend \/ NoResend \/ SendMarks \/ SendEnds
SubmitStep ==
    Report \/ Accept \/ Prepare \/ PrepareSigns \/ PrepareEnds \/ Broadcast
Failure == Stop \/ WriteFailure \/ RequestFailure \/ Interrupt

Disturb == minted < CalmAfter /\ (MineEmpty \/ MineForeign \/ Reorg)
Chain ==
    /\ MineOwn \/ Finalize \/ Disturb
    /\ UNCHANGED <<disk, memVars, cycleVars>>

CycleNext ==
    Create \/ BeginAny \/ CycleStep \/ SubmitStep \/ Failure \/ Elapse \/ Chain

CycleSafety == CycleInit /\ [][CycleNext]_allVars

\* The supervisor restarts the process and the daemon reconciles every cycle,
\* time and again with heads that are not served from the reader's cache; an
\* operation of the manager is never left waiting, because requests time out;
\* delays elapse; the node mines what it was sent, and blocks become durable.
CycleFairness ==
    /\ WF_allVars(Create)
    /\ SF_allVars(BeginFresh)
    /\ WF_allVars(CycleStep \/ SubmitStep)
    /\ WF_allVars(Elapse)
    /\ WF_allVars(MineOwn /\ UNCHANGED <<disk, memVars, cycleVars>>)
    /\ WF_allVars(Finalize /\ UNCHANGED <<disk, memVars, cycleVars>>)

CycleSpec == CycleSafety /\ CycleFairness

-----------------------------------------------------------------------------
(* Properties.                                                             *)

\* Once submitTransaction has prepared an attempt, the coordinator accepts its
\* broadcast: no check in between can refuse it and leave it recorded, unsent
\* and reported as failed (submitTransaction).
PreparedIsSendable == At("broadcast") => CanBroadcast /\ permit = run.submit

\* A recovery pass that was skipped would have resolved nothing: at the durable
\* block given, the oldest retained nonce is not consumed (canReuseDurablePass).
ReuseIsSound ==
    (At("include") /\ run.reused) =>
        \A served \in BOOLEAN :
            LET r == InspectRecovery(current, run.anchor.num, served)
            IN  r.status \in {"no-attempt", "unresolved"} /\ r.search = NoSearch

\* The passes of one run never stop right after a resolution while attempts are
\* left that the same anchor may resolve (maxRecoveryPasses).
ResolutionsAreDrained ==
    (At("include") /\ run.result = "resolution-available") =>
        current.attempts = <<>>

\* After a recovery pass at a block not above it, the head never contradicts the
\* journal: no run ends with recovery revoked by its own inclusion pass, and so
\* closed to submissions (the head check of run, inspectSignerInclusions).
HeadNeverContradicts ==
    (At("including") /\ op.stage = "read" /\ Canonical(run.head)) =>
        \A servedAt \in SUBSET (1..Len(current.attempts)) :
            InspectInclusions(current, run.head.num, servedAt).status = "inspected"

\* The passes of a run agree: none is skipped, cut short or contradicted by the
\* next one (SignerRecoveryCycle.run).
CycleInv ==
    CycleTypeOK /\ ReuseIsSound /\ ResolutionsAreDrained /\ HeadNeverContradicts

\* An attempt that may have been sent is sent again only after its retry delay
\* has elapsed since the last send, whoever made it and whatever crash, retried
\* write or demotion lies between (BroadcastRetrySchedule).
ResendsAreSpaced ==
    [][(op = None /\ op' # None /\ op'.kind = "broadcast" /\ op'.stage = "send")
         => op'.permit \notin quiet]_allVars

\* A transaction in the journal is resolved in the end: it is sent again until
\* it is mined, followed over reorganisations, and released at a durable block.
RetainedIsResolved ==
    \A id \in AttemptIds :
        (disk # None /\ \E i \in 1..Len(disk.attempts) : disk.attempts[i].id = id)
          ~> (disk # None /\ \A i \in 1..Len(disk.attempts) : disk.attempts[i].id # id)

\* The gate opens again and again: no failure, retained write or abandoned
\* inspection closes the signer for good.
GateReopens == []<>GateOpen
=============================================================================
