# Verification of drand-quicknet-evm

TLA+ models of the parts of this repository whose correctness depends on the
order of events: the relayer's signer and its journal, the daemon that scans for
randomness requests and imports drand rounds, the commands that share its state
directory, what it reports about itself, and the contracts that store the rounds.
TLC checks the models on small instances; TLAPS proves the theorems listed below
for every value of the constants.

Paths are relative to the repository; `relayer/` stands for `apps/relayer/src/`.

## 1. The system

A consumer contract commits to a future drand Quicknet round. A relayer daemon
finds the request in the logs, waits until the round is published, fetches the
beacon, and sends a transaction that stores it in the registry contract, which
verifies the BLS signature on chain. The relayer has one signing key. It must
never lose track of a transaction it let out, never use a nonce twice, never
leave a request unserved, and must survive crashes, failed writes, unreliable
RPC answers and chain reorganisations.

| component | state | operations | talks to |
|---|---|---|---|
| signer coordinator (`relayer/state/signer-coordinator.ts`) | acknowledged journal snapshot, pending write, recovery and inclusion flags, broadcast permit, latched blockers, inspection owner | create, beginInspection, openHead, recover, checkInclusions, finish, abandon, prepareAttempt, broadcastAttempt, retryPersistence | journal, node |
| chain inspection (`relayer/chain/`) | none | recovery pass, inclusion pass, replacement search, bootstrap inspection | node |
| journal file (`relayer/state/file-transaction-journal-store.ts`, `journal-persistence.ts`, `durable-replace.ts`) | file, synced contents, in-memory snapshot | open, save, retry | file system |
| recovery cycle, transaction manager, submission (`relayer/state/`, `relayer/execution/submit-transaction.ts`) | operation in progress, retry schedule, completed durable revision | create, reconcile, submit | coordinator, heads reader |
| daemon loop (`relayer/daemon/`) | soft cursors | cycle, iteration per consumer | submitter, reconciliation, checkpoint store |
| durable reconciliation (`relayer/consumers/`) | none beyond one pass | anchor, scan, import, decide | node, importer |
| checkpoint store (`relayer/state/file-checkpoint-store.ts`) | file, loaded state | load, save | file system |
| chain heads reader (`relayer/chain/chain-heads-reader.ts`) | cached durable head | read | node |
| round importer (`relayer/rounds/`) | none | wait, fetch, simulate, submit, await receipt | drand, node, signer |
| registry (`contracts/src/DrandQuicknetBeaconRegistry.sol`) | stored randomness per round | submit with and without witness, schedule | verifier |
| consumer (`contracts/src/consumers/`) | registry, lead | request, submit | registry |
| verifier (`contracts/src/verifiers/`) | none | verify | precompiles |
| nonce synchronisation (`relayer/cli/sync-nonce.ts`, `relayer/state/plan-nonce-sync.ts`) | none beyond one command | read, inspect, plan, save | journal, node |
| service lock and start-up (`apps/relayer/scripts/relayer.sh`, `relayer/state/service-lock.ts`, `relayer/cli/`) | lock file, descriptor, start-up phase | launch, lock, verify ownership, bootstrap check, open stores | file system, other commands |
| status (`relayer/state/daemon-status-snapshot.ts`, `relayer/daemon/daemon-status-publisher.ts`) | status file | project, publish, read | coordinator, file system |
| usage and log reports (`relayer/diagnostics/rpc/`, `relayer/diagnostics/relayer-log.ts`, `relayer/daemon/daemon-logging.ts`) | request counters, previous observation, heartbeat times | measure, report, heartbeat, fallback line | daemon loop, log destination |
| journal encoding, configuration, error wording, SDK readers, scripts | see `PROJECT.json` | | |

What is hard, and what correctness means:

* **Signer.** Every await is a place where the process may stop, the write may
  fail with an unknown outcome, or the chain may reorganise. Correct means: what
  left the process is recorded; one transaction per nonce; one transaction per
  work; authority to sign or send rests on facts verified at a canonical block;
  activity of another holder of the key is noticed and never forgotten.
* **Journal file.** Rename and directory sync are separate steps. Correct means:
  an acknowledged snapshot survives, and what the process acts on is durable.
* **Daemon.** Scan, imports and storage reads of one pass take minutes. Correct
  means: the checkpoint never passes an unserved request and never moves back,
  and every request in a durable block is served in the end.
* **Import.** Between the first check of a round and the receipt lie a wait, a
  fetch with retries, a simulation, a signed transaction and many failures.
  Correct means: a success is stored, a transaction that was sent is named, the
  daemon does not pay twice, and every import ends.
* **State directory.** Commands are processes that start, stop and are killed at
  any step, and the lock file can be replaced under them. Correct means: one
  writer, no write and no report from an outdated read, no second bootstrap, and
  exit codes that tell what was done.
* **Nonce repair.** Correct means: evidence of another user of the key is cleared
  only when a durable block accounts for it, and then completely.
* **Reports.** Observations are made while requests are in flight and while clocks,
  log and disk fail. Correct means: what is reported is true and passes its own
  validators, and reporting never stops the daemon nor leaves it silent.
* **Contracts.** Timestamps lag real time, integers have a width, submissions are
  permissionless and race. Correct means: a committed round is not yet knowable,
  the registry holds only authentic values, and a submission that was simulated
  does not fail because somebody else was faster.

`PROJECT.json` lists the places in the code where these can go wrong ("hazards")
and the properties that cover each.

## 2. Modules

    SignerChain          the node's chain: blocks, nonces, reorganisations (external)
      SignerInspection   relayer/chain: passes over the journal at an anchor
        SignerCoordinator  relayer/state/signer-coordinator.ts
          StatusProjection   what the daemon publishes of the signer
            SignerCoordinatorProofs theorems: the journal and what escapes, the
                             authority to sign and to send, the published status
            MCSignerCoordinator   instances
          NonceSync          the sync-nonce command
          ResolutionEvidence what recovery reports of a resolved attempt
            NonceSyncProofs       theorems about both
            MCNonceSync           instance of both
          RecoveryCycle      transaction manager, recovery cycle, schedules
            RecoveryCycleProofs   theorems
            MCRecoveryCycle       instances
    AtomicJournal        what a journal promises (abstract)
    JournalStore         file replacement protocol; refines AtomicJournal
      JournalStoreProofs theorems;  MCJournalStore  instance
    StateDirectory       launcher, lock, start-up, the commands' file accesses
      StateDirectoryProofs theorems;  MCStateDirectory  instance
    RequestDaemon        daemon loop, reconciliation, checkpoints, heads cache
      RequestDaemonProofs theorems;  MCRequestDaemon  instances
    Reporting            request counters, usage reports, heartbeat, status file
      ReportingProofs    theorems;  MCReporting  instance
    BeaconRegistry       registry, consumer, relayers as submitters
      RoundImport        the import of a round step by step; refines BeaconRegistry
        RoundImportProofs theorems about both;  MCRoundImport  instances

The modules meet at interfaces. `SignerCoordinator` treats the journal file as
one register that an unfinished write may or may not have reached: that is what
`AtomicJournal` says and `JournalStore` is shown to implement. `RequestDaemon`
treats the signer as a set of retained rounds whose transactions may be mined at
any time: `SignerCoordinator` shows that what was sent stays retained until its
nonce is durably consumed. `RequestDaemon` treats a checkpoint write as atomic,
with a failed write landing or not; the file is written by the same
`durableReplace`. `RequestDaemon` knows an import only by its outcome;
`RoundImport` has its steps. `NonceSync` assumes that the command and the daemon do
not run at the same time; `StateDirectory` shows that the lock sees to it.

### SignerChain, SignerInspection

A block carries at most one transaction of the account and the account's nonce
after it. Hashes are fresh numbers, so an anchor (number and hash) determines the
chain below. Blocks above `durable` may be abandoned. A transaction that escaped
may be mined at any later time or never.

Each inspection in `relayer/chain` brackets its reads with two checks that the
anchor is canonical and discards everything otherwise. A hash fixes the chain
below it, so a pass that survives the second check reads as if at one instant;
the passes are operators evaluated in one state. A receipt from an abandoned fork
and a missing receipt lead to the same branches and are one case; only whether a
durable pass is complete tells them apart (`PassReads`). No code appends a second
signed transaction to an attempt, so an attempt has one.

`ValidSnapshot` is what the journal's validation accepts of a derived snapshot: the
counters and the baseline, the nonces and identities of the attempts, what each
attempt and its search must have, the relation between a recorded inclusion and the
head it was seen under (`ValidInclusion`), and the repair history (`ValidRepairs`).
Its shape checks (field types, hex lengths, timestamps) hold of every value of the
model. Of an inclusion, success and revert are one outcome; of the baseline and of a
repair only the nonces are kept, and a repair's timestamp is not checked for order by
the code either.

### SignerCoordinator

One variable per field of the class (`current`, `pending`, `pstate`, `write`,
`recovered`, `inclusions`, `op`, `permit`, `blockers`, `owner`) and `disk`. An
operation is split at its awaits: RPC reads, signature, journal write, send.
Between two awaits JavaScript runs to completion, so that is one action. Callers
are unconstrained: any public operation may be called when the code accepts it,
which covers the recovery cycle's order and every other one. `Crash` may happen
at each step; `WriteFails` leaves the file in either state.

### StatusProjection, ResolutionEvidence

Both are operators and properties over `SignerCoordinator`, with no state of their
own. `Status` is `TransactionManager.status` as the publisher bounds it and
`Accepts` is `readDaemonStatusSnapshot`; the status may be captured in any state,
in the middle of an operation too. `MAX_DAEMON_STATUS_ATTEMPT_DETAILS` is 1 here,
so that two attempts already exceed it. `Evidence` is what a recovery pass says of
the attempt it resolves and `LogAccepts` the checks it has to pass before the
journal is written (`resolution-validation.ts`) and again in the log.

### NonceSync

The command reads the journal, inspects the chain at a durable block, plans
(`PlanNonceSync`, with every refusal in the order of the code) and saves. A repair
takes over the observed nonce and is appended to the history, of which the latest
`MaxRepairs` stay (`Repaired`, `LatestRepairs`). Chain and
coordinator are those of `SignerCoordinator`; the command runs between two runs of
the daemon, and may stop anywhere. The pending nonce may be one ahead of the latest.

### StateDirectory

Two process slots, each running daemon, import, sync-nonce or status through
`relayer.sh` or, against the instructions, without it. The program counter stops
where the code awaits; a check made synchronously after an await is in the step
that follows it. `Checked` are the phases in which the code looks at the shutdown
signal. The journal's contents are a version tagged with its writer. The operator
may remove and recreate the lock file while no writer runs, and lose the journal
while nothing runs; a process may be killed or fail at every step. A sync-nonce that
opens the store goes on from the contents it read first, not from those it rewrote.

### RecoveryCycle

The callers of the coordinator in the order of the code. `run` is the one
operation of `TransactionManager` in progress: its phase, the heads it was given,
the passes left and what the last pass answered. `completed` is the durable pass
that may be reused, `retry` the broadcast schedule. Every step on the signer is
an action of `SignerCoordinator` conjoined with the caller's own step, so
whatever holds for the unconstrained coordinator also holds here. What is new is
what needs the caller: the order of a cycle, the reuse of a pass, the spacing of
sends, and that something retained is resolved in the end.

Time is abstracted. The delay of the tracked attempt elapses at some point
(`Elapse`), and a completed pass may expire before any of its uses (`Repass` is
possible whenever `Reuse` is). The heads given to a run may be out of date
(`BeginAny`), as the cached ones of the heads reader are. The cycle does not use
`openHead`, so these runs leave head brackets out. `quiet` is a history variable:
the attempts whose delay has not elapsed since they were last sent.

### AtomicJournal, JournalStore

`JournalStore` models `durableReplace` step by step: write and sync a temporary
file, rename, sync the directory; a process crash keeps what the operating system
has, a power failure keeps only what is synced and may undo an unsynced rename.
`FileTransactionJournalStore.open` rewrites the file it found before it answers
from it. The refinement maps the file's certain content to `AtomicJournal`'s
value and an unresolved replacement to its set of possible values.

### RequestDaemon

The iteration is split where it awaits something that takes time: opening anchor,
log scan, each import, closing anchor, checkpoint write. `WeakTag` says whether a
block the finality policy calls durable may still be reorganised; `broken` records
that it happened. `CheckpointIsSafe` is stated for the time before, the bracket's
own promise (`DecisionIsSound`) for all times. The code imports rounds in the order
of their first request; one request per block loses nothing because rounds and
consumers are distinguished per block. A deferral (the gate is closed) may happen
freely while something is retained and counts as a fault otherwise.
The storage reads belong to the closing anchor: they are made at the durable
block number, and count only if the block's hash has not changed.

### BeaconRegistry

Time has a resolution of one unit, rounds follow `roundScheduledTime` and
`roundAt` with the integer width as a constant, and the block timestamp may lag
real time by at most `Skew`. `minimumLeadRounds` is assumed to be sized to the
chain's timestamp behaviour, as item 1 of the registry's NatSpec requires of a
deployment; the consumer's constructor enforces its own lead against it. A
signature is an abstract value that belongs to one round or to none; `Verify`
says which are accepted and what they hash to. Relayers fetch, simulate against
the current state, and their transaction is executed later. Code hash checks of
the constructors are left out.

### RoundImport

The same variables, with `job`, the import a relayer runs, and `txs`, the
transactions its journal recorded. An import is one of the two commands or the
importer the daemon binds, which first defers to a retained transaction. Every
await is a step with its failure, its timeout and the cancellation where the code
looks for it: `submitTransaction` looks for it once more after the attempt is
recorded, so a cancelled import may leave a recorded transaction that it did not
send. Below `submit` the signer is a gate that may be closed and one recorded
transaction per work. Its journal write may fail with an unknown outcome
(`uncertain`): the signer then accepts nothing until the write is settled, and the
next process finds the transaction in the journal (`Settle`) or does not (`Lose`).

`told` says that the output names a transaction: the result or the progress, the log
of the broadcast, or the recording of a submission that threw, which the commands
print, also when they are interrupted, and the daemon does not (`Prints`). So
`TransactionsAreTold` claims less of the daemon: a transaction that it signed and did
not send is named neither by the error nor by the shutdown that kept it from sending.
The journal status shows it, and the retry schedule sends it.

A transaction that was recorded may be sent by the
retry schedule, mined, replaced and resolved at any later time, after a restart
too. Each step implements a step of `BeaconRegistry` or none (`Spec` is a property
of the run), so what is proved of submitters holds for imports.

### Reporting

The loop of the daemon as the reports see it: cycle, log, publish, usage report,
sleep. Requests and their HTTP attempts run concurrently with it. A row of counters
is a record; the four classes of status are one count. Each reading of a clock,
each write and the log's destination may fail. `heard`, `counted`, `base`, `gap` and
`rejected` are history variables. A duration is one unit per request. The reader of
the status file changes nothing and is an operator (`Age`).

## 3. Runs

| run | instance | what it shows |
|---|---|---|
| `signer_two_attempts` | 2 attempts for 2 works, 3 blocks over all forks | `EscapedIsJournaled`, `NoEquivocation`, `NoStrandedNonce`, `AuthorityIsSound`, `StatusIsHonest`, `AuthorityByInspection` |
| `signer_foreign` | 1 attempt, 3 blocks, 3 foreign nonces, search range 1, sync-nonce, 2 retained repairs | `SyncInv`, `ForeignActivityIsFound`, `ResolutionsAreTrue`, `RepairsAreSound` |
| `signer_same_work` | 2 attempts for 1 work, head brackets used, 3 blocks, 1 foreign nonce | `OneTransactionPerWork`, `ResolutionIsDurable`, `GroundsAreSound`, `JournalOnlyAdvances` |
| `cycle_safety` | 2 attempts for 2 works, 3 blocks, 1 foreign nonce, 1 fault | `CycleInv`, `PreparedIsSendable`, `ResendsAreSpaced` |
| `cycle_liveness` | 1 attempt, 3 blocks, 1 fault, fair | `RetainedIsResolved`, `GateReopens` |
| `journal_store` | 3 snapshots | `JournalInv`, refinement `ImplementsAtomicJournal` |
| `service_directory` | 2 processes, 2 journal versions, 2 lock files | `DirectoryInv`, `NothingStaleIsUsed`, `BootstrapIsFirstUse`, `ExitTellsTheTruth` |
| `daemon_safety` | 1 consumer, 2 rounds, 3 blocks, untrusted finality, 2 faults or reorganisations | `DaemonInv`, `CheckpointOnlyAdvances`, `DecisionIsSound` |
| `daemon_liveness` | 2 consumers, 1 round, 2 blocks, 1 fault or reorganisation, fair | `DurableRequestsAreServed`, `CheckpointCatchesUp` |
| `round_import` | 1 relayer with 2 transactions, arbitrary other submissions, skewed timestamps, last rounds of the width, fair | `OnlyAuthenticBeacons`, `NoCommitmentToKnownRound`, `SimulatedImportSucceeds`, `ImportInv`, `DaemonPaysOnce`, `ImportsEnd`, refinement `Spec` |
| `reporting` | 2 requests, 1 HTTP attempt, 2 cycles, time 3, 1 fault, fair | `ReportingInv`, `SilenceIsBounded`, `LoopGoesOn` |
| `round_wait` | a round further away than the longest timer | violation of `FetchesWhenScheduled` |

A name ending in `Inv` is a conjunction of a type invariant and named parts, each
stated with its comment next to it; `AuthorityIsSound`, `ForeignActivityIsFound`
and the other groups are conjunctions of named parts in the same way.

What the groups hold: `AuthorityIsSound`: `GateOpenIsSound`, `PermitIsSound`.
`GroundsAreSound`: those and `BracketBindsObservation`. `SyncInv`:
`OwnUpdatesAreValid`, `RepairIsValid`. `ForeignActivityIsFound`: `SearchIsSound`,
`ExhaustionIsReal`, `UnattributedIsRecorded`. `RepairsAreSound`:
`EvidenceIsAccountedFor`, `RepairUnblocks`. `AuthorityByInspection`:
`GateOpensByInspection`, `PermitByInspection`. `CycleInv`: `ReuseIsSound`,
`ResolutionsAreDrained`, `HeadNeverContradicts`. `JournalInv`:
`AcknowledgedSurvives`, `OpenIsDurable`. `DirectoryInv`: `OneWriter`,
`CheckpointFollowsJournal`. `NothingStaleIsUsed`: `NoLostUpdate`, `StatusIsCurrent`.
`DaemonInv`: `CheckpointIsSafe`. `ImportInv`: `SuccessIsStored`,
`TransactionsAreTold`. `ReportingInv`: `ReportsAreReadable`, `IntervalsPartition`,
`StatusAgeIsHonest`, `OnlyCyclesEndTheDaemon`. `LoopGoesOn`: `CyclesGoOn`,
`StopsWithReport`.

The finding. `waitForQuicknetRound` refuses only delays above
`Number.MAX_SAFE_INTEGER`, but a Node.js timer that is asked for more than
2147483647 ms (24.8 days) fires at once. `apps/relayer/README.md` says that
`import-when-available` "first waits until `R` is scheduled"; for a round further
away it begins to fetch at once, spends its retries and fails. The run `round_wait`
shows it with a longest timer of 1. The import still ends, and nothing wrong is
stored.

Bounds. Three blocks over all forks are enough for an attempt to be included,
reorganised away and included again, or replaced, with the durable tag anywhere
between. A search range of 1 makes every search take several passes. Three foreign
nonces in three blocks allow three repairs, one more than `MaxRepairs` keeps in
`signer_foreign`, so that the oldest is dropped; the code keeps 8. Crashes and
failed writes are unbounded in the signer and journal models; in `RequestDaemon`
and `RecoveryCycle` `MaxFaults` bounds them, because unbounded faults would defeat
every liveness property. One fault is a crash, a failed write, a failed request, a
receipt not served, a lost send or a cancellation, at any step. `CalmAfter` is the
number of blocks after which the chain is no longer reorganised and carries no
empty or foreign block: with 2 of 3, an included transaction can be reorganised
away and there is room to mine it again. Symmetry is used only for identities that
the model never orders, and not where a liveness property is checked.

Two processes are enough for the directory because every hazard there is between a
writer and one other process; two lock files allow a replacement between any two
steps, and two journal versions a write between any read and its use. One relayer
with two transactions is enough for an import that meets an earlier transaction of
its own; other relayers are the arbitrary submissions of `BeaconRegistry`. The
import's rounds are the last of the integer width, and the longest timer is shorter
than the time until the round. The first interval of the usage session starts with
the session, or with the first cycle if the clock could not be read. So two requests
and two cycles give intervals in which more requests end than start, with a failed
observation between two others, the last of them at the shutdown.

Each property has a mutant: a named variation of a definition next to it
(`Demoted_ToSigned`, `SyncDirectory_Skipped`, ...) that stands for a plausible
bug and makes TLC find the property violated.

### Fairness

`RequestDaemon`, `RecoveryCycle`, `RoundImport` and `Reporting` state liveness.

`RoundImport`. A step of an import that is possible is taken in the end
(`Proceed`), because every request, the fetch and the wait for the receipt have a
timeout whose expiry is a step too; time passes. Nothing is assumed of drand, of
the node or of other transactions.

`Reporting`. Weak fairness of the loop: file operations and cycles end, well or
not. Nothing is assumed of requests, clocks or the log.

`RequestDaemon`. `LoopFairness`: the loop goes on, because
`runDaemon` has no exit but cancellation and a stopped process is restarted by
its supervisor; durable heads are read afresh infinitely often, because the
cached one expires after its poll interval. `EnvFairness`: drand publishes every
round, the node eventually mines a transaction that was broadcast and that the
signer keeps rebroadcasting (`RetainedIsResolved` discharges the signer's half of
this), blocks become durable. Faults and reorganisations are finite in number.

`RecoveryCycle`. `CycleFairness`: a stopped process is restarted (`Create`); an
operation in progress goes on, because requests time out and a failure is a step
too; the daemon reconciles in every cycle and, whenever that is possible again
and again, sometimes does so with heads read afresh (`BeginFresh`, strong
fairness, because submissions interleave with reconciliations and the cached
heads expire); delays elapse; the node mines a transaction it was sent and blocks
become durable. No submission is assumed. Liveness is stated for a key nobody
else uses: after other activity of the key the coordinator may stay closed until
an operator acts, by design.

## 4. Proofs

`JournalStoreProofs` (any set of snapshots): `TypeCorrect`, `Durability`,
`OpenDurability`, together `Invariants` (`JournalInv`), and `Refinement`. The properties are not inductive alone; the
invariant adds that every file a name refers to has synced contents
(`FilesAreSynced`), what a replacement in progress has written so far
(`ReplacementInProgress`), and how the process's memory relates to the disk
(`ProcessState`). The refinement follows step by step from it.

`RoundImportProofs`, the registry (any period, genesis, width, skew, any set of relayers
and signatures): `TypeCorrect`, `Authenticity`, `Unpredictability`,
`Idempotence`. The invariant adds that deployed consumers have a lead of at least
the registry's minimum (`LeadsAreSafe`), that a simulated submission was valid
(`SubmittedIsGood`) and that a fetched beacon belongs to a published round
(`FetchedIsKnown`). The arithmetic core is `LeadTime`: the round `lead` after the
one scheduled at a timestamp is scheduled later than that timestamp plus the
skew the lead is sized for; it rests on two lemmas about integer quotients.

`SignerCoordinatorProofs` (any set of attempts and works, any bounds, any number of
crashes, failed writes, reorganisations and foreign nonces): `TypeCorrect`,
`NothingIsForgotten` (`EscapedIsJournaled`), `OneTransactionPerNonce`
(`NoEquivocation`), `ReleaseIsDurable` (`ResolutionIsDurable`), `WorkIsSentOnce`
(`OneTransactionPerWork`). What escaped must be marked in the file, but the file is
replaced by snapshots derived in memory, and a crash may leave either. So the
invariant `IInv` states it of every snapshot that is or may become the journal
(`AllRecord`: file, memory, pending write), with what the process knows of the file
(`FileIsKnown`), that snapshots have contiguous nonces (`AllValid`) and that a
broadcast in progress is of a marked attempt (`OperationState`). Each operation then
needs one fact about the snapshot it derives: it keeps every mark whose nonce it
does not release (`Keeps`). A send adds only a transaction that is marked already;
since nonces in a snapshot are distinct, nothing else escaped under its nonce. For
released nonces `NoncesGrow` is added: the account's nonce grows along the chain, so
what a pass reads at a block not above the durable one is durable and stays so.
`WorkIsSentOnce` follows: at a send the other transaction of the work is either
released, hence durable, or in the same snapshot, which has one attempt per work.
`AbsentAssumption` says that the model value `None` is no snapshot, operation or
owner.

The signer's authority, in the same module (on top of that invariant): `NonceIsNeverStranded`
(`NoStrandedNonce`), `AuthorityStandsOnFacts` (`AuthorityIsSound`), `GroundsStand`
(`GroundsAreSound`), `AuthorityIsInspected` (`AuthorityByInspection`),
`FileOnlyAdvances` (`JournalOnlyAdvances`). The gate and the permit are read long
after the pass that justifies them, so the invariant `AInv` carries its findings
from the read to the use. `UnsentIsLast`: in every snapshot only the last attempt
may be unsent. `HashesAreOld`: every recorded inclusion and observation has a hash
that was minted, so a block mined later is never mistaken for it. `Grounds`: while a
result may still grant authority, every attempt before the first unresolved one was
found in a block that is canonical as long as the observed one is. `Writing` says
the same of the snapshot a pass is writing, `Revoked` that nothing stands in an
inspection being abandoned, `Latch` that the unattributed-activity blocker is what
the snapshot in memory records. Three lemmas carry the proof: `InclusionEffect`,
`RecoveryFollows` and `PreparationFollows` say what a pass leaves of each attempt;
`ChainMoves` says that what is canonical after a step of the chain, and was minted
before it, was canonical before. For the action property, a step that grants
authority is shown to be the end of an unabandoned inspection or a preparation
(`WhatGrants`); everything else either clears a conjunct of the gate or leaves it.

The published status, at the end of the same module: `StatusCanBeReliedOn`
(`StatusIsHonest`) and `JournalStaysWithinLimit`. The status may be captured in any
state, so its checks must follow from what holds of the snapshot in memory at all
times. That its attempts are in nonce order, for distinct works, is `AllValid`; that
there are not too many is `WithinLimit`: no pass adds an attempt (`NoLonger`), and
from the gate to the write of a preparation nothing else changes the journal. The
rest is counting: `OneDetail` says which attempt is shown, `Counted` that the resolved
and the open ones add up. The limit of one detail is the code's. That an empty journal
means that nothing is out follows from `Records` and `ResolutionIsDurable`.

`NonceSyncProofs` (with sync-nonce runs between those of the daemon; any search
range): `ForeignActivityFound` (`ForeignActivityIsFound`), `ResolutionsTellTheTruth`
(`ResolutionsAreTrue`), `NobodyIsLockedOut` (`SyncInv`), `RepairsAccount`
(`RepairsAreSound`), `RepairsKeepPromises` (the signer's invariants, and the honesty of
its status, hold under `SyncSpec` too). That nobody is locked out is a fact about each
derivation from a valid snapshot. The counters only grow, so the baseline and the
repair history stay within them (`HistoryIsValid`); an inclusion is recorded under the
head it was read at, from a chain in which that block is below the head and the nonce
consumed (`FoundIsRecorded`), and seen again only under a head that still has it
(`SeenAgainIsRecorded`); a repair starts at the next nonce, where no attempt is left,
and ends higher, so it extends the history, and dropping the oldest keeps its order
(`AppendedRepairs`, `RepairHistory`). `EInv` adds to `AInv` what the chain proves of the evidence in a
journal. `Steps`: from one block to the next the nonce grows by a transaction of the
account or of a foreign holder of the key. `AllSupported`: in the file, in memory and
in the pending write, each observation has the nonce of its block as long as that
block is canonical, and each search has started at or below the block that consumed
its nonce. `Exhaustion`: the exhausted-search blocker stands over a nonce that moved
without a transaction in a durable block (`Gap`). `Repairing`: what the command holds
while it repairs was read at a durable block. A block carries at most one transaction
of the account (`OneTxPerNonce`), so finding the attempt and finding another
transaction with its nonce exclude each other; that is what makes a resolution true.
`ReferenceAssumption` says that `None` is no transaction and no block.

`RecoveryCycleProofs` (any set of attempts, any chain, any number of faults):
`ManagerImplementsCoordinator` (`CycleSafety => Spec`), `PassesAgree` (`CycleInv`),
`PreparedCanBeSent` (`PreparedIsSendable`), `SendsAreSpaced` (`ResendsAreSpaced`). The
manager reads the chain at heads that may be old and goes on from what earlier steps
answered, so the invariant `CInv` says, for every phase of a run, what those answers
still stand for. `Place`: the phase tells which operation holds the coordinator and
whose inspection is open. `Anchored`: the anchor of a run is a durable block not above
its head. `PassState`: once a pass has written, the released nonces are consumed at
the anchor, and the passes left are at least the attempts left. `CompletedIsTrue`: the
same, and that the oldest nonce is not consumed, of the pass that may be reused; it
survives because the durable blocks stay and a change of the journal changes the
revision. `AllTrue`: a recorded inclusion consumed its nonce as long as its block is
canonical, which is why the head cannot contradict the journal after a pass.
`Preparing`: nothing between the gate and the broadcast can take away what the permit
needs; it uses `Grounds` and `Latch` of `AInv`, by which the nonce signed with is
exactly the observed one. `Schedule`, `AllTrue` and `Sending` carry the spacing of
sends: an attempt is due only if it is not quiet, and one that was never sent is not.
Each part is preserved by lemmas that say how a phase is entered (`PhaseMoves`) and
what stays while it lasts (`StaysAre`). `AnswerAssumption` says that `None` is no answer.

`RequestDaemonProofs` (any consumers, rounds, chain length, faults): `DaemonIsSafe`
(`DaemonInv`), `DecisionsAreSound`, `CheckpointsAdvance`. A checkpoint is safe
because every request up to it is served, and the pass that decides it read the
requests before it imported and the storage after. The invariant therefore follows
one pass: what was scanned is what the anchored prefix contains, what is not pending
any more was found stored under the closing anchor, and the prefix below a durable
anchor changes only when the finality policy was broken, which `broken` records.

`StateDirectoryProofs` (any commands, versions and lock files):
`DirectoryIsConsistent` (`DirectoryInv`), `ExitsAreTrue`, `NothingIsStale`,
`BootstrapsAreFirstUse`. The core is that at most one live process holds a lock that
was verified against the file: a lock file is replaced only while no writer runs, and
a descriptor of a removed file never passes the verification. From one writer it
follows that the version a writer read is the one it replaces. `DirectoryAssumption`
adds that the value for a missing journal is no process and no version.

`RoundImportProofs`, the import: `ImportsImplementRegistry` (`RoundImport` implements
`BeaconRegistry`'s `Spec`, step by step), `ReportsAreTrue` (`ImportInv`) and
`DaemonNeverPaysTwice` (`DaemonPaysOnce`). With the refinement, the theorems about
the registry hold of imports too. Its invariant relates the job's phase to
the transactions recorded: which one is the job's own, that it was recorded after the
journal was consulted, that none of the round is on its way when the daemon goes on
(`NothingUnderWay`), and for each outcome what it names (`Accounted`).

`ReportingProofs` (any clients, methods and bounds): `ReportsAreHonest`
(`ReportingInv`), `SilenceIsShort` (`SilenceIsBounded`). A report sums counters over
rows, and each row is the difference of two observations made while requests are in
flight. So `RInv` says that each row is in flight exactly as the requests are
(`FlightsAgree`, for HTTP rows a sum over the methods), that it counts what began and
ended in it (`RowsAgree`), that the session's observation was such a state too and is
not above the present one (`PrevIsEarlier`), and for the silence that the last
heartbeat was written or its failure told (`HeartbeatIsHeard`). Sums over a finite set
of rows are the community modules' `SumFunction`; the lemmas `SumIs` to `SumGrows` are
what the proof needs of it (one more in one row is one more in the sum, a sum of
differences is the difference of the sums). `ReportingAssumption` says that clients and methods are finite and that `None`
is no time, no status and no observation.

Constants are assumed only what the modules' ASSUME formulas say; TLC evaluates
them in the runs.

Out of the prover's reach, and only model-checked: liveness under fairness and
ENABLED (`RetainedIsResolved`, `GateReopens`, `DurableRequestsAreServed`,
`CheckpointCatchesUp`, `ImportsEnd`, `LoopGoesOn`); anything that
needs induction over data; recursive operators. Every invariant, every action property
and every refinement that a passing run checks is also proved.

## 5. Not modelled

* The verifier's curve arithmetic, the witness computation, signature recovery.
* Encoding and decoding of the journal, the checkpoint and the status file, their
  size limits; permissions and paths.
* Parsing of arguments, configuration and environment; output text; classification,
  wording and scrubbing of errors (`relayer/diagnostics/`): character-level data on
  which no decision of the modelled parts rests.
* The length of waits, delays and timeouts outside `RoundImport` and `Reporting`:
  they are steps that may happen or fail.
* Malformed node answers beyond failing the pass that reads them.
* How the finality policy computes the durable block.
* A wall clock that is set back: status age and heartbeat are checked without it.
* A fork that is abandoned and readopted between two anchor reads: hashes are
  never reused in the models.
* Build, release, security and deployment scripts.

## 6. Plan

1. (done) signer coordinator over a reorganising chain; journal file and its
   refinement; daemon loop; contracts; recovery cycle and transaction manager.
2. (done) nonce synchronisation, the state directory and its lock, status and
   resolution evidence, reporting, the steps of a round import.
3. Proofs. Done: the journal file with its refinement, the contracts, the signer,
   the recovery cycle over it, the nonce repair, the daemon, the state directory, the
   import of a round and its refinement, the published status, reporting.
   Left: the registry and the daemon as one composition (`RequestDaemon` knows an
   import by its outcome); fewer and shorter lemmas about the signer.
