---------------------------- MODULE RequestDaemon ----------------------------
(***************************************************************************)
(* The daemon loop: apps/relayer/src/daemon (runDaemonCycle,               *)
(* runDaemonIteration), consumers (reconcileDurableRequests,               *)
(* scanQuicknetRequests, processQuicknetRequestsWithOutcomes), the         *)
(* checkpoint store and the cached chain heads.                            *)
(*                                                                         *)
(* A consumer's requests are scanned twice: up to the durable head, from a *)
(* checkpoint on disk, and above it, from a cursor in memory.  The rounds  *)
(* found are imported one after the other; the checkpoint moves up to the  *)
(* first request whose round is not in the registry at the durable block.  *)
(*                                                                         *)
(* The signer is abstract here: `retained' are the rounds its journal      *)
(* holds an attempt for, whose transaction may be mined at any time        *)
(* (SignerCoordinator).  The chain, drand and other relayers are external. *)
(*                                                                         *)
(* The iteration is split where it awaits something that takes time: the   *)
(* opening anchor, the log scan, each import, the closing anchor, the      *)
(* checkpoint write.  The storage reads belong to the closing anchor,      *)
(* whose hash fixes what they answer.                                      *)
(***************************************************************************)
EXTENDS Integers, Sequences, FiniteSetsExt

CONSTANTS
    NumConsumers,   \* the configured consumers are 1..NumConsumers, in order
    Rounds,         \* Quicknet rounds
    StartBlock,     \* the configured first block
    MaxBlockRange,  \* blocks one scan may cover
    WeakTag,        \* whether a block reported durable may be reorganised
    None,           \* absent value
    MaxBlocks,      \* bound: request or empty blocks mined, over all forks
    MaxReorgs,      \* bound: reorganisations
    MaxFaults,      \* bound: failed requests, failed writes and crashes
    MaxTrouble      \* bound: reorganisations and faults together

ASSUME DaemonAssumption ==
    /\ NumConsumers \in Nat \ {0}
    /\ StartBlock \in Nat \ {0}
    /\ MaxBlockRange \in Nat \ {0}
    /\ WeakTag \in BOOLEAN
    /\ MaxBlocks \in Nat /\ MaxReorgs \in Nat /\ MaxFaults \in Nat
    /\ MaxTrouble \in Nat
    /\ None \notin Rounds /\ None \notin Nat

VARIABLES
    chain,      \* the canonical chain: requests in the block, registry after it
    minted,     \* the last block hash handed out
    durable,    \* number of the block the node reports durable
    published,  \* rounds drand has published
    reorgs,     \* reorganisations so far (bound)
    broken,     \* a block reported durable has been reorganised (history)
    retained,   \* rounds with an attempt in the signer's journal
    file,       \* the checkpoint file: next block per consumer
    loaded,     \* FileCheckpointStore.state
    headCache,  \* the durable head cached by the chain heads reader
    soft,       \* softCursors
    it,         \* the iteration in progress
    faults      \* faults so far (bound)

envVars    == <<chain, minted, durable, published, reorgs, broken>>
daemonVars == <<retained, file, loaded, headCache, soft, it, faults>>
vars       == <<envVars, daemonVars>>

Consumers  == 1..NumConsumers
Optional   == Nat \cup {None}
Block      == [hash : Nat, reqs : SUBSET (Consumers \X Rounds),
               stored : SUBSET Rounds]
Request    == [round : Rounds, first : Nat]
Checkpoint == [Consumers -> Optional]

Stage == {"sleep", "load", "anchor", "scan", "import", "close", "save",
          "soft-scan", "soft-import"}

\* `next': durableNextBlock; `durable', `latest': the chain heads; `anchor': the
\* hash of the durable block; `to': the last block scanned; `found': the rounds
\* of the scan, each with its first request block; `queue': the ones left to
\* import; `decided': the new checkpoint; `failed': an import of this pass failed.
Iteration ==
    [stage : Stage, consumer : Consumers, next : Nat, durable : Nat,
     latest : Nat, anchor : Optional, to : Nat, found : SUBSET Request,
     queue : SUBSET Request, decided : Nat, failed : BOOLEAN]

Blank(stage, c) ==
    [stage |-> stage, consumer |-> c, next |-> 0, durable |-> 0, latest |-> 0,
     anchor |-> None, to |-> 0, found |-> {}, queue |-> {}, decided |-> 0,
     failed |-> FALSE]

TypeOK ==
    /\ chain \in Seq(Block) /\ durable \in 1..Len(chain)
    /\ published \subseteq Rounds /\ retained \subseteq Rounds
    /\ minted \in Nat /\ reorgs \in Nat /\ faults \in Nat /\ broken \in BOOLEAN
    /\ file \in Checkpoint
    /\ loaded \in Checkpoint \cup {None}
    /\ headCache \in Optional
    /\ soft \in Checkpoint
    /\ it \in Iteration

\* isStored, at the head and at canonical block n.
StoredAt(r, n) == n <= Len(chain) /\ r \in chain[n].stored
Stored(r)      == StoredAt(r, Len(chain))

Init ==
    /\ chain = <<[hash |-> 0, reqs |-> {}, stored |-> {}]>>
    /\ minted = 0 /\ durable = 1 /\ published = {} /\ reorgs = 0
    /\ broken = FALSE
    /\ retained = {} /\ faults = 0
    /\ file = [c \in Consumers |-> None]
    /\ loaded = None /\ headCache = None
    /\ soft = [c \in Consumers |-> None]
    /\ it = Blank("sleep", 1)

-----------------------------------------------------------------------------
(* The environment (external).                                             *)

Mine(reqs, rounds) ==
    /\ chain' = Append(chain, [hash |-> minted + 1, reqs |-> reqs,
                               stored |-> chain[Len(chain)].stored \cup rounds])
    /\ minted' = minted + 1
    /\ UNCHANGED <<durable, published, reorgs, broken>>

\* A block without, or with one, request of a consumer.
MineRequest ==
    /\ minted < MaxBlocks
    /\ \E reqs \in {{}} \cup {{q} : q \in Consumers \X Rounds} : Mine(reqs, {})

\* A retained transaction is mined, or another relayer stores a round.
MineRetained == \E r \in retained : ~Stored(r) /\ Mine({}, {r})
MineOther    == \E r \in published : minted < MaxBlocks /\ ~Stored(r) /\ Mine({}, {r})

Publish ==
    /\ \E r \in Rounds \ published : published' = published \cup {r}
    /\ UNCHANGED <<chain, minted, durable, reorgs, broken>>

Finalize ==
    /\ durable < Len(chain)
    /\ durable' = durable + 1
    /\ UNCHANGED <<chain, minted, published, reorgs, broken>>

\* If the finality policy was chosen too weak, blocks it reports as durable may
\* go too, and the reported block goes back.
Reorg ==
    /\ reorgs < MaxReorgs /\ reorgs + faults < MaxTrouble
    /\ reorgs' = reorgs + 1
    /\ \E k \in (IF WeakTag THEN 1 ELSE durable)..(Len(chain) - 1) :
         /\ chain' = SubSeq(chain, 1, k)
         /\ durable' = Min({durable, k})
         /\ broken' = (broken \/ k < durable)
    /\ UNCHANGED <<minted, published>>

EnvNext ==
    /\ MineRequest \/ MineRetained \/ MineOther \/ Publish \/ Finalize \/ Reorg
    /\ UNCHANGED daemonVars

-----------------------------------------------------------------------------
(* Faults: a request is refused or times out, a write fails, the process   *)
(* stops.                                                                  *)

Fault ==
    /\ faults < MaxFaults /\ reorgs + faults < MaxTrouble
    /\ faults' = faults + 1

\* runDaemonCycle reports the failure and goes on with the next consumer; after
\* the last one the daemon sleeps.
Following_EndsCycle(c) == Blank("sleep", 1)
Following(c) == IF c = NumConsumers THEN Blank("sleep", 1) ELSE Blank("load", c + 1)

\* Some step of the iteration other than an import or the checkpoint write throws.
IterationFails ==
    /\ it.stage \in {"load", "scan", "soft-scan"}
    /\ Fault
    /\ headCache' \in {headCache} \cup (IF it.stage = "load" THEN {None} ELSE {})
    /\ it' = Following(it.consumer)
    /\ UNCHANGED <<envVars, retained, file, loaded, soft>>

\* The next checkpoint file, when the decided checkpoint is written.
Written == [file EXCEPT ![it.consumer] = it.decided]

\* The process stops and starts again: only the file and the journal remain.
Crash ==
    /\ Fault
    /\ \/ UNCHANGED file
       \/ it.stage = "save" /\ file' = Written
    /\ loaded' = None /\ headCache' = None
    /\ soft' = [c \in Consumers |-> None]
    /\ it' = Blank("sleep", 1)
    /\ UNCHANGED <<envVars, retained>>

-----------------------------------------------------------------------------
(* The cycle.                                                              *)

\* submitter.recover() with a durable head d that is fresh or cached: attempts
\* that are resolved there leave the journal.
Recover(d) ==
    /\ it.stage = "sleep"
    /\ d <= Len(chain)
    /\ retained' = {r \in retained : ~StoredAt(r, d)}
    /\ headCache' = d
    /\ it' = Blank("load", 1)
    /\ UNCHANGED <<envVars, file, loaded, soft, faults>>

RecoverFresh  == Recover(durable)
RecoverCached == headCache # None /\ headCache # durable /\ Recover(headCache)

\* An attempt was replaced or reverted and leaves the journal with nothing stored.
RecoverLosesAttempt ==
    /\ it.stage = "sleep"
    /\ Fault
    /\ \E r \in retained : ~Stored(r) /\ retained' = retained \ {r}
    /\ headCache' = durable
    /\ it' = Blank("load", 1)
    /\ UNCHANGED <<envVars, file, loaded, soft>>

\* Recovery throws: every consumer of the cycle is reported failed.
RecoverFails ==
    /\ it.stage = "sleep"
    /\ Fault
    /\ headCache' \in {headCache, None}
    /\ it' = it
    /\ UNCHANGED <<envVars, retained, file, loaded, soft>>

\* checkpointStore.load (which reads the file again after a failed save), then
\* readChainHeads with a durable head d that is fresh or cached.
StartIteration(d) ==
    LET state == IF loaded = None THEN file ELSE loaded
        c     == it.consumer
        next  == IF state[c] = None THEN StartBlock ELSE state[c]
    IN  /\ it.stage = "load"
        /\ d <= Len(chain)
        /\ loaded' = state
        /\ headCache' = d
        /\ it' = [it EXCEPT !.next = next, !.durable = d, !.latest = Len(chain),
                            !.stage = IF next <= d THEN "anchor" ELSE "soft-scan"]
        /\ UNCHANGED <<envVars, retained, file, soft, faults>>

\* The cached durable head is above the latest one: the reader throws and forgets
\* it.  Recovery fails, or the iteration does.
CachedHeadAhead ==
    /\ it.stage \in {"sleep", "load"}
    /\ headCache # None /\ headCache > Len(chain)
    /\ headCache' = None
    /\ it' = IF it.stage = "sleep" THEN it ELSE Following(it.consumer)
    /\ UNCHANGED <<envVars, retained, file, loaded, soft, faults>>

StartFresh  == StartIteration(durable)
StartCached == headCache # None /\ headCache # durable /\ StartIteration(headCache)

-----------------------------------------------------------------------------
(* reconcileDurableRequests.                                               *)

\* The opening anchor.  Without it the pass decides nothing.
OpenAnchor ==
    /\ it.stage = "anchor"
    /\ it.durable <= Len(chain)
    /\ it' = [it EXCEPT !.anchor = chain[it.durable].hash, !.stage = "scan"]
    /\ UNCHANGED <<envVars, retained, file, loaded, headCache, soft, faults>>

AnchorUnavailable ==
    /\ it.stage = "anchor"
    /\ IF it.durable <= Len(chain) THEN Fault ELSE UNCHANGED faults
    /\ it' = [it EXCEPT !.stage = "soft-scan"]
    /\ UNCHANGED <<envVars, retained, file, loaded, headCache, soft>>

\* The rounds a consumer requested in the given blocks, each with its first one
\* (scanQuicknetRequests, then the map of processQuicknetRequestsWithOutcomes).
FirstRequests_Last(c, from, to) ==
    {q \in [round : Rounds, first : from..Min({to, Len(chain)})] :
        /\ <<c, q.round>> \in chain[q.first].reqs
        /\ \A k \in (q.first + 1)..Min({to, Len(chain)}) :
             <<c, q.round>> \notin chain[k].reqs}
FirstRequests(c, from, to) ==
    {q \in [round : Rounds, first : from..Min({to, Len(chain)})] :
        /\ <<c, q.round>> \in chain[q.first].reqs
        /\ \A k \in from..(q.first - 1) : <<c, q.round>> \notin chain[k].reqs}

ScanEnd(from, through) == Min({from + MaxBlockRange - 1, through})

ScanDurable ==
    LET to    == ScanEnd(it.next, it.durable)
        found == FirstRequests(it.consumer, it.next, to)
    IN  /\ it.stage = "scan"
        /\ it' = [it EXCEPT !.to = to, !.found = found, !.queue = found,
                            !.stage = "import"]
        /\ UNCHANGED <<envVars, retained, file, loaded, headCache, soft, faults>>

-----------------------------------------------------------------------------
(* processQuicknetRequestsWithOutcomes: one import after the other, oldest *)
(* request first.                                                          *)

Importing == it.stage \in {"import", "soft-import"} /\ it.queue # {}
Oldest    == CHOOSE q \in it.queue : \A p \in it.queue : q.first <= p.first
Dequeued  == [it EXCEPT !.queue = @ \ {Oldest}]

\* The work is retained already, or the round is stored.
ImportNotNeeded ==
    /\ Importing
    /\ Oldest.round \in retained \/ Stored(Oldest.round)
    /\ it' = Dequeued
    /\ UNCHANGED <<envVars, retained, file, loaded, headCache, soft, faults>>

\* Once the round is published the beacon is fetched and a transaction submitted.
\* Whether it is acknowledged and mined in time makes no difference here.
ImportSubmits ==
    /\ Importing
    /\ Oldest.round \notin retained /\ ~Stored(Oldest.round)
    /\ Oldest.round \in published
    /\ retained' = retained \cup {Oldest.round}
    /\ it' = Dequeued
    /\ UNCHANGED <<envVars, file, loaded, headCache, soft, faults>>

\* The signer's gate is closed, because an earlier attempt is not known to be
\* included or because its last recovery was incomplete: this round and all later
\* ones are deferred.
ImportDeferred ==
    /\ Importing
    /\ Oldest.round \notin retained /\ ~Stored(Oldest.round)
    /\ Oldest.round \in published
    /\ IF retained # {} THEN UNCHANGED faults ELSE Fault
    /\ it' = [it EXCEPT !.queue = {}]
    /\ UNCHANGED <<envVars, retained, file, loaded, headCache, soft>>

\* The import throws, before or after its transaction is recorded; the later
\* rounds are deferred.  A soft pass ends at once.
ImportFails ==
    /\ Importing
    /\ Oldest.round \notin retained
    /\ Fault
    /\ \/ UNCHANGED retained
       \/ /\ Oldest.round \in published /\ ~Stored(Oldest.round)
          /\ retained' = retained \cup {Oldest.round}
    /\ it' = IF it.stage = "import"
             THEN [it EXCEPT !.queue = {}, !.failed = TRUE]
             ELSE Following(it.consumer)
    /\ UNCHANGED <<envVars, file, loaded, headCache, soft>>

-----------------------------------------------------------------------------
(* The checkpoint decision.                                                *)

\* The first request whose round is not known to be stored at the durable block;
\* `answered' are the rounds the node answers for.
Decided_Imported(answered) ==
    Min({it.to + 1} \cup {q.first : q \in {p \in it.found : p.round \notin retained /\ ~Stored(p.round)}})
Decided(answered) ==
    Min({it.to + 1} \cup
        {q.first : q \in {p \in it.found :
            p.round \notin answered \/ ~StoredAt(p.round, it.durable)}})

\* The closing anchor matches the opening one.
AnchorHolds_Unchecked == TRUE
AnchorHolds == it.durable <= Len(chain) /\ chain[it.durable].hash = it.anchor

\* Where a pass goes on: a failed import is thrown after the checkpoint is saved.
AfterDurable ==
    IF it.failed THEN Following(it.consumer)
    ELSE [it EXCEPT !.stage = "soft-scan", !.found = {}]

CloseAnchor ==
    LET rounds == {q.round : q \in it.found}
    IN  /\ it.stage = "import" /\ it.queue = {}
        /\ \E answered \in SUBSET rounds :
             /\ IF answered = rounds THEN UNCHANGED faults ELSE Fault
             /\ it' = IF AnchorHolds /\ Decided(answered) > it.next
                      THEN [it EXCEPT !.decided = Decided(answered), !.stage = "save"]
                      ELSE AfterDurable
        /\ UNCHANGED <<envVars, retained, file, loaded, headCache, soft>>

\* The closing anchor cannot be read.
CloseUnavailable ==
    /\ it.stage = "import" /\ it.queue = {}
    /\ Fault
    /\ it' = AfterDurable
    /\ UNCHANGED <<envVars, retained, file, loaded, headCache, soft>>

\* FileCheckpointStore.save also refuses a checkpoint below the loaded one; the
\* decision is above it (CloseAnchor), so the refusal never applies here.
SaveCheckpoint ==
    /\ it.stage = "save"
    /\ file' = Written
    /\ loaded' = Written
    /\ it' = [AfterDurable EXCEPT !.next = IF it.failed THEN @ ELSE it.decided]
    /\ UNCHANGED <<envVars, retained, headCache, soft, faults>>

\* The write fails and may have reached the file all the same.  The store forgets
\* its state, and reads the file again on the next access.
SaveFails_KeepsState ==
    /\ it.stage = "save"
    /\ Fault
    /\ file' \in {file, Written}
    /\ UNCHANGED loaded
    /\ it' = Following(it.consumer)
    /\ UNCHANGED <<envVars, retained, headCache, soft>>
SaveFails ==
    /\ it.stage = "save"
    /\ Fault
    /\ file' \in {file, Written}
    /\ loaded' = None
    /\ it' = Following(it.consumer)
    /\ UNCHANGED <<envVars, retained, headCache, soft>>

-----------------------------------------------------------------------------
(* The soft scan.                                                          *)

\* getSoftNextBlock.
SoftNext(c) ==
    LET floor == Max({it.next, it.durable + 1})
    IN  IF soft[c] = None THEN floor ELSE Max({soft[c], floor})

ScanSoft ==
    LET c     == it.consumer
        from  == SoftNext(c)
        to    == ScanEnd(from, it.latest)
        found == FirstRequests(c, from, to)
    IN  /\ it.stage = "soft-scan"
        /\ IF from > it.latest
           THEN /\ soft' = [soft EXCEPT ![c] = from]
                /\ it' = Following(c)
           ELSE /\ it' = [it EXCEPT !.to = to, !.queue = found,
                                    !.stage = "soft-import"]
                /\ UNCHANGED soft
        /\ UNCHANGED <<envVars, retained, file, loaded, headCache, faults>>

SoftDone ==
    /\ it.stage = "soft-import" /\ it.queue = {}
    /\ soft' = [soft EXCEPT ![it.consumer] = it.to + 1]
    /\ it' = Following(it.consumer)
    /\ UNCHANGED <<envVars, retained, file, loaded, headCache, faults>>

-----------------------------------------------------------------------------
DaemonNext ==
    \/ RecoverFresh \/ RecoverCached \/ StartFresh \/ StartCached \/ CachedHeadAhead
    \/ OpenAnchor \/ AnchorUnavailable \/ ScanDurable
    \/ ImportNotNeeded \/ ImportSubmits \/ ImportDeferred
    \/ CloseAnchor \/ SaveCheckpoint
    \/ ScanSoft \/ SoftDone

FaultNext ==
    \/ IterationFails \/ Crash \/ RecoverLosesAttempt \/ RecoverFails
    \/ ImportFails \/ CloseUnavailable \/ SaveFails

Next == EnvNext \/ DaemonNext \/ FaultNext

\* The loop goes on: the process is restarted by its supervisor and no await is
\* left unsettled.  The cached head expires, so heads are read afresh ever again.
LoopFairness ==
    /\ WF_vars(DaemonNext)
    /\ SF_vars(RecoverFresh)
    /\ SF_vars(StartFresh)

\* drand publishes every round; the node mines what is broadcast; blocks become
\* durable.
EnvFairness ==
    /\ WF_vars(Publish /\ UNCHANGED daemonVars)
    /\ WF_vars(MineRetained /\ UNCHANGED daemonVars)
    /\ WF_vars(Finalize /\ UNCHANGED daemonVars)

Spec     == Init /\ [][Next]_vars
FairSpec == Spec /\ LoopFairness /\ EnvFairness

-----------------------------------------------------------------------------
(* Properties.                                                             *)

\* The rounds consumer c requested in canonical block k.
RequestedIn(c, k) == {r \in Rounds : k <= Len(chain) /\ <<c, r>> \in chain[k].reqs}

\* The checkpoint on disk never passes a request whose round is not in the
\* registry at a durable block, whatever crashed, failed or was reorganised on
\* the way: a restart loses no request (reconcileDurableRequests).  It holds as
\* long as no block reported durable is reorganised.
CheckpointIsSafe == ~broken =>
    \A c \in Consumers : file[c] # None =>
        /\ file[c] <= durable + 1
        /\ \A k \in StartBlock..(file[c] - 1) : \A r \in RequestedIn(c, k) :
             StoredAt(r, durable)

\* The daemon's state is well formed and a restart loses no request.
DaemonInv == TypeOK /\ CheckpointIsSafe

\* Even when the finality policy is too weak, a checkpoint is decided only over
\* requests of the chain that is canonical at the decision, each stored at the
\* durable block of that chain (the bracket of reconcileDurableRequests).
DecisionIsSound ==
    [][(it.stage = "import" /\ it'.stage = "save") =>
         \A k \in it.next..(it'.decided - 1) : \A r \in RequestedIn(it.consumer, k) :
             StoredAt(r, it.durable)]_vars

\* A checkpoint on disk never moves back, over failed writes and reloads
\* (FileCheckpointStore.save refuses to).
CheckpointOnlyAdvances ==
    [][\A c \in Consumers : file[c] # None =>
         file'[c] # None /\ file'[c] >= file[c]]_vars

\* Every request in a durable block is fulfilled in the end, although each pass
\* may fail, be deferred or be interrupted.
DurableRequestsAreServed ==
    \A c \in Consumers, r \in Rounds :
        (\E k \in StartBlock..durable : r \in RequestedIn(c, k))
            ~> StoredAt(r, durable)

\* The durable scan never gets stuck: once the chain is quiet the checkpoint
\* reaches the block after the durable head, for every consumer.
CheckpointCatchesUp == <>[](\A c \in Consumers : file[c] = durable + 1)
=============================================================================
