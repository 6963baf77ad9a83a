----------------------------- MODULE RoundImport -----------------------------
(***************************************************************************)
(* The import of a round, step by step (import-round.ts, import-round-     *)
(* when-available.ts, create-round-importer.ts, fetch-beacon-with-retry.ts,*)
(* wait-for-round.ts, fetch.ts and round-import-command.ts), by a relayer  *)
(* whose journal outlives its processes.  BeaconRegistry has an import in  *)
(* four steps; the steps here implement it, over the same variables.       *)
(*                                                                         *)
(* The signer below submit is reduced to what an import sees of it: a gate *)
(* that may be closed, and one recorded transaction per work (RecoveryCycle*)
(* and SignerCoordinator model it).  Reorganisations are left to them too. *)
(***************************************************************************)
EXTENDS BeaconRegistry, Sequences

CONSTANTS
    ImportRounds,    \* the rounds that are asked for
    MaxAttempts,     \* maxAttempts of fetchQuicknetBeaconWithRetry
    MaxTimer,        \* the longest delay a Node.js timer can wait for
    MaxSafeInteger,  \* the longest delay waitForQuicknetRound accepts
    MaxTx            \* bound: transactions of a relayer

ASSUME ImportAssumption ==
    /\ ImportRounds \subseteq Rounds
    /\ MaxAttempts \in Nat \ {0}
    /\ MaxTimer \in Nat /\ MaxSafeInteger \in Nat /\ MaxTx \in Nat

VARIABLES
    job,  \* the import each relayer runs, or its result
    txs   \* the transactions each relayer recorded, in order

importVars == <<vars, job, txs>>

\* `daemon' is the importer the daemon binds, the others are the two commands.
Kind  == {"import", "import-when-available", "daemon"}
Phase == {"verify", "check", "read", "wait", "sleep", "fetch", "simulate", "submit",
          "send", "receipt", "confirm", "done"}
Status == {"none", "imported", "already-stored", "pending", "deferred", "error",
           "cancelled"}

\* `held': the beacon was fetched before.  `told': the output names a transaction:
\* the result, the progress or the recording a command prints, or the log of the
\* broadcast (attemptBroadcastAccepted, attemptBroadcastNotAcknowledged).  `before':
\* transactions signed when the import began.
Job == [phase : Phase, kind : Kind, round : Rounds, held : BOOLEAN,
        tries : 1..MaxAttempts, due : 0..(MaxTime + MaxTimer), expected : Signatures,
        status : Status, randomness : Signatures, told : BOOLEAN, before : 0..MaxTx]
NoJob == [phase |-> "done", kind |-> "import", round |-> 1, held |-> FALSE, tries |-> 1,
          due |-> 0, expected |-> 0, status |-> "none", randomness |-> 0,
          told |-> FALSE, before |-> 0]

\* `uncertain': signed, and the write of the journal was not acknowledged.
\* `resolved': recovery has removed it from the journal.
TxState == {"uncertain", "recorded", "sent", "mined", "reverted", "replaced"}
Tx == [round : Rounds, sig : Signatures, path : Path, kind : Kind,
       state : TxState, resolved : BOOLEAN]

ImportTypeOK ==
    /\ TypeOK
    /\ job \in [Relayers -> Job]
    /\ \A p \in Relayers : Len(txs[p]) <= MaxTx /\ \A i \in 1..Len(txs[p]) : txs[p][i] \in Tx

-----------------------------------------------------------------------------
\* In the acknowledged journal; in a write that failed and is tried again.
Retained(p, round) ==
    \E i \in 1..Len(txs[p]) :
        txs[p][i].round = round /\ ~txs[p][i].resolved /\ txs[p][i].state # "uncertain"
Unsaved(p) == \E i \in 1..Len(txs[p]) : txs[p][i].state = "uncertain"

In(p, phase) == job[p].phase = phase
World == <<clock, timestamp, minimumLead, lead, beacons, last>>

Step(p, j) == job' = [job EXCEPT ![p] = j]
To(p, phase) == Step(p, [job[p] EXCEPT !.phase = phase])

\* The import returns or throws.
Result(p, status, randomness, told) ==
    [NoJob EXCEPT !.status = status, !.round = job[p].round, !.randomness = randomness,
                  !.told = told, !.before = job[p].before]
End(p, status) == Step(p, Result(p, status, 0, FALSE))
EndTold(p, status) == Step(p, Result(p, status, 0, TRUE))

\* What the import had fetched or submitted is given up with it.
Leave(p) ==
    imports' = [imports EXCEPT ![p] = IF @.stage \in {"fetched", "submitted"} THEN Idle ELSE @]

ImportInit ==
    /\ Init
    /\ job = [p \in Relayers |-> NoJob]
    /\ txs = [p \in Relayers |-> <<>>]

-----------------------------------------------------------------------------
(* Before the transaction.                                                 *)

\* The daemon's importer defers to a retained transaction before it looks further.
DefersAtOnce_Never(p, kind, round) == FALSE
DefersAtOnce(p, kind, round) == kind = "daemon" /\ Retained(p, round)

\* A command is a process of its own: what an earlier one left unsaved, the journal
\* it has read decides.
Begin(p) ==
    /\ In(p, "done")
    /\ \E r \in ImportRounds, k \in Kind :
         /\ k # "daemon" => ~Unsaved(p)
         /\ Step(p, [NoJob EXCEPT
                     !.phase = IF DefersAtOnce(p, k, r) THEN "done" ELSE "verify",
                     !.status = IF DefersAtOnce(p, k, r) THEN "deferred" ELSE "none",
                     !.kind = k, !.round = r, !.before = Len(txs[p])])
    /\ UNCHANGED <<World, imports, txs>>

\* verifyRegistryDeployment
VerifyDeployment(p) ==
    /\ In(p, "verify")
    /\ IF minimumLead = 0 THEN End(p, "error") /\ Leave(p)
       ELSE To(p, "check") /\ UNCHANGED imports
    /\ UNCHANGED <<World, txs>>

\* isStored, in both files; a beacon fetched before is not needed once the round
\* is stored.
CheckStored(p) ==
    /\ In(p, "check")
    /\ IF isStored(job[p].round) THEN To(p, "read") /\ Leave(p)
       ELSE /\ To(p, IF job[p].held THEN "simulate"
                    ELSE IF job[p].kind = "import" THEN "fetch" ELSE "wait")
            /\ UNCHANGED imports
    /\ UNCHANGED <<World, txs>>

ReadStored(p) ==
    /\ In(p, "read")
    /\ Step(p, Result(p, "already-stored", beacons[job[p].round], FALSE))
    /\ UNCHANGED <<World, imports, txs>>

\* waitForQuicknetRound.  A timer that is asked for more than it can wait for
\* fires at once (external).
TimerFires(delay) == clock + (IF delay > MaxTimer THEN 0 ELSE delay)

WaitForRound(p) ==
    LET delay == roundScheduledTime(job[p].round) - clock
    IN  /\ In(p, "wait")
        /\ CASE delay <= 0 -> To(p, "fetch")
             [] delay > MaxSafeInteger -> End(p, "error")
             [] OTHER -> Step(p, [job[p] EXCEPT !.phase = "sleep", !.due = TimerFires(delay)])
        /\ UNCHANGED <<World, imports, txs>>

Wake(p) ==
    /\ In(p, "sleep") /\ clock >= job[p].due
    /\ Step(p, [job[p] EXCEPT !.phase = "fetch", !.due = 0])
    /\ UNCHANGED <<World, imports, txs>>

\* fetchBeacon: some endpoint answers for the round, with a signature of any round
\* that has one, or with something else that has the form of a signature.  A
\* waiting import then starts over with the beacon in hand.
FetchBeacon(p) ==
    /\ In(p, "fetch")
    /\ Fetch(p)
    /\ imports'[p].round = job[p].round
    /\ IF job[p].kind = "import" THEN To(p, "simulate")
       ELSE Step(p, [job[p] EXCEPT !.phase = "verify", !.held = TRUE, !.tries = 1])
    /\ UNCHANGED txs

\* Every endpoint failed, was late, or answered for another round.
MoreTries_Always(p) == job[p].kind # "import"
MoreTries(p) == job[p].kind # "import" /\ job[p].tries < MaxAttempts

FetchFails(p) ==
    /\ In(p, "fetch")
    /\ IF MoreTries(p)
       THEN Step(p, [job[p] EXCEPT !.tries = (@ % MaxAttempts) + 1])
       ELSE End(p, "error")
    /\ UNCHANGED <<World, imports, txs>>

SimulateSubmission_Unchecked(p) ==
    /\ In(p, "simulate") /\ At(p, "fetched")
    /\ imports' = [imports EXCEPT ![p].stage = "submitted", ![p].path = "compressed"]
    /\ To(p, "submit")
    /\ UNCHANGED <<World, txs>>
SimulateSubmission(p) ==
    /\ In(p, "simulate")
    /\ Simulate(p)
    /\ IF imports'[p].stage = "submitted" THEN To(p, "submit") ELSE End(p, "error")
    /\ UNCHANGED txs

-----------------------------------------------------------------------------
(* The transaction.                                                        *)

\* submit: the signer's gate is closed, as it is over a failed write, or the round's
\* work is retained.
Defer(p) ==
    /\ In(p, "submit")
    /\ End(p, "deferred") /\ Leave(p)
    /\ UNCHANGED <<World, txs>>

\* prepareAttempt: the signed transaction is in the journal, or the write failed.
Prepare(p) ==
    LET i == imports[p]
    IN  /\ In(p, "submit") /\ Len(txs[p]) < MaxTx
        /\ ~Retained(p, job[p].round) /\ ~Unsaved(p)
        /\ \E s \in {"recorded", "uncertain"} :
             txs' = [txs EXCEPT ![p] = Append(@,
                       [round |-> i.round, sig |-> i.sig, path |-> i.path,
                        kind |-> job[p].kind, state |-> s, resolved |-> FALSE])]
        /\ Step(p, [job[p] EXCEPT !.phase = "send", !.expected = i.simulated])
        /\ UNCHANGED <<World, imports>>

Newest(p) == txs[p][Len(txs[p])]
Become(p, i, state) == txs' = [txs EXCEPT ![p][i].state = state]

\* broadcastAttempt: acknowledged, or not; either is logged at once.
Acknowledged(p) ==
    /\ In(p, "send") /\ Newest(p).state = "recorded"
    /\ Become(p, Len(txs[p]), "sent") /\ To(p, "receipt")
    /\ UNCHANGED <<World, imports>>

NotAcknowledged(p) ==
    /\ In(p, "send") /\ Newest(p).state = "recorded"
    /\ Become(p, Len(txs[p]), "sent") /\ EndTold(p, "pending") /\ Leave(p)
    /\ UNCHANGED World

\* captureSubmissionRecording: what becomes known of the submission that threw.
Recording(p) ==
    IF Retained(p, job[p].round) THEN "retained" ELSE IF Unsaved(p) THEN "uncertain" ELSE "none"

\* A command prints the recording, also when it is interrupted.  The daemon logs the
\* error without it (summarizeError).
Prints(p, recording) == job[p].kind # "daemon" /\ recording # "none"

\* The journal write of the signed transaction or of its broadcast marker failed,
\* or the permit to broadcast is gone: nothing was sent.
SendFails(p) ==
    /\ In(p, "send")
    /\ Step(p, Result(p, "error", 0, Prints(p, Recording(p)))) /\ Leave(p)
    /\ UNCHANGED <<World, txs>>

\* waitForTransactionReceipt: of the transaction, or of the one that took its
\* nonce, which may have failed.
Receipt(p) ==
    /\ In(p, "receipt") /\ Newest(p).state \in {"mined", "reverted", "replaced"}
    /\ \/ Newest(p).state # "reverted" /\ To(p, "confirm")
       \/ Newest(p).state # "mined" /\ EndTold(p, "error")
    /\ UNCHANGED <<World, imports, txs>>

ReceiptTimeout(p) ==
    /\ In(p, "receipt")
    /\ EndTold(p, "pending") /\ Leave(p)
    /\ UNCHANGED <<World, txs>>

\* readStoredBeaconAtBlock, which reverts for a round that is not stored.  A
\* stored value never changes, so the block is left out.
Confirm_TrustsReceipt(p) ==
    /\ In(p, "confirm")
    /\ Step(p, Result(p, "imported", job[p].expected, TRUE))
    /\ UNCHANGED <<World, imports, txs>>
Confirm(p) ==
    LET stored == beacons[job[p].round]
    IN  /\ In(p, "confirm")
        /\ IF isStored(job[p].round) /\ stored = job[p].expected
           THEN Step(p, Result(p, "imported", stored, TRUE))
           ELSE EndTold(p, "error")
        /\ UNCHANGED <<World, imports, txs>>

-----------------------------------------------------------------------------
(* Failures and cancellation.                                              *)

\* A request of the node fails, or an operation of the signer before it has
\* recorded anything.
RequestFails(p) ==
    /\ \/ job[p].phase \in {"verify", "check", "read", "simulate", "submit"} /\ End(p, "error")
       \/ job[p].phase \in {"receipt", "confirm"} /\ EndTold(p, "error")
    /\ Leave(p)
    /\ UNCHANGED <<World, txs>>

\* A shutdown signal is seen at the next throwIfAborted.  The last one is between
\* the record of the transaction and its broadcast: it stays in the journal.
Cancel(p) ==
    /\ \/ /\ job[p].phase \in {"verify", "check", "wait", "sleep", "fetch", "simulate", "submit"}
          /\ End(p, "cancelled")
       \/ /\ In(p, "send") /\ Newest(p).state = "recorded"
          /\ Step(p, Result(p, "cancelled", 0, Prints(p, Recording(p))))
    /\ Leave(p)
    /\ UNCHANGED <<World, txs>>

Crash(p) ==
    /\ ~In(p, "done")
    /\ Step(p, NoJob) /\ Leave(p)
    /\ UNCHANGED <<World, txs>>

-----------------------------------------------------------------------------
(* The chain and the signer's recovery.                                    *)

\* Between two imports the write is tried again, or the next process finds the
\* transaction in the journal.
Settle(p, i) ==
    /\ In(p, "done") /\ txs[p][i].state = "uncertain"
    /\ Become(p, i, "recorded")
    /\ UNCHANGED <<World, imports, job>>

\* Or the next process finds the journal without it.
Lose(p) ==
    /\ In(p, "done") /\ Unsaved(p)
    /\ txs' = [txs EXCEPT ![p] = SubSeq(@, 1, Len(@) - 1)]
    /\ Step(p, NoJob)
    /\ UNCHANGED <<World, imports>>

\* A recorded transaction is sent again by the retry schedule.
Resend(p, i) ==
    /\ txs[p][i].state = "recorded" /\ (i = Len(txs[p]) => ~In(p, "send"))
    /\ Become(p, i, "sent")
    /\ UNCHANGED <<World, imports, job>>

Awaited(p, i) == In(p, "receipt") /\ i = Len(txs[p])

Mine(p, i) ==
    LET t == txs[p][i]
    IN  /\ t.state = "sent"
        /\ Become(p, i, IF Submission(t.round, t.sig, t.path) = None THEN "reverted" ELSE "mined")
        /\ IF Awaited(p, i) THEN Mined(p)
           ELSE /\ Execute(t.round, t.sig, t.path)
                /\ UNCHANGED <<clock, timestamp, minimumLead, lead, last, imports>>
        /\ UNCHANGED job

\* Another transaction of the same key takes the nonce.  What takes it during the
\* broadcast is seen only after it.
Replace(p, i) ==
    /\ txs[p][i].state \in {"recorded", "sent"} /\ (i = Len(txs[p]) => ~In(p, "send"))
    /\ Become(p, i, "replaced")
    /\ IF Awaited(p, i) THEN Leave(p) ELSE UNCHANGED imports
    /\ UNCHANGED <<World, job>>

\* Recovery, at the start of a process, between imports and at the start of
\* submit, finds the nonce used in a durable block.
Resolve(p, i) ==
    /\ txs[p][i].state \in {"mined", "reverted", "replaced"} /\ ~txs[p][i].resolved
    /\ job[p].phase \in {"done", "submit"}
    /\ txs' = [txs EXCEPT ![p][i].resolved = TRUE]
    /\ UNCHANGED <<World, imports, job>>

Chain ==
    /\ Tick \/ NewBlock \/ DeployRegistry \/ DeployConsumer \/ Request \/ Submit
    /\ UNCHANGED <<job, txs>>

Proceed(p) ==
    \/ VerifyDeployment(p) \/ CheckStored(p) \/ ReadStored(p)
    \/ WaitForRound(p) \/ Wake(p) \/ FetchBeacon(p) \/ FetchFails(p)
    \/ SimulateSubmission(p) \/ Defer(p) \/ Prepare(p)
    \/ Acknowledged(p) \/ NotAcknowledged(p) \/ SendFails(p)
    \/ Receipt(p) \/ ReceiptTimeout(p) \/ Confirm(p) \/ RequestFails(p)

ImportNext ==
    \/ Chain
    \/ \E p \in Relayers :
         \/ Begin(p) \/ Proceed(p) \/ Cancel(p) \/ Crash(p) \/ Lose(p)
         \/ \E i \in 1..Len(txs[p]) :
              Settle(p, i) \/ Resend(p, i) \/ Mine(p, i) \/ Replace(p, i) \/ Resolve(p, i)

\* Every awaited operation of an import ends, by an answer, an error or its
\* timeout; time passes.
ImportSpec ==
    /\ ImportInit /\ [][ImportNext]_importVars
    /\ WF_importVars(Chain /\ clock' > clock)
    /\ \A p \in Relayers : WF_importVars(Proceed(p))

-----------------------------------------------------------------------------
(* Properties.                                                             *)

\* An import that reports success reports drand's randomness of its round, which
\* the registry holds, also when the receipt it saw is that of a replacement
\* (readStoredBeaconAtBlock).
SuccessIsStored ==
    \A p \in Relayers : job[p].status \in {"imported", "already-stored"} =>
        /\ beacons[job[p].round] = job[p].randomness
        /\ job[p].randomness = RandomnessOf(job[p].round) /\ job[p].randomness # 0

\* An import that ends names a transaction only if it signed one, and leaves none
\* unnamed that it sent, or that a command signed, unless the process was killed
\* (apps/relayer/README.md, "Submission failures and recording state").  What the
\* daemon signed and did not send, its failure or its shutdown does not name; no
\* deferral and no import of a stored round leaves one (exit status 4).
TransactionsAreTold ==
    \A p \in Relayers : In(p, "done") /\ job[p].status # "none" =>
        /\ job[p].told => Len(txs[p]) = job[p].before + 1
        /\ ~job[p].told /\ Len(txs[p]) > job[p].before =>
             Newest(p).kind = "daemon" /\ job[p].status \in {"error", "cancelled"}

\* What an import reports is what happened (importQuicknetRound and its callers).
ImportInv == ImportTypeOK /\ SuccessIsStored /\ TransactionsAreTold

\* The daemon does not pay twice for a round, over restarts, timeouts and late
\* transactions: a transaction of its imports is never executed after an earlier
\* one of the same relayer for the round (findRetainedWork, isStored).  A single
\* import command can: its transaction may be prepared after an earlier one was
\* mined and resolved, when the round was checked before.
DaemonPaysOnce ==
    \A p \in Relayers : \A i, k \in 1..Len(txs[p]) :
        (i < k /\ txs[p][i].round = txs[p][k].round
           /\ txs[p][i].state = "mined" /\ txs[p][k].state \in {"mined", "reverted"})
        => txs[p][k].kind # "daemon"

\* Every import ends: the wait for the round, the fetch retries and the wait for
\* the receipt are bounded (wait-for-round.ts, fetch-beacon-with-retry.ts).
ImportsEnd == \A p \in Relayers : ~In(p, "done") ~> In(p, "done")

\* An import that waits for its round does not ask drand for it before it is
\* scheduled (apps/relayer/README.md: it "first waits until R is scheduled").
FetchesWhenScheduled ==
    \A p \in Relayers : In(p, "fetch") /\ job[p].kind # "import" =>
        roundScheduledTime(job[p].round) <= clock
=============================================================================
