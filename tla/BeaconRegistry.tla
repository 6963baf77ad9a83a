---------------------------- MODULE BeaconRegistry ----------------------------
(***************************************************************************)
(* The contracts: DrandQuicknetBeaconRegistry, the entry points of         *)
(* DrandQuicknetBeaconVerifier and DrandQuicknetRandomnessConsumer, with   *)
(* the path on which relayers bring beacons to them (import-round.ts,      *)
(* simulate-beacon-submission.ts, fetch.ts).                               *)
(*                                                                         *)
(* A signature is the number of the round it is drand's signature of, or 0 *)
(* when it is none; the randomness of a signature is its hash, and 0 is    *)
(* bytes32(0), which the registry reads as "not stored".  drand's rounds   *)
(* are unchained, and a round's signature exists from its scheduled time.  *)
(* The curve arithmetic of the verifier is not modelled.                   *)
(***************************************************************************)
EXTENDS Integers

CONSTANTS
    GENESIS_TIMESTAMP,  \* the scheduled time of round 1
    PERIOD_SECONDS,     \* seconds between rounds
    MaxUint64,          \* type(uint64).max
    ZeroRounds,         \* rounds whose signature would hash to bytes32(0)
    Skew,               \* how far a block's timestamp may be off real time
    Relayers,           \* relayers that import rounds
    None,               \* absent value
    MaxTime             \* bound: the real time at which the model stops

ASSUME RegistryAssumption ==
    /\ GENESIS_TIMESTAMP \in Nat
    /\ PERIOD_SECONDS \in Nat \ {0}
    /\ MaxUint64 \in Nat \ {0}
    /\ ZeroRounds \subseteq 1..MaxUint64
    /\ Skew \in Nat
    /\ MaxTime \in Nat
    /\ None \notin Nat \cup [round : 1..MaxUint64, clock : Nat, stored : BOOLEAN]

VARIABLES
    clock,        \* real time
    timestamp,    \* block.timestamp of the newest block
    minimumLead,  \* minimumLeadRounds of the registry, 0 before its deployment
    lead,         \* quicknetLeadRounds of the consumer, 0 before its deployment
    beacons,      \* _beacons
    last,         \* the newest commitment of the consumer
    imports       \* the import each relayer is at

vars == <<clock, timestamp, minimumLead, lead, beacons, last, imports>>

Rounds     == 1..MaxUint64
Signatures == 0..MaxUint64
Path       == {"compressed", "witness", "bad-witness"}

\* A commitment, with the real time and whether its round was stored already.
Commitment == [round : Rounds, clock : Nat, stored : BOOLEAN]

\* `failed': the transaction reverted, or the stored value is not the simulated
\* one, although the simulation succeeded.
Import == [stage : {"idle", "fetched", "submitted", "failed"}, round : Rounds,
           sig : Signatures, path : Path, simulated : Signatures]
Idle == [stage |-> "idle", round |-> 1, sig |-> 0, path |-> "compressed",
         simulated |-> 0]

TypeOK ==
    /\ clock \in Nat /\ timestamp \in Nat
    /\ minimumLead \in 0..MaxUint64
    /\ lead \in 0..MaxUint64
    /\ beacons \in [Rounds -> Signatures]
    /\ last \in Commitment \cup {None}
    /\ imports \in [Relayers -> Import]

-----------------------------------------------------------------------------
(* The schedule.                                                           *)

roundScheduledTime(round) == GENESIS_TIMESTAMP + (round - 1) * PERIOD_SECONDS

roundAt(t) ==
    IF t < GENESIS_TIMESTAMP THEN 0
    ELSE (t - GENESIS_TIMESTAMP) \div PERIOD_SECONDS + 1

\* The rounds whose signature exists.
Known == {r \in Rounds : roundScheduledTime(r) <= clock}

-----------------------------------------------------------------------------
(* The verifier and the registry.                                          *)

RandomnessOf(sig) == IF sig \in ZeroRounds THEN 0 ELSE sig

\* verifyBeacon and verifyBeaconWithWitness; a wrong witness is refused.
Verify_AnyRound(round, sig, path) ==
    IF sig # 0 /\ path # "bad-witness"
    THEN [verified |-> TRUE, randomness |-> RandomnessOf(sig)]
    ELSE [verified |-> FALSE, randomness |-> 0]
Verify(round, sig, path) ==
    IF sig = round /\ path # "bad-witness"
    THEN [verified |-> TRUE, randomness |-> RandomnessOf(sig)]
    ELSE [verified |-> FALSE, randomness |-> 0]

\* What submitBeacon and submitBeaconWithWitness return for a round other than
\* zero, which they refuse; None when they revert.
Submission_OnlyOnce(round, sig, path) ==
    LET v == Verify(round, sig, path)
    IN  IF beacons[round] # 0 \/ ~v.verified \/ v.randomness = 0
        THEN None ELSE v.randomness
Submission(round, sig, path) ==
    LET v == Verify(round, sig, path)
    IN  IF beacons[round] # 0 THEN beacons[round]
        ELSE IF ~v.verified \/ v.randomness = 0 THEN None ELSE v.randomness

isStored(round) == round # 0 /\ beacons[round] # 0

\* The transaction is executed: a reverted one leaves nothing behind.
Execute(round, sig, path) ==
    beacons' = IF Submission(round, sig, path) = None THEN beacons
               ELSE [beacons EXCEPT ![round] = Submission(round, sig, path)]

-----------------------------------------------------------------------------
Init ==
    /\ clock = 0 /\ timestamp = 0
    /\ minimumLead = 0 /\ lead = 0
    /\ beacons = [r \in Rounds |-> 0]
    /\ last = None
    /\ imports = [p \in Relayers |-> Idle]

\* Time passes; blocks have timestamps that do not decrease (external).
Tick ==
    /\ clock < MaxTime
    /\ clock' = clock + 1
    /\ UNCHANGED <<timestamp, minimumLead, lead, beacons, last, imports>>

InSync(t) == clock <= t + Skew /\ t <= clock + Skew

NewBlock ==
    /\ \E t \in timestamp..(clock + Skew) : InSync(t) /\ timestamp' = t
    /\ UNCHANGED <<clock, minimumLead, lead, beacons, last, imports>>

\* The constructor, of a registry whose deployer sized the minimum to the
\* uncertainty of the chain's timestamps.  (A verifier or a registry without the
\* expected code is refused by the constructors.)
DeployRegistry ==
    /\ minimumLead = 0
    /\ \E m \in Rounds : Skew <= (m - 1) * PERIOD_SECONDS /\ minimumLead' = m
    /\ UNCHANGED <<clock, timestamp, lead, beacons, last, imports>>

\* The consumer's constructor.
DeployConsumer_AnyLead ==
    /\ minimumLead # 0 /\ lead = 0
    /\ \E l \in Rounds : lead' = l
    /\ UNCHANGED <<clock, timestamp, minimumLead, beacons, last, imports>>
DeployConsumer ==
    /\ minimumLead # 0 /\ lead = 0
    /\ \E l \in Rounds : l >= minimumLead /\ lead' = l
    /\ UNCHANGED <<clock, timestamp, minimumLead, beacons, last, imports>>

Commit(round) ==
    /\ last' = [round |-> round, clock |-> clock, stored |-> isStored(round)]
    /\ UNCHANGED <<clock, timestamp, minimumLead, lead, beacons, imports>>

\* _requestQuicknetRandomness in a block that is being built; it reverts when the
\* round does not fit in 64 bits.
Request ==
    LET latest == roundAt(timestamp)
    IN  /\ lead # 0 /\ InSync(timestamp)
        /\ latest <= MaxUint64
        /\ latest <= MaxUint64 - lead
        /\ Commit(latest + lead)

\* Anyone calls a submission method, also the consumer's _submitQuicknetBeacon.
Submit ==
    /\ minimumLead # 0
    /\ \E r \in Rounds, sig \in Known \cup {0}, path \in Path : Execute(r, sig, path)
    /\ UNCHANGED <<clock, timestamp, minimumLead, lead, last, imports>>

-----------------------------------------------------------------------------
(* A relayer imports a round: fetch, simulate, submit.                     *)

At(p, stage) == imports[p].stage = stage
Goto(p, i) ==
    /\ imports' = [imports EXCEPT ![p] = i]
    /\ UNCHANGED <<clock, timestamp, minimumLead, lead, last>>

\* Some endpoint answers for the round, with drand's signature or with something
\* that looks like one.  (It was not stored when the relayer looked.)
Fetch(p) ==
    /\ At(p, "idle") /\ minimumLead # 0
    /\ \E r \in Rounds, sig \in Known \cup {0} :
         Goto(p, [imports[p] EXCEPT !.stage = "fetched", !.round = r, !.sig = sig])
    /\ UNCHANGED beacons

\* simulateBeaconSubmission: with a witness, and without one when no witness can
\* be made or the registry finds it invalid.  Otherwise the import fails.
Simulate(p) ==
    LET i    == imports[p]
        With(path) == Submission(i.round, i.sig, path)
    IN  /\ At(p, "fetched")
        /\ \E path \in {"witness", "compressed"} :
             /\ path = "compressed" => (i.sig = 0 \/ With("witness") = None)
             /\ path = "witness" => With("witness") # None
             /\ Goto(p, IF With(path) = None THEN Idle
                        ELSE [i EXCEPT !.stage = "submitted", !.path = path,
                                       !.simulated = With(path)])
        /\ UNCHANGED beacons

\* The transaction is mined and the stored value read back at its block.
Mined(p) ==
    LET i == imports[p]
        value == Submission(i.round, i.sig, i.path)
    IN  /\ At(p, "submitted")
        /\ Execute(i.round, i.sig, i.path)
        /\ Goto(p, IF value = i.simulated THEN Idle ELSE [i EXCEPT !.stage = "failed"])

\* A request fails, the verifier is out of gas or its precompiles unavailable, or
\* the relayer stops waiting.
GiveUp(p) ==
    /\ imports[p].stage \in {"fetched", "submitted"}
    /\ Goto(p, Idle)
    /\ UNCHANGED beacons

Next ==
    \/ Tick \/ NewBlock \/ DeployRegistry \/ DeployConsumer \/ Request \/ Submit
    \/ \E p \in Relayers : Fetch(p) \/ Simulate(p) \/ Mined(p) \/ GiveUp(p)

Spec == Init /\ [][Next]_vars

-----------------------------------------------------------------------------
(* Properties.                                                             *)

\* Whatever is submitted, by whom and by which method, the registry holds for a
\* round drand's randomness of that very round, and not before its scheduled
\* time (submitBeacon, _storeVerifiedBeacon).
OnlyAuthenticBeacons ==
    \A r \in Rounds : beacons[r] # 0 =>
        /\ beacons[r] = RandomnessOf(r)
        /\ roundScheduledTime(r) <= clock

\* A consumer never commits to a round whose randomness could be known when the
\* request was mined, however far the block's timestamp was off, nor to one that
\* is stored (minimumLeadRounds, _requestQuicknetRandomness).
NoCommitmentToKnownRound ==
    last # None =>
        /\ roundScheduledTime(last.round) > last.clock
        /\ ~last.stored

\* A submission that simulated never fails, whoever stored the round between the
\* simulation and the transaction: submitting is idempotent (import-round.ts
\* treats a reverted receipt and a differing stored value as errors).
SimulatedImportSucceeds == \A p \in Relayers : ~At(p, "failed")
=============================================================================
