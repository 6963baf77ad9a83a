-------------------------- MODULE RoundImportProofs --------------------------
(***************************************************************************)
(* Proofs about BeaconRegistry and RoundImport.                            *)
(*                                                                         *)
(* For every schedule, width of a round number, timestamp uncertainty and  *)
(* set of relayers: the registry holds authentic beacons only, a consumer  *)
(* commits to unknown rounds only, and a simulated import succeeds.        *)
(*                                                                         *)
(* For any number of relayers, rounds and transactions: the steps of       *)
(* RoundImport implement BeaconRegistry, and an import reports what        *)
(* happened.  What is proved about the registry is used, not proved again: *)
(* its invariant IInv holds of these steps because each of them is one of  *)
(* BeaconRegistry or leaves it alone.                                      *)
(***************************************************************************)
EXTENDS RoundImport, SequenceTheorems, TLAPS

-----------------------------------------------------------------------------
(* The schedule.                                                           *)

\* A quotient is the largest number of periods that fit in a.
LEMMA Quotient ==
    ASSUME NEW a \in Nat, NEW p \in Nat \ {0}
    PROVE  /\ a \div p \in Nat
           /\ (a \div p) * p <= a
           /\ a < (a \div p + 1) * p
  OBVIOUS

\* A product grows with its factor.
LEMMA Monotone ==
    ASSUME NEW a \in Int, NEW b \in Int, a <= b, NEW p \in Nat
    PROVE  a * p <= b * p
  OBVIOUS

\* The round at a time is a natural number.
LEMMA RoundAtType ==
    ASSUME NEW t \in Nat
    PROVE  roundAt(t) \in Nat
  <1>1. CASE t < GENESIS_TIMESTAMP
    BY <1>1 DEF roundAt
  <1>2. CASE ~(t < GENESIS_TIMESTAMP)
    <2>1. t - GENESIS_TIMESTAMP \in Nat
      BY <1>2, RegistryAssumption
    <2>2. (t - GENESIS_TIMESTAMP) \div PERIOD_SECONDS \in Nat
      BY <2>1, Quotient, RegistryAssumption
    <2> QED
      BY <1>2, <2>2 DEF roundAt
  <1> QED
    BY <1>1, <1>2

\* The round `l' ahead of the latest one at time t (roundAt, as
\* _requestQuicknetRandomness uses it) is due more than l - 1 periods after t,
\* also when t is before genesis.
LEMMA LeadTime ==
    ASSUME NEW t \in Nat, NEW l \in Nat \ {0}
    PROVE  roundScheduledTime(roundAt(t) + l) > t + (l - 1) * PERIOD_SECONDS
  <1> DEFINE G == GENESIS_TIMESTAMP
             P == PERIOD_SECONDS
             q == (t - G) \div P
  <1>0. G \in Nat /\ P \in Nat \ {0}
    BY RegistryAssumption
  <1>1. CASE t < G
    <2>1. roundScheduledTime(roundAt(t) + l) = G + (l - 1) * P
      BY <1>1, <1>0 DEF roundAt, roundScheduledTime
    <2>2. (l - 1) * P \in Int
      BY <1>0
    <2> QED
      BY <1>0, <1>1, <2>1, <2>2
  <1>2. CASE ~(t < G)
    <2>1. t - G \in Nat
      BY <1>0, <1>2
    <2>2. q \in Nat /\ t - G < (q + 1) * P
      BY <2>1, <1>0, Quotient
    <2>3. roundScheduledTime(roundAt(t) + l) = G + (q + l) * P
      BY <1>0, <1>2, <2>2 DEF roundAt, roundScheduledTime
    <2> HIDE DEF q
    <2>4. (q + l) * P = (q + 1) * P + (l - 1) * P
      BY <1>0, <2>2
    <2>5. (q + 1) * P \in Int /\ (l - 1) * P \in Int
      BY <1>0, <2>2
    <2> QED
      BY <1>0, <2>2, <2>3, <2>4, <2>5
  <1> QED
    BY <1>1, <1>2

-----------------------------------------------------------------------------
(* The inductive invariant.                                                *)

\* The leads were accepted by the constructors.
LeadsAreSafe ==
    /\ minimumLead # 0 => Skew <= (minimumLead - 1) * PERIOD_SECONDS
    /\ lead # 0 => minimumLead # 0 /\ lead >= minimumLead

\* A submitted import simulated to the randomness of its round, and its
\* transaction still verifies or needs no verification any more.
SubmittedIsGood(p) ==
    At(p, "submitted") =>
        /\ imports[p].simulated = RandomnessOf(imports[p].round)
        /\ imports[p].simulated # 0
        /\ imports[p].path # "bad-witness"
        /\ imports[p].sig = imports[p].round \/ isStored(imports[p].round)

\* A signature of drand that a relayer fetched was published.
FetchedIsKnown(p) ==
    (imports[p].stage \in {"fetched", "submitted"} /\ imports[p].sig # 0) =>
        roundScheduledTime(imports[p].sig) <= clock

IInv ==
    /\ TypeOK
    /\ LeadsAreSafe
    /\ OnlyAuthenticBeacons
    /\ NoCommitmentToKnownRound
    /\ \A p \in Relayers : ~At(p, "failed") /\ SubmittedIsGood(p) /\ FetchedIsKnown(p)

\* Hashing a signature gives a word, and the same word for the same signature.
LEMMA RandomnessType ==
    ASSUME NEW r \in Rounds
    PROVE  RandomnessOf(r) \in Signatures
  BY RegistryAssumption DEF RandomnessOf, Rounds, Signatures

\* The scheduled times are natural numbers.
LEMMA ScheduleType ==
    ASSUME NEW r \in Rounds
    PROVE  roundScheduledTime(r) \in Nat
  <1>1. r - 1 \in Nat /\ PERIOD_SECONDS \in Nat /\ GENESIS_TIMESTAMP \in Nat
    BY RegistryAssumption DEF Rounds
  <1>2. (r - 1) * PERIOD_SECONDS \in Nat
    BY <1>1
  <1> QED
    BY <1>1, <1>2 DEF roundScheduledTime

\* A submission reverts, or it returns the randomness of its round, which is not
\* zero; and it needs the round's own signature unless the round is stored.
LEMMA SubmissionValue ==
    ASSUME TypeOK, OnlyAuthenticBeacons,
           NEW r \in Rounds, NEW sig \in Signatures, NEW path \in Path,
           Submission(r, sig, path) # None
    PROVE  /\ Submission(r, sig, path) = RandomnessOf(r)
           /\ Submission(r, sig, path) \in Signatures \ {0}
           /\ ~isStored(r) => sig = r /\ path # "bad-witness"
  <1>0. r # 0 /\ beacons[r] \in Signatures
    BY RegistryAssumption DEF TypeOK, Rounds
  <1>1. CASE beacons[r] # 0
    BY <1>0, <1>1 DEF Submission, OnlyAuthenticBeacons, isStored
  <1>2. CASE beacons[r] = 0
    <2>1. Verify(r, sig, path).verified /\ Verify(r, sig, path).randomness # 0
      BY <1>2 DEF Submission
    <2>2. sig = r /\ path # "bad-witness"
      BY <2>1 DEF Verify
    <2>3. Submission(r, sig, path) = RandomnessOf(r) /\ RandomnessOf(r) # 0
      BY <1>2, <2>1, <2>2 DEF Submission, Verify
    <2> QED
      BY <2>2, <2>3, RandomnessType
  <1> QED
    BY <1>1, <1>2

\* Executing a submission of a published round keeps the registry authentic and
\* every stored beacon in place.
LEMMA ExecuteKeepsBeacons ==
    ASSUME TypeOK, OnlyAuthenticBeacons, clock' = clock,
           NEW r \in Rounds, NEW sig \in Signatures, NEW path \in Path,
           sig # 0 => roundScheduledTime(sig) <= clock,
           Execute(r, sig, path)
    PROVE  /\ beacons' \in [Rounds -> Signatures]
           /\ OnlyAuthenticBeacons'
           /\ \A q \in Rounds : isStored(q) => isStored(q)'
  <1>1. CASE Submission(r, sig, path) = None
    BY <1>1 DEF Execute, TypeOK, OnlyAuthenticBeacons, isStored, RandomnessOf,
                roundScheduledTime
  <1>2. CASE Submission(r, sig, path) # None
    <2>1. /\ Submission(r, sig, path) = RandomnessOf(r)
          /\ Submission(r, sig, path) \in Signatures \ {0}
          /\ ~isStored(r) => sig = r
      BY <1>2, SubmissionValue
    <2>2. beacons' = [beacons EXCEPT ![r] = RandomnessOf(r)]
      BY <1>2, <2>1 DEF Execute
    <2>3. beacons' \in [Rounds -> Signatures]
      BY <2>1, <2>2 DEF TypeOK
    <2>4. roundScheduledTime(r) <= clock
      <3>1. CASE isStored(r)
        BY <3>1 DEF isStored, OnlyAuthenticBeacons
      <3>2. CASE ~isStored(r)
        BY <3>2, <2>1, RegistryAssumption DEF Rounds
      <3> QED
        BY <3>1, <3>2
    <2>5. \A q \in Rounds : beacons'[q] = IF q = r THEN RandomnessOf(r) ELSE beacons[q]
      BY <2>2 DEF TypeOK
    <2>6. OnlyAuthenticBeacons'
      BY <2>4, <2>5 DEF OnlyAuthenticBeacons, RandomnessOf, roundScheduledTime
    <2>7. \A q \in Rounds : isStored(q) => isStored(q)'
      BY <2>1, <2>5 DEF isStored
    <2> QED
      BY <2>3, <2>6, <2>7
  <1> QED
    BY <1>1, <1>2

-----------------------------------------------------------------------------
(* The invariant holds initially and every action preserves it.            *)

LEMMA InitEstablishes == Init => IInv
  <1> SUFFICES ASSUME Init PROVE IInv
    OBVIOUS
  <1> USE RegistryAssumption DEF Init
  <1>1. TypeOK
    <2>1. Idle \in Import
      BY DEF Idle, Import, Rounds, Signatures, Path
    <2> QED
      BY <2>1 DEF TypeOK, Rounds, Signatures
  <1>2. LeadsAreSafe /\ OnlyAuthenticBeacons /\ NoCommitmentToKnownRound
    BY DEF LeadsAreSafe, OnlyAuthenticBeacons, NoCommitmentToKnownRound, Rounds
  <1>3. \A p \in Relayers : imports[p].stage = "idle"
    BY DEF Idle
  <1> QED
    BY <1>1, <1>2, <1>3 DEF IInv, At, SubmittedIsGood, FetchedIsKnown

\* An action that leaves the registry and the relayers alone, and does not turn
\* back the clock, keeps what is known of them.
LEMMA BystanderPreserves ==
    ASSUME IInv, clock' \in Nat, clock' >= clock, beacons' = beacons, imports' = imports
    PROVE  /\ OnlyAuthenticBeacons'
           /\ \A p \in Relayers : (~At(p, "failed") /\ SubmittedIsGood(p)
                                     /\ FetchedIsKnown(p))'
  <1> USE DEF IInv
  <1>0. \A r \in Rounds : roundScheduledTime(r) \in Nat
    BY ScheduleType
  <1>1. clock \in Nat /\ \A p \in Relayers : imports[p].round \in Rounds
    BY DEF TypeOK, Import
  <1>2. \A r \in Rounds : roundScheduledTime(r)' = roundScheduledTime(r)
    BY DEF roundScheduledTime
  <1>3. \A r \in Rounds : roundScheduledTime(r) <= clock => roundScheduledTime(r) <= clock'
    BY <1>0, <1>1
  <1>4. OnlyAuthenticBeacons'
    BY <1>2, <1>3 DEF OnlyAuthenticBeacons, RandomnessOf
  <1>5. ASSUME NEW p \in Relayers
        PROVE  (~At(p, "failed") /\ SubmittedIsGood(p) /\ FetchedIsKnown(p))'
    <2>1. (~At(p, "failed") /\ SubmittedIsGood(p))'
      BY DEF At, SubmittedIsGood, RandomnessOf, isStored
    <2>2. FetchedIsKnown(p)'
      <3>1. imports[p].sig # 0 => imports[p].sig \in Rounds
        BY RegistryAssumption DEF TypeOK, Import, Signatures, Rounds
      <3> QED
        BY <1>1, <1>2, <1>3, <3>1 DEF FetchedIsKnown
    <2> QED
      BY <2>1, <2>2
  <1> QED
    BY <1>4, <1>5

\* A new commitment is to an unknown round.  The lead covers what the timestamp
\* of the block may be behind real time, and an unknown round is not stored.
LEMMA RequestPreserves ==
    ASSUME IInv, Request
    PROVE  last' \in Commitment /\ NoCommitmentToKnownRound'
  <1> DEFINE r == roundAt(timestamp) + lead
  <1> USE DEF IInv
  <1>1. /\ timestamp \in Nat /\ clock \in Nat
        /\ lead \in Nat \ {0} /\ minimumLead \in Nat \ {0}
        /\ Skew \in Nat /\ PERIOD_SECONDS \in Nat /\ MaxUint64 \in Nat
        /\ clock <= timestamp + Skew
    BY RegistryAssumption DEF Request, InSync, TypeOK, LeadsAreSafe
  <1>2. roundAt(timestamp) \in Nat
    BY <1>1, RoundAtType
  <1>3. r \in Rounds
    BY <1>1, <1>2 DEF Request, Rounds
  <1>4. Skew <= (lead - 1) * PERIOD_SECONDS
    <2>1. (minimumLead - 1) * PERIOD_SECONDS <= (lead - 1) * PERIOD_SECONDS
      BY <1>1, Monotone DEF LeadsAreSafe
    <2>2. (minimumLead - 1) * PERIOD_SECONDS \in Int /\ (lead - 1) * PERIOD_SECONDS \in Int
      BY <1>1
    <2> QED
      BY <1>1, <2>1, <2>2 DEF LeadsAreSafe
  <1>5. roundScheduledTime(r) > clock
    <2>1. roundScheduledTime(r) > timestamp + (lead - 1) * PERIOD_SECONDS
      BY <1>1, LeadTime
    <2>2. roundScheduledTime(r) \in Nat /\ (lead - 1) * PERIOD_SECONDS \in Int
      BY <1>1, <1>3, ScheduleType
    <2> HIDE DEF r
    <2> QED
      BY <1>1, <1>4, <2>1, <2>2
  <1>6. ~isStored(r)
    <2>1. roundScheduledTime(r) \in Nat
      BY <1>3, ScheduleType
    <2> HIDE DEF r
    <2> QED
      BY <1>1, <1>3, <1>5, <2>1 DEF isStored, OnlyAuthenticBeacons
  <1>7. last' = [round |-> r, clock |-> clock, stored |-> isStored(r)]
    BY DEF Request, Commit
  <1> HIDE DEF r
  <1>8. isStored(r) \in BOOLEAN
    BY DEF isStored
  <1>9. last' \in Commitment
    BY <1>1, <1>3, <1>7, <1>8 DEF Commitment
  <1>10. last'.round = r /\ last'.clock = clock /\ last'.stored = isStored(r)
    BY <1>7
  <1>11. ~last'.stored
    BY <1>6, <1>10
  <1>12. roundScheduledTime(last'.round) > last'.clock
    BY <1>5, <1>10
  <1> QED
    BY <1>9, <1>11, <1>12 DEF NoCommitmentToKnownRound, roundScheduledTime

\* The invariant survives a step of relayer p to import i, if i is good and the
\* registry only gained authentic beacons.
LEMMA GotoPreserves ==
    ASSUME IInv, NEW p \in Relayers, NEW i \in Import, Goto(p, i),
           beacons' \in [Rounds -> Signatures], OnlyAuthenticBeacons',
           \A q \in Rounds : isStored(q) => isStored(q)',
           i.stage # "failed",
           (i.stage \in {"fetched", "submitted"} /\ i.sig # 0) =>
               roundScheduledTime(i.sig) <= clock,
           i.stage = "submitted" =>
               /\ i.simulated = RandomnessOf(i.round)
               /\ i.simulated # 0
               /\ i.path # "bad-witness"
               /\ i.sig = i.round \/ isStored(i.round)
    PROVE  IInv'
  <1> USE DEF IInv
  <1>1. /\ imports' = [imports EXCEPT ![p] = i]
        /\ UNCHANGED <<clock, timestamp, minimumLead, lead, last>>
    BY DEF Goto
  <1>2. imports' \in [Relayers -> Import] /\ imports \in [Relayers -> Import]
    BY <1>1 DEF TypeOK
  <1>3. TypeOK'
    BY <1>1, <1>2 DEF TypeOK
  <1>4. LeadsAreSafe' /\ NoCommitmentToKnownRound'
    BY <1>1 DEF LeadsAreSafe, NoCommitmentToKnownRound, roundScheduledTime
  <1>5. ASSUME NEW q \in Relayers
        PROVE  (~At(q, "failed") /\ SubmittedIsGood(q) /\ FetchedIsKnown(q))'
    <2>1. CASE q = p
      <3>1. imports'[q] = i
        BY <1>1, <1>2, <2>1
      <3>2. i.round \in Rounds
        BY DEF Import
      <3> QED
        BY <1>1, <3>1, <3>2
           DEF At, SubmittedIsGood, FetchedIsKnown, RandomnessOf, roundScheduledTime
    <2>2. CASE q # p
      <3>1. imports'[q] = imports[q]
        BY <1>1, <1>2, <2>2
      <3>2. imports[q].round \in Rounds
        BY <1>2 DEF Import
      <3> QED
        BY <1>1, <3>1, <3>2
           DEF At, SubmittedIsGood, FetchedIsKnown, RandomnessOf, roundScheduledTime
    <2> QED
      BY <2>1, <2>2
  <1> QED
    BY <1>3, <1>4, <1>5

LEMMA NextPreserves == IInv /\ [Next]_vars => IInv'
  <1> SUFFICES ASSUME IInv, [Next]_vars PROVE IInv'
    OBVIOUS
  <1>0. clock \in Nat /\ Idle \in Import
    BY RegistryAssumption DEF IInv, TypeOK, Idle, Import, Rounds, Signatures, Path
  <1>1. CASE Tick
    <2>1. clock' \in Nat /\ clock' >= clock /\ beacons' = beacons /\ imports' = imports
      BY <1>0, <1>1 DEF Tick
    <2>2. TypeOK' /\ LeadsAreSafe' /\ NoCommitmentToKnownRound'
      BY <1>1, <2>1 DEF Tick, IInv, TypeOK, LeadsAreSafe, NoCommitmentToKnownRound,
                        roundScheduledTime
    <2> QED
      BY <2>1, <2>2, BystanderPreserves DEF IInv
  <1>2. CASE NewBlock
    <2>1. clock' \in Nat /\ clock' >= clock /\ beacons' = beacons /\ imports' = imports
      BY <1>0, <1>2 DEF NewBlock
    <2>2. timestamp' \in Nat
      BY <1>0, <1>2, RegistryAssumption DEF NewBlock, IInv, TypeOK
    <2>3. TypeOK' /\ LeadsAreSafe' /\ NoCommitmentToKnownRound'
      BY <1>2, <2>2 DEF NewBlock, IInv, TypeOK, LeadsAreSafe,
                        NoCommitmentToKnownRound, roundScheduledTime
    <2> QED
      BY <2>1, <2>3, BystanderPreserves DEF IInv
  <1>3. CASE DeployRegistry
    <2>1. clock' \in Nat /\ clock' >= clock /\ beacons' = beacons /\ imports' = imports
      BY <1>0, <1>3 DEF DeployRegistry
    <2>2. minimumLead' \in Rounds /\ lead = 0
      BY <1>3 DEF DeployRegistry, IInv, LeadsAreSafe
    <2>3. TypeOK' /\ NoCommitmentToKnownRound'
      BY <1>3, <2>2 DEF DeployRegistry, IInv, TypeOK, Rounds,
                        NoCommitmentToKnownRound, roundScheduledTime
    <2>4. LeadsAreSafe'
      BY <1>3, <2>2 DEF DeployRegistry, LeadsAreSafe
    <2> QED
      BY <2>1, <2>3, <2>4, BystanderPreserves DEF IInv
  <1>4. CASE DeployConsumer
    <2>1. clock' \in Nat /\ clock' >= clock /\ beacons' = beacons /\ imports' = imports
      BY <1>0, <1>4 DEF DeployConsumer
    <2>2. TypeOK' /\ NoCommitmentToKnownRound'
      BY <1>4 DEF DeployConsumer, IInv, TypeOK, Rounds, NoCommitmentToKnownRound,
                  roundScheduledTime
    <2>3. LeadsAreSafe'
      BY <1>4 DEF DeployConsumer, IInv, LeadsAreSafe
    <2> QED
      BY <2>1, <2>2, <2>3, BystanderPreserves DEF IInv
  <1>5. CASE Request
    <2>1. clock' \in Nat /\ clock' >= clock /\ beacons' = beacons /\ imports' = imports
      BY <1>0, <1>5 DEF Request, Commit
    <2>2. last' \in Commitment /\ NoCommitmentToKnownRound'
      BY <1>5, RequestPreserves
    <2>3. TypeOK' /\ LeadsAreSafe'
      BY <1>5, <2>2 DEF Request, Commit, IInv, TypeOK, LeadsAreSafe
    <2> QED
      BY <2>1, <2>2, <2>3, BystanderPreserves DEF IInv
  <1>6. CASE Submit
    <2>1. PICK r \in Rounds, sig \in Known \cup {0}, path \in Path :
              Execute(r, sig, path)
      BY <1>6 DEF Submit
    <2>2. sig \in Signatures /\ (sig # 0 => roundScheduledTime(sig) <= clock)
      BY RegistryAssumption DEF Known, Rounds, Signatures
    <2>3. UNCHANGED <<clock, timestamp, minimumLead, lead, last, imports>>
      BY <1>6 DEF Submit
    <2>4. /\ beacons' \in [Rounds -> Signatures]
          /\ OnlyAuthenticBeacons'
          /\ \A q \in Rounds : isStored(q) => isStored(q)'
      BY <2>1, <2>2, <2>3, ExecuteKeepsBeacons DEF IInv
    <2>5. TypeOK' /\ LeadsAreSafe' /\ NoCommitmentToKnownRound'
      BY <2>3, <2>4 DEF IInv, TypeOK, LeadsAreSafe, NoCommitmentToKnownRound,
                        roundScheduledTime
    <2>6. ASSUME NEW p \in Relayers
          PROVE  (~At(p, "failed") /\ SubmittedIsGood(p) /\ FetchedIsKnown(p))'
      <3>1. imports[p].round \in Rounds
        BY DEF IInv, TypeOK, Import
      <3> QED
        BY <2>3, <2>4, <3>1 DEF IInv, At, SubmittedIsGood, FetchedIsKnown,
                                RandomnessOf, roundScheduledTime
    <2> QED
      BY <2>4, <2>5, <2>6 DEF IInv
  <1>7. ASSUME NEW p \in Relayers, Fetch(p)
        PROVE  IInv'
    <2>1. PICK r \in Rounds, sig \in Known \cup {0} :
              Goto(p, [imports[p] EXCEPT !.stage = "fetched", !.round = r, !.sig = sig])
      BY <1>7 DEF Fetch
    <2> DEFINE i == [imports[p] EXCEPT !.stage = "fetched", !.round = r, !.sig = sig]
    <2>2. /\ r \in Rounds /\ sig \in Signatures
          /\ sig # 0 => roundScheduledTime(sig) <= clock
      BY RegistryAssumption DEF Known, Rounds, Signatures
    <2>3. i \in Import /\ i.stage = "fetched" /\ i.sig = sig
      BY <2>2 DEF IInv, TypeOK, Import
    <2>4. beacons' = beacons /\ clock' = clock
      BY <1>7, <2>1 DEF Fetch, Goto
    <2>5. /\ beacons' \in [Rounds -> Signatures]
          /\ OnlyAuthenticBeacons'
          /\ \A q \in Rounds : isStored(q) => isStored(q)'
      BY <2>4 DEF IInv, TypeOK, OnlyAuthenticBeacons, isStored, RandomnessOf,
                  roundScheduledTime
    <2>6. Goto(p, i)
      BY <2>1
    <2> HIDE DEF i
    <2> QED
      BY <2>2, <2>3, <2>5, <2>6, GotoPreserves
  <1>8. ASSUME NEW p \in Relayers, Simulate(p)
        PROVE  IInv'
    <2> DEFINE s == imports[p]
               V(path) == Submission(s.round, s.sig, path)
               i(path) == IF V(path) = None THEN Idle
                          ELSE [s EXCEPT !.stage = "submitted", !.path = path,
                                         !.simulated = V(path)]
    <2>1. PICK path \in {"witness", "compressed"} : Goto(p, i(path))
      BY <1>8 DEF Simulate
    <2>2. /\ s \in Import /\ s.round \in Rounds /\ s.sig \in Signatures
          /\ path \in Path /\ path # "bad-witness"
          /\ s.stage = "fetched"
          /\ s.sig # 0 => roundScheduledTime(s.sig) <= clock
      BY <1>8 DEF Simulate, At, IInv, TypeOK, Import, Path, FetchedIsKnown
    <2>3. V(path) # None => /\ V(path) = RandomnessOf(s.round)
                            /\ V(path) \in Signatures \ {0}
                            /\ s.sig = s.round \/ isStored(s.round)
      BY <2>2, SubmissionValue DEF IInv
    <2>4. /\ i(path) \in Import /\ i(path).stage # "failed"
          /\ i(path).stage # "idle" =>
                /\ V(path) # None
                /\ i(path).round = s.round /\ i(path).sig = s.sig
                /\ i(path).path = path /\ i(path).simulated = V(path)
      <3> HIDE DEF V
      <3>1. CASE V(path) = None
        BY <3>1, <1>0 DEF Idle
      <3>2. CASE V(path) # None
        BY <3>2, <2>2, <2>3 DEF Import
      <3> QED
        BY <3>1, <3>2
    <2>5. beacons' = beacons /\ clock' = clock
      BY <1>8, <2>1 DEF Simulate, Goto
    <2>6. /\ beacons' \in [Rounds -> Signatures]
          /\ OnlyAuthenticBeacons'
          /\ \A q \in Rounds : isStored(q) => isStored(q)'
      BY <2>5 DEF IInv, TypeOK, OnlyAuthenticBeacons, isStored, RandomnessOf,
                  roundScheduledTime
    <2> HIDE DEF i, V
    <2> QED
      BY <2>1, <2>2, <2>3, <2>4, <2>6, GotoPreserves
  <1>9. ASSUME NEW p \in Relayers, Mined(p)
        PROVE  IInv'
    <2> DEFINE s == imports[p]
    <2>1. /\ s \in Import /\ s.round \in Rounds /\ s.sig \in Signatures
          /\ s.path \in Path /\ At(p, "submitted")
          /\ Execute(s.round, s.sig, s.path)
      BY <1>9 DEF Mined, IInv, TypeOK, Import
    <2>2. SubmittedIsGood(p) /\ FetchedIsKnown(p)
      BY DEF IInv
    <2>3. /\ s.simulated = RandomnessOf(s.round) /\ s.simulated # 0
          /\ s.path # "bad-witness"
          /\ s.sig = s.round \/ isStored(s.round)
          /\ s.sig # 0 => roundScheduledTime(s.sig) <= clock
      BY <2>1, <2>2 DEF SubmittedIsGood, FetchedIsKnown, At
    <2>4. Submission(s.round, s.sig, s.path) = s.simulated
      <3>1. CASE isStored(s.round)
        BY <2>1, <2>3, <3>1 DEF IInv, Submission, isStored, OnlyAuthenticBeacons
      <3>2. CASE ~isStored(s.round)
        <4>1. s.round # 0 /\ beacons[s.round] = 0 /\ s.sig = s.round
          BY <2>1, <2>3, <3>2, RegistryAssumption DEF isStored, Rounds
        <4>2. Verify(s.round, s.sig, s.path)
                = [verified |-> TRUE, randomness |-> RandomnessOf(s.round)]
          BY <4>1, <2>3 DEF Verify
        <4> QED
          BY <4>1, <4>2, <2>3 DEF Submission
      <3> QED
        BY <3>1, <3>2
    <2>5. Goto(p, Idle)
      BY <1>9, <2>4 DEF Mined
    <2>6. clock' = clock
      BY <2>5 DEF Goto
    <2>7. /\ beacons' \in [Rounds -> Signatures]
          /\ OnlyAuthenticBeacons'
          /\ \A q \in Rounds : isStored(q) => isStored(q)'
      <3>1. CASE isStored(s.round)
        <4>1. beacons' = beacons
          BY <2>1, <2>3, <2>4, <3>1
             DEF Execute, IInv, TypeOK, isStored, OnlyAuthenticBeacons
        <4> QED
          BY <4>1, <2>6 DEF IInv, TypeOK, OnlyAuthenticBeacons, isStored,
                            RandomnessOf, roundScheduledTime
      <3>2. CASE ~isStored(s.round)
        BY <2>1, <2>3, <2>6, <3>2, ExecuteKeepsBeacons DEF IInv
      <3> QED
        BY <3>1, <3>2
    <2>8. Idle.stage = "idle"
      BY DEF Idle
    <2> QED
      BY <1>0, <2>5, <2>7, <2>8, GotoPreserves
  <1>10. ASSUME NEW p \in Relayers, GiveUp(p)
         PROVE  IInv'
    <2>1. Goto(p, Idle) /\ beacons' = beacons /\ clock' = clock
      BY <1>10 DEF GiveUp, Goto
    <2>2. /\ beacons' \in [Rounds -> Signatures]
          /\ OnlyAuthenticBeacons'
          /\ \A q \in Rounds : isStored(q) => isStored(q)'
      BY <2>1 DEF IInv, TypeOK, OnlyAuthenticBeacons, isStored, RandomnessOf,
                  roundScheduledTime
    <2>3. Idle.stage = "idle"
      BY DEF Idle
    <2> QED
      BY <1>0, <2>1, <2>2, <2>3, GotoPreserves
  <1>11. CASE UNCHANGED vars
    <2>1. clock' \in Nat /\ clock' >= clock /\ beacons' = beacons /\ imports' = imports
      BY <1>0, <1>11 DEF vars
    <2>2. TypeOK' /\ LeadsAreSafe' /\ NoCommitmentToKnownRound'
      BY <1>11 DEF vars, IInv, TypeOK, LeadsAreSafe, NoCommitmentToKnownRound,
                   roundScheduledTime
    <2> QED
      BY <2>1, <2>2, BystanderPreserves DEF IInv
  <1> QED
    BY <1>1, <1>2, <1>3, <1>4, <1>5, <1>6, <1>7, <1>8, <1>9, <1>10, <1>11 DEF Next

-----------------------------------------------------------------------------
(* The theorems.                                                           *)

\* The invariant holds in every reachable state.
LEMMA Invariance == Spec => []IInv
  BY InitEstablishes, NextPreserves, PTL DEF Spec

\* Every value stays in its type: in particular a committed round fits in the
\* contract's integers (_requestQuicknetRandomness).
THEOREM TypeCorrect == Spec => []TypeOK
  <1>1. IInv => TypeOK
    BY DEF IInv
  <1> QED
    BY Invariance, <1>1, PTL

\* The registry holds drand's randomness of the very round, for every set of
\* submitters and whatever they submit (submitBeacon, submitBeaconWithWitness).
THEOREM Authenticity == Spec => []OnlyAuthenticBeacons
  <1>1. IInv => OnlyAuthenticBeacons
    BY DEF IInv
  <1> QED
    BY Invariance, <1>1, PTL

\* No consumer commits to a known round, for every schedule and every timestamp
\* uncertainty that minimumLeadRounds was sized to (_requestQuicknetRandomness).
THEOREM Unpredictability == Spec => []NoCommitmentToKnownRound
  <1>1. IInv => NoCommitmentToKnownRound
    BY DEF IInv
  <1> QED
    BY Invariance, <1>1, PTL

\* A submission that simulated succeeds, for every number of relayers
\* (importQuicknetRound).
THEOREM Idempotence == Spec => []SimulatedImportSucceeds
  <1>1. IInv => SimulatedImportSucceeds
    BY DEF IInv, SimulatedImportSucceeds
  <1> QED
    BY Invariance, <1>1, PTL

-----------------------------------------------------------------------------
(***************************************************************************)
(* The import of a round.                                                  *)
(***************************************************************************)


(***************************************************************************)
(* The inductive invariant.                                                *)
(***************************************************************************)

\* What is known of a transaction of relayer p.
Ledger(p) ==
    \A i \in 1..Len(txs[p]) :
        /\ minimumLead # 0
        /\ txs[p][i].sig # 0 => roundScheduledTime(txs[p][i].sig) <= clock
        /\ txs[p][i].resolved => txs[p][i].state \in {"mined", "reverted", "replaced"}
        /\ txs[p][i].state = "mined" => isStored(txs[p][i].round)

\* When the daemon prepares a transaction, the earlier ones of the round are over
\* and did not store it.
PaidOnce(p) ==
    \A i, k \in 1..Len(txs[p]) :
        (i < k /\ txs[p][i].round = txs[p][k].round /\ txs[p][k].kind = "daemon") =>
            txs[p][i].resolved /\ txs[p][i].state # "mined"

\* How far the import of BeaconRegistry is, in each phase.
StageIsKnown(p) ==
    /\ job[p].phase \in {"done", "read", "wait", "sleep", "fetch", "confirm"} =>
         imports[p].stage = "idle"
    /\ job[p].phase \in {"verify", "check"} =>
         imports[p].stage = IF job[p].held THEN "fetched" ELSE "idle"
    /\ job[p].phase = "simulate" => imports[p].stage = "fetched"
    /\ job[p].phase \in {"submit", "send"} => imports[p].stage = "submitted"
    /\ job[p].phase = "receipt" =>
         imports[p].stage = IF Newest(p).state = "sent" THEN "submitted" ELSE "idle"
    /\ imports[p].stage # "idle" => imports[p].round = job[p].round /\ minimumLead # 0

\* The transaction of an import is the newest one, and is its own.
OwnTransaction(p) ==
    /\ Len(txs[p]) = job[p].before + 1
    /\ Newest(p).round = job[p].round /\ Newest(p).kind = job[p].kind /\ ~Newest(p).resolved
    /\ job[p].phase = "send" => Newest(p).state \in {"recorded", "uncertain"}
    /\ job[p].phase = "receipt" => Newest(p).state \notin {"recorded", "uncertain"}
    /\ imports[p].stage = "submitted" =>
         Newest(p).sig = imports[p].sig /\ Newest(p).path = imports[p].path

\* What the report of an import leaves out.
Accounted(p) ==
    /\ job[p].told => Len(txs[p]) = job[p].before + 1
    /\ ~job[p].told /\ Len(txs[p]) > job[p].before =>
         Newest(p).kind = "daemon" /\ job[p].status \in {"error", "cancelled"}

\* Which transactions were recorded in each phase, and what was told of them.
CountIsKnown(p) ==
    /\ job[p].phase \in {"verify", "check", "read", "wait", "sleep", "fetch", "simulate",
                         "submit"} => Len(txs[p]) = job[p].before
    /\ job[p].phase \in {"send", "receipt", "confirm"} => OwnTransaction(p)
    /\ job[p].phase # "done" => job[p].status = "none"
    /\ job[p].phase = "done" /\ job[p].status # "none" => Accounted(p)

\* The daemon goes on only when nothing for the round is under way; once it found
\* the round not stored, no earlier transaction has stored it.
NothingUnderWay(p) ==
    job[p].kind = "daemon" =>
        /\ job[p].phase \in {"verify", "check", "wait", "sleep", "fetch", "simulate", "submit"} =>
             \A i \in 1..Len(txs[p]) : txs[p][i].round = job[p].round =>
                 txs[p][i].resolved \/ txs[p][i].state = "uncertain"
        /\ job[p].phase \in {"wait", "sleep", "fetch", "simulate", "submit"} =>
             \A i \in 1..Len(txs[p]) :
                 txs[p][i].round = job[p].round => txs[p][i].state # "mined"

\* What is read or reported is stored.
ReadIsStored(p) ==
    /\ job[p].phase = "read" => isStored(job[p].round)
    /\ job[p].status \in {"imported", "already-stored"} =>
         /\ beacons[job[p].round] = job[p].randomness
         /\ job[p].randomness = RandomnessOf(job[p].round) /\ job[p].randomness # 0

JobInv(p) == StageIsKnown(p) /\ CountIsKnown(p) /\ NothingUnderWay(p) /\ ReadIsStored(p)

Typed ==
    /\ clock <= MaxTime
    /\ job \in [Relayers -> Job]
    /\ txs \in [Relayers -> Seq(Tx)]
    /\ \A p \in Relayers : Len(txs[p]) <= MaxTx

ImpInv ==
    /\ IInv
    /\ Typed
    /\ \A p \in Relayers : Ledger(p) /\ PaidOnce(p) /\ JobInv(p)

-----------------------------------------------------------------------------
(* Types.                                                                  *)

LEMMA NoJobType == NoJob \in Job /\ 1 \in Rounds /\ 0 \in Signatures /\ 0 \in 0..MaxTx
<1>1. /\ MaxUint64 \in Nat \ {0} /\ MaxAttempts \in Nat \ {0} /\ MaxTime \in Nat
      /\ MaxTimer \in Nat /\ MaxTx \in Nat
  BY RegistryAssumption, ImportAssumption
<1>2. 1 \in Rounds /\ 0 \in Signatures /\ 0 \in 0..MaxTx /\ 1 \in 1..MaxAttempts
      /\ 0 \in 0..(MaxTime + MaxTimer)
  BY <1>1 DEF Rounds, Signatures
<1> QED
  BY <1>2 DEF NoJob, Job, Phase, Kind, Status

\* What the types say of one relayer.
LEMMA Fields ==
    ASSUME ImpInv, NEW p \in Relayers
    PROVE  /\ IInv /\ Typed /\ TypeOK /\ OnlyAuthenticBeacons
           /\ Ledger(p) /\ PaidOnce(p) /\ JobInv(p)
           /\ job[p] \in Job /\ txs[p] \in Seq(Tx) /\ Len(txs[p]) \in Nat /\ Len(txs[p]) <= MaxTx
           /\ \A i \in 1..Len(txs[p]) : txs[p][i] \in Tx
           /\ imports[p] \in Import
           /\ job[p].round \in Rounds /\ job[p].before \in Nat /\ job[p].told \in BOOLEAN
           /\ imports[p].round \in Rounds /\ imports[p].sig \in Signatures
           /\ imports[p].path \in Path /\ imports[p].simulated \in Signatures
<1>1. IInv /\ Typed /\ TypeOK /\ OnlyAuthenticBeacons
      /\ Ledger(p) /\ PaidOnce(p) /\ JobInv(p)
  BY DEF ImpInv, IInv
<1>2. job[p] \in Job /\ txs[p] \in Seq(Tx) /\ Len(txs[p]) <= MaxTx /\ imports[p] \in Import
  BY <1>1 DEF Typed, TypeOK
<1>3. Len(txs[p]) \in Nat /\ \A i \in 1..Len(txs[p]) : txs[p][i] \in Tx
  BY <1>2, LenProperties, ElementOfSeq
<1>4. job[p].round \in Rounds /\ job[p].told \in BOOLEAN /\ job[p].before \in 0..MaxTx
  BY <1>2 DEF Job
<1>5. job[p].before \in Nat
  BY <1>4, ImportAssumption
<1>6. /\ imports[p].round \in Rounds /\ imports[p].sig \in Signatures
      /\ imports[p].path \in Path /\ imports[p].simulated \in Signatures
  BY <1>2 DEF Import
<1> QED
  BY <1>1, <1>2, <1>3, <1>4, <1>5, <1>6

-----------------------------------------------------------------------------
(* What a step leaves alone.                                               *)

\* What the world may do to a relayer that takes no step: rounds are stored, time
\* passes, the registry is deployed.
Onwards ==
    /\ clock' \in Nat /\ clock' >= clock
    /\ minimumLead # 0 => minimumLead' # 0
    /\ \A r \in Rounds : isStored(r) => isStored(r)'

LEMMA ReadStays ==
    ASSUME ImpInv, IInv', Onwards, NEW q \in Relayers, job'[q] = job[q]
    PROVE  ReadIsStored(q)'
<1>1. job[q].round \in Rounds /\ ReadIsStored(q)
  BY Fields DEF JobInv
<1>2. job[q].phase = "read" => isStored(job[q].round)'
  BY <1>1 DEF ReadIsStored, Onwards
<1>3. ASSUME job[q].status \in {"imported", "already-stored"}
      PROVE  /\ beacons'[job[q].round] = job[q].randomness
             /\ job[q].randomness = RandomnessOf(job[q].round) /\ job[q].randomness # 0
  <2>1. /\ beacons[job[q].round] = job[q].randomness /\ job[q].randomness # 0
        /\ job[q].randomness = RandomnessOf(job[q].round)
    BY <1>1, <1>3 DEF ReadIsStored
  <2>2. job[q].round # 0
    BY <1>1, RegistryAssumption DEF Rounds
  <2>3. beacons'[job[q].round] # 0
    BY <1>1, <2>1, <2>2 DEF Onwards, isStored
  <2>4. beacons'[job[q].round] = RandomnessOf(job[q].round)
    BY <1>1, <2>3 DEF IInv, OnlyAuthenticBeacons, RandomnessOf
  <2> QED
    BY <2>1, <2>4
<1> QED
  BY <1>2, <1>3 DEF ReadIsStored, isStored, RandomnessOf

LEMMA LedgerStays ==
    ASSUME ImpInv, Onwards, NEW q \in Relayers, txs'[q] = txs[q]
    PROVE  Ledger(q)' /\ PaidOnce(q)'
<1>1. Ledger(q) /\ PaidOnce(q) /\ clock \in Nat /\ \A i \in 1..Len(txs[q]) : txs[q][i] \in Tx
  BY Fields DEF TypeOK
<1>2. ASSUME NEW i \in 1..Len(txs[q])
      PROVE  /\ minimumLead' # 0
             /\ txs[q][i].sig # 0 => roundScheduledTime(txs[q][i].sig) <= clock'
             /\ txs[q][i].resolved => txs[q][i].state \in {"mined", "reverted", "replaced"}
             /\ txs[q][i].state = "mined" => isStored(txs[q][i].round)'
  <2>1. /\ minimumLead # 0
        /\ txs[q][i].sig # 0 => roundScheduledTime(txs[q][i].sig) <= clock
        /\ txs[q][i].resolved => txs[q][i].state \in {"mined", "reverted", "replaced"}
        /\ txs[q][i].state = "mined" => isStored(txs[q][i].round)
    BY <1>1 DEF Ledger
  <2>2. txs[q][i].round \in Rounds /\ txs[q][i].sig \in Signatures
    BY <1>1 DEF Tx
  <2>3. txs[q][i].sig # 0 => roundScheduledTime(txs[q][i].sig) \in Nat
    BY <2>2, ScheduleType, RegistryAssumption DEF Signatures, Rounds
  <2> QED
    BY <1>1, <2>1, <2>2, <2>3 DEF Onwards
<1>3. Ledger(q)'
  BY <1>2 DEF Ledger, roundScheduledTime, isStored
<1>4. PaidOnce(q)'
  BY <1>1 DEF PaidOnce
<1> QED
  BY <1>3, <1>4

LEMMA JobStays ==
    ASSUME ImpInv, IInv', Onwards, NEW q \in Relayers, txs'[q] = txs[q], job'[q] = job[q],
           imports'[q] = imports[q]
    PROVE  JobInv(q)'
<1>1. StageIsKnown(q) /\ CountIsKnown(q) /\ NothingUnderWay(q)
  BY Fields DEF JobInv
<1>2. StageIsKnown(q)'
  BY <1>1 DEF StageIsKnown, Newest, Onwards
<1>3. CountIsKnown(q)'
  BY <1>1 DEF CountIsKnown, OwnTransaction, Newest, Accounted
<1>4. NothingUnderWay(q)'
  BY <1>1 DEF NothingUnderWay
<1> QED
  BY <1>2, <1>3, <1>4, ReadStays DEF JobInv

\* A step of relayer p: it is a step of BeaconRegistry, or leaves it alone.
LEMMA StepPreserves ==
    ASSUME ImpInv, NEW p \in Relayers, [Next]_vars, Onwards, clock' <= MaxTime,
           \A q \in Relayers \ {p} : /\ job'[q] = job[q] /\ txs'[q] = txs[q]
                                     /\ imports'[q] = imports[q],
           job' \in [Relayers -> Job], txs' \in [Relayers -> Seq(Tx)],
           Len(txs'[p]) <= MaxTx,
           Ledger(p)', PaidOnce(p)', JobInv(p)'
    PROVE  ImpInv'
<1>1. IInv'
  BY NextPreserves DEF ImpInv
<1>2. \A q \in Relayers : Ledger(q)' /\ PaidOnce(q)' /\ JobInv(q)'
  BY <1>1, LedgerStays, JobStays
<1>3. Typed'
  BY DEF Typed, ImpInv
<1> QED
  BY <1>1, <1>2, <1>3 DEF ImpInv

\* Steps of the chain.
LEMMA ChainPreserves == ImpInv /\ Chain => ImpInv' /\ [Next]_vars
<1> SUFFICES ASSUME ImpInv, Chain PROVE ImpInv' /\ [Next]_vars
  OBVIOUS
<1>1. Next /\ UNCHANGED <<job, txs>> /\ imports' = imports
  BY DEF Chain, Next, Tick, NewBlock, DeployRegistry, DeployConsumer, Request, Commit, Submit
<1>2. IInv /\ Typed /\ TypeOK /\ OnlyAuthenticBeacons /\ MaxTime \in Nat
  BY RegistryAssumption DEF ImpInv, IInv
<1>3. IInv'
  BY <1>1, <1>2, NextPreserves
<1>4. clock' \in Nat /\ clock' >= clock /\ clock' <= MaxTime
  BY <1>2 DEF Chain, Typed, TypeOK, Tick, NewBlock, DeployRegistry, DeployConsumer, Request,
     Commit, Submit
<1>5. minimumLead # 0 => minimumLead' # 0
  BY DEF Chain, Tick, NewBlock, DeployRegistry, DeployConsumer, Request, Commit, Submit
<1>6. \A r \in Rounds : isStored(r) => isStored(r)'
  <2>1. CASE beacons' = beacons
    BY <2>1 DEF isStored
  <2>2. CASE Submit
    <3>1. PICK r \in Rounds, sig \in Known \cup {0}, path \in Path : Execute(r, sig, path)
      BY <2>2 DEF Submit
    <3>2. sig \in Signatures /\ (sig # 0 => roundScheduledTime(sig) <= clock) /\ clock' = clock
      BY <2>2, RegistryAssumption DEF Known, Signatures, Rounds, Submit
    <3> QED
      BY <1>2, <3>1, <3>2, ExecuteKeepsBeacons
  <2> QED
    BY <2>1, <2>2 DEF Chain, Tick, NewBlock, DeployRegistry, DeployConsumer, Request, Commit
<1>7. Onwards
  BY <1>4, <1>5, <1>6 DEF Onwards
<1>8. \A q \in Relayers : Ledger(q)' /\ PaidOnce(q)' /\ JobInv(q)'
  BY <1>1, <1>3, <1>7, LedgerStays, JobStays
<1>9. Typed'
  BY <1>1, <1>2, <1>4 DEF Typed
<1> QED
  BY <1>1, <1>3, <1>8, <1>9 DEF ImpInv

-----------------------------------------------------------------------------
(* Steps of an import that touch no transaction.                           *)

\* Giving up an import is a step of BeaconRegistry, or none.
LEMMA LeaveIsGiveUp ==
    ASSUME ImpInv, NEW p \in Relayers, UNCHANGED World, Leave(p)
    PROVE  /\ [Next]_vars
           /\ \A q \in Relayers \ {p} : imports'[q] = imports[q]
           /\ imports'[p].stage = "idle"
<1>1. imports \in [Relayers -> Import] /\ ~At(p, "failed") /\ imports[p] \in Import
  BY Fields DEF IInv, TypeOK
<1>2. imports[p].stage \in {"idle", "fetched", "submitted"}
  BY <1>1 DEF Import, At
<1>3. \A q \in Relayers \ {p} : imports'[q] = imports[q]
  BY <1>1 DEF Leave
<1>4. CASE imports[p].stage = "idle"
  <2>1. imports' = imports
    BY <1>1, <1>4 DEF Leave
  <2> QED
    BY <1>3, <1>4, <2>1 DEF vars, World
<1>5. CASE imports[p].stage \in {"fetched", "submitted"}
  <2>1. imports' = [imports EXCEPT ![p] = Idle]
    BY <1>5 DEF Leave
  <2>2. GiveUp(p)
    BY <1>5, <2>1 DEF GiveUp, Goto, World
  <2>3. imports'[p].stage = "idle"
    BY <1>1, <2>1 DEF Idle
  <2> QED
    BY <1>3, <2>2, <2>3 DEF Next
<1> QED
  BY <1>2, <1>4, <1>5

LEMMA WorldStays == ImpInv /\ UNCHANGED World => Onwards /\ clock' <= MaxTime /\ clock' = clock
<1> SUFFICES ASSUME ImpInv, UNCHANGED World PROVE Onwards /\ clock' <= MaxTime /\ clock' = clock
  OBVIOUS
<1>1. clock \in Nat /\ clock <= MaxTime
  BY DEF ImpInv, IInv, TypeOK, Typed
<1>2. clock' = clock /\ minimumLead' = minimumLead /\ beacons' = beacons
  BY DEF World
<1> QED
  BY <1>1, <1>2 DEF Onwards, isStored

\* A step that changes the state of the import alone.
LEMMA JobStep ==
    ASSUME ImpInv, NEW p \in Relayers, NEW j \in Job, Step(p, j), txs' = txs, UNCHANGED World,
           imports' = imports \/ Leave(p), JobInv(p)'
    PROVE  ImpInv' /\ [Next]_vars
<1>1. Typed /\ Len(txs[p]) <= MaxTx
  BY Fields
<1>2. [Next]_vars /\ \A q \in Relayers \ {p} : imports'[q] = imports[q]
  BY LeaveIsGiveUp DEF vars, World
<1>3. job' \in [Relayers -> Job] /\ \A q \in Relayers \ {p} : job'[q] = job[q] /\ txs'[q] = txs[q]
  BY <1>1 DEF Typed, Step
<1>4. txs' \in [Relayers -> Seq(Tx)] /\ Len(txs'[p]) <= MaxTx
  BY <1>1 DEF Typed
<1>5. Onwards /\ clock' <= MaxTime /\ txs'[p] = txs[p]
  BY WorldStays
<1>6. Ledger(p)' /\ PaidOnce(p)'
  BY <1>5, LedgerStays
<1> QED
  BY <1>2, <1>3, <1>4, <1>5, <1>6, StepPreserves

\* What an import that is over needs.
LEMMA Ended ==
    ASSUME NEW p \in Relayers, job'[p].phase = "done", imports'[p].stage = "idle",
           job'[p].status # "none" => Accounted(p)',
           job'[p].status \in {"imported", "already-stored"} =>
               /\ beacons'[job'[p].round] = job'[p].randomness
               /\ job'[p].randomness = RandomnessOf(job'[p].round) /\ job'[p].randomness # 0
    PROVE  JobInv(p)'
<1>1. StageIsKnown(p)'
  BY DEF StageIsKnown
<1>2. CountIsKnown(p)'
  BY DEF CountIsKnown
<1>3. NothingUnderWay(p)'
  BY DEF NothingUnderWay
<1>4. ReadIsStored(p)'
  BY DEF ReadIsStored, RandomnessOf
<1> QED
  BY <1>1, <1>2, <1>3, <1>4 DEF JobInv

LEMMA ResultType ==
    ASSUME ImpInv, NEW p \in Relayers, NEW s \in Status, NEW r \in Signatures, NEW t \in BOOLEAN
    PROVE  LET j == Result(p, s, r, t)
           IN  /\ j \in Job /\ j.phase = "done" /\ j.status = s /\ j.randomness = r
               /\ j.told = t /\ j.round = job[p].round /\ j.before = job[p].before
<1>1. job[p].round \in Rounds /\ job[p].before \in 0..MaxTx
  BY Fields DEF Job
<1> QED
  BY <1>1, NoJobType DEF Result, NoJob, Job, Phase

\* An import ends without success, and says what it has to of its transaction.
LEMMA EndStep ==
    ASSUME ImpInv, NEW p \in Relayers, txs' = txs, UNCHANGED World,
           NEW s \in Status \ {"imported", "already-stored"}, NEW t \in BOOLEAN,
           Step(p, Result(p, s, 0, t)),
           (imports' = imports /\ imports[p].stage = "idle") \/ Leave(p),
           t => Len(txs[p]) = job[p].before + 1,
           ~t /\ Len(txs[p]) > job[p].before =>
               Newest(p).kind = "daemon" /\ s \in {"error", "cancelled"}
    PROVE  ImpInv' /\ [Next]_vars
<1> DEFINE j == Result(p, s, 0, t)
<1>1. /\ j \in Job /\ j.phase = "done" /\ j.status = s
      /\ j.told = t /\ j.before = job[p].before
  BY ResultType, NoJobType
<1>2. job'[p] = j /\ Step(p, j)
  BY DEF Step, ImpInv, Typed
<1>3. imports'[p].stage = "idle"
  BY LeaveIsGiveUp
<1> HIDE DEF j
<1>5. Accounted(p)'
  BY <1>1, <1>2 DEF Accounted, Newest
<1>4. JobInv(p)'
  BY <1>1, <1>2, <1>3, <1>5, Ended
<1> QED
  BY <1>1, <1>2, <1>4, JobStep

-----------------------------------------------------------------------------
(* Each of these steps.                                                    *)

\* The phases in which an import has recorded nothing yet.
Early == {"verify", "check", "wait", "sleep", "fetch", "simulate", "submit"}

LEMMA BeginPreserves ==
    ASSUME ImpInv, NEW p \in Relayers, Begin(p)
    PROVE  ImpInv' /\ [Next]_vars
<1>1. PICK r \in ImportRounds, k \in Kind :
         Step(p, [NoJob EXCEPT
                    !.phase = IF DefersAtOnce(p, k, r) THEN "done" ELSE "verify",
                    !.status = IF DefersAtOnce(p, k, r) THEN "deferred" ELSE "none",
                    !.kind = k, !.round = r, !.before = Len(txs[p])])
  BY DEF Begin
<1>2. r \in Rounds /\ Len(txs[p]) \in 0..MaxTx /\ Len(txs[p]) \in Nat /\ imports[p].stage = "idle"
  BY Fields, ImportAssumption DEF JobInv, StageIsKnown, Begin, In
<1>3. txs' = txs /\ UNCHANGED World /\ imports' = imports
  BY DEF Begin
<1>4. CASE DefersAtOnce(p, k, r)
  <2> DEFINE j == [NoJob EXCEPT !.phase = "done", !.status = "deferred", !.kind = k, !.round = r,
                                !.before = Len(txs[p])]
  <2>1. Step(p, j)
    BY <1>1, <1>4
  <2>2. j \in Job /\ j.phase = "done" /\ j.status = "deferred" /\ ~j.told /\ j.before = Len(txs[p])
    BY <1>2, NoJobType DEF NoJob, Job, Phase, Status
  <2>3. job'[p] = j
    BY <2>1 DEF Step, ImpInv, Typed
  <2> HIDE DEF j
  <2>4. Accounted(p)'
    BY <1>2, <1>3, <2>2, <2>3 DEF Accounted
  <2>5. JobInv(p)'
    BY <1>2, <1>3, <2>2, <2>3, <2>4, Ended
  <2> QED
    BY <1>3, <2>1, <2>2, <2>5, JobStep
<1>5. CASE ~DefersAtOnce(p, k, r)
  <2> DEFINE j == [NoJob EXCEPT !.phase = "verify", !.status = "none", !.kind = k, !.round = r,
                                !.before = Len(txs[p])]
  <2>1. Step(p, j)
    BY <1>1, <1>5
  <2>2. /\ j \in Job /\ j.phase = "verify" /\ j.status = "none" /\ j.before = Len(txs[p])
        /\ ~j.held /\ j.kind = k /\ j.round = r
    BY <1>2, NoJobType DEF NoJob, Job, Phase, Status
  <2>3. job'[p] = j
    BY <2>1 DEF Step, ImpInv, Typed
  <2> HIDE DEF j
  <2>4. StageIsKnown(p)' /\ CountIsKnown(p)' /\ ReadIsStored(p)'
    BY <1>2, <1>3, <2>2, <2>3 DEF StageIsKnown, CountIsKnown, ReadIsStored
  <2>5. NothingUnderWay(p)'
    BY <1>3, <1>5, <2>2, <2>3 DEF NothingUnderWay, DefersAtOnce, Retained
  <2> QED
    BY <1>3, <2>1, <2>2, <2>4, <2>5, JobStep DEF JobInv
<1> QED
  BY <1>4, <1>5

\* The fields of an import whose phase, and nothing that counts, changes.
LEMMA ContinueType ==
    ASSUME ImpInv, NEW p \in Relayers, NEW ph \in Phase
    PROVE  LET j == [job[p] EXCEPT !.phase = ph]
           IN  /\ j \in Job /\ j.phase = ph /\ j.status = job[p].status /\ j.held = job[p].held
               /\ j.round = job[p].round /\ j.before = job[p].before /\ j.kind = job[p].kind
               /\ j.randomness = job[p].randomness
<1>1. job[p] \in Job
  BY Fields
<1> QED
  BY <1>1 DEF Job

\* An import that has recorded nothing goes on: what it needs.
LEMMA EarlyGoesOn ==
    ASSUME ImpInv, IInv', Onwards, NEW p \in Relayers, txs'[p] = txs[p],
           job[p].phase \in Early, job'[p].phase \in Early,
           job'[p].status = job[p].status /\ job'[p].round = job[p].round,
           job'[p].before = job[p].before /\ job'[p].kind = job[p].kind,
           StageIsKnown(p)',
           job'[p].phase \in {"verify", "check"} \/ job[p].phase \notin {"verify", "check"}
             \/ ~isStored(job[p].round)
    PROVE  JobInv(p)'
<1>1. CountIsKnown(p) /\ NothingUnderWay(p) /\ ReadIsStored(p) /\ Ledger(p)
  BY Fields DEF JobInv
<1>2. CountIsKnown(p)'
  BY <1>1 DEF CountIsKnown, Early
<1>3. NothingUnderWay(p)'
  <2>1. CASE job[p].phase \notin {"verify", "check"} \/ job'[p].phase \in {"verify", "check"}
    BY <1>1, <2>1 DEF NothingUnderWay, Early
  <2>2. CASE ~isStored(job[p].round)
    BY <1>1, <2>2 DEF NothingUnderWay, Early, Ledger
  <2> QED
    BY <2>1, <2>2
<1>4. ReadIsStored(p)'
  BY <1>1 DEF CountIsKnown, Early, ReadIsStored
<1> QED
  BY <1>2, <1>3, <1>4 DEF JobInv

LEMMA VerifyDeploymentPreserves ==
    ASSUME ImpInv, NEW p \in Relayers, VerifyDeployment(p)
    PROVE  ImpInv' /\ [Next]_vars
<1>1. In(p, "verify") /\ UNCHANGED World /\ txs' = txs
  BY DEF VerifyDeployment
<1>2. JobInv(p) /\ job[p].before \in Nat
  BY Fields
<1>3. CASE minimumLead = 0
  <2>1. Step(p, Result(p, "error", 0, FALSE)) /\ Leave(p)
    BY <1>3 DEF VerifyDeployment, End
  <2>2. ~(Len(txs[p]) > job[p].before)
    BY <1>1, <1>2 DEF JobInv, CountIsKnown, In
  <2> QED
    BY <1>1, <2>1, <2>2, EndStep DEF Status
<1>4. CASE minimumLead # 0
  <2> DEFINE j == [job[p] EXCEPT !.phase = "check"]
  <2>1. Step(p, j) /\ imports' = imports
    BY <1>4 DEF VerifyDeployment, To
  <2>2. /\ j \in Job /\ j.phase = "check" /\ j.status = job[p].status /\ j.held = job[p].held
        /\ j.round = job[p].round /\ j.before = job[p].before /\ j.kind = job[p].kind
    BY ContinueType DEF Phase
  <2>3. job'[p] = j
    BY <2>1 DEF Step, ImpInv, Typed
  <2> HIDE DEF j
  <2>4. StageIsKnown(p)'
    BY <1>1, <1>2, <1>4, <2>1, <2>2, <2>3 DEF JobInv, StageIsKnown, In, World
  <2>5. IInv' /\ Onwards
    BY <1>1, <2>1, WorldStays, NextPreserves DEF vars, World, ImpInv
  <2>6. JobInv(p)'
    BY <1>1, <2>2, <2>3, <2>4, <2>5, EarlyGoesOn DEF In, Early
  <2> QED
    BY <1>1, <2>1, <2>2, <2>6, JobStep
<1> QED
  BY <1>3, <1>4

LEMMA CheckStoredPreserves ==
    ASSUME ImpInv, NEW p \in Relayers, CheckStored(p)
    PROVE  ImpInv' /\ [Next]_vars
<1>1. In(p, "check") /\ UNCHANGED World /\ txs' = txs
  BY DEF CheckStored
<1>2. JobInv(p) /\ job[p].before \in Nat
  BY Fields
<1>3. PICK ph \in {"read", "simulate", "fetch", "wait"} :
        /\ To(p, ph)
        /\ ph = "read" => isStored(job[p].round) /\ Leave(p)
        /\ ph # "read" => ~isStored(job[p].round) /\ imports' = imports
        /\ ph = "simulate" => job[p].held
        /\ ph \in {"fetch", "wait"} => ~job[p].held
  <2>1. CASE isStored(job[p].round)
    BY <2>1 DEF CheckStored
  <2>2. CASE ~isStored(job[p].round) /\ job[p].held
    BY <2>2 DEF CheckStored
  <2>3. CASE ~isStored(job[p].round) /\ ~job[p].held /\ job[p].kind = "import"
    BY <2>3 DEF CheckStored
  <2>4. CASE ~isStored(job[p].round) /\ ~job[p].held /\ job[p].kind # "import"
    BY <2>4 DEF CheckStored
  <2> QED
    BY <2>1, <2>2, <2>3, <2>4
<1> DEFINE j == [job[p] EXCEPT !.phase = ph]
<1>4. /\ j \in Job /\ j.phase = ph /\ j.status = job[p].status /\ j.held = job[p].held
      /\ j.round = job[p].round /\ j.before = job[p].before /\ j.kind = job[p].kind
  <2>1. ph \in Phase
    BY DEF Phase
  <2> QED
    BY <2>1, ContinueType
<1>5. job'[p] = j /\ Step(p, j)
  BY <1>3 DEF Step, To, ImpInv, Typed
<1> HIDE DEF j
<1>6. IInv' /\ Onwards
  BY <1>1, <1>3, LeaveIsGiveUp, WorldStays, NextPreserves DEF vars, World, ImpInv
<1>7. CASE ph = "read"
  <2>1. imports'[p].stage = "idle" /\ beacons'[job[p].round] # 0 /\ job[p].round # 0
    BY <1>1, <1>3, <1>7, LeaveIsGiveUp DEF isStored, World
  <2>2. StageIsKnown(p)' /\ CountIsKnown(p)' /\ NothingUnderWay(p)' /\ ReadIsStored(p)'
    BY <1>1, <1>2, <1>4, <1>5, <1>7, <2>1
       DEF JobInv, StageIsKnown, CountIsKnown, NothingUnderWay, ReadIsStored, In, isStored
  <2> QED
    BY <1>1, <1>3, <1>4, <1>5, <1>7, <2>2, JobStep DEF JobInv
<1>8. CASE ph # "read"
  <2>1. StageIsKnown(p)'
    BY <1>1, <1>2, <1>3, <1>4, <1>5, <1>8 DEF JobInv, StageIsKnown, In, World
  <2>2. JobInv(p)'
    BY <1>1, <1>3, <1>4, <1>5, <1>6, <1>8, <2>1, EarlyGoesOn DEF In, Early
  <2> QED
    BY <1>1, <1>3, <1>4, <1>5, <1>8, <2>2, JobStep
<1> QED
  BY <1>7, <1>8

LEMMA ReadStoredPreserves ==
    ASSUME ImpInv, NEW p \in Relayers, ReadStored(p)
    PROVE  ImpInv' /\ [Next]_vars
<1> DEFINE r == beacons[job[p].round]
           j == Result(p, "already-stored", r, FALSE)
<1>1. In(p, "read") /\ UNCHANGED World /\ txs' = txs /\ imports' = imports /\ Step(p, j)
  BY DEF ReadStored
<1>2. JobInv(p) /\ job[p].before \in Nat /\ job[p].round \in Rounds /\ OnlyAuthenticBeacons /\ TypeOK
  BY Fields
<1>3. /\ isStored(job[p].round) /\ r \in Signatures /\ imports[p].stage = "idle"
      /\ ~(Len(txs[p]) > job[p].before)
  BY <1>1, <1>2 DEF JobInv, StageIsKnown, CountIsKnown, ReadIsStored, In, TypeOK
<1>4. r # 0 /\ r = RandomnessOf(job[p].round)
  BY <1>2, <1>3 DEF isStored, OnlyAuthenticBeacons
<1> HIDE DEF r
<1>5. /\ j \in Job /\ j.phase = "done" /\ j.status = "already-stored" /\ j.randomness = r
      /\ ~j.told /\ j.round = job[p].round /\ j.before = job[p].before
  <2>1. job[p].before \in 0..MaxTx
    BY Fields DEF Job
  <2> QED
    BY <1>2, <1>3, <2>1, NoJobType DEF Result, NoJob, Job, Phase, Status
<1>6. job'[p] = j /\ beacons' = beacons
  BY <1>1 DEF Step, ImpInv, Typed, World
<1> HIDE DEF j
<1>7. /\ beacons'[job'[p].round] = job'[p].randomness
      /\ job'[p].randomness = RandomnessOf(job'[p].round) /\ job'[p].randomness # 0
  BY <1>4, <1>5, <1>6 DEF r
<1>8. imports'[p].stage = "idle" /\ ~(Len(txs'[p]) > job'[p].before) /\ ~job'[p].told
  BY <1>1, <1>3, <1>5, <1>6
<1>9. Accounted(p)'
  BY <1>8 DEF Accounted
<1>10. JobInv(p)'
  BY <1>5, <1>6, <1>7, <1>8, <1>9, Ended
<1> QED
  BY <1>1, <1>5, <1>10, JobStep

\* An import that has recorded nothing goes on, and BeaconRegistry's with it.
LEMMA EarlyStep ==
    ASSUME ImpInv, NEW p \in Relayers, NEW j \in Job, Step(p, j), txs' = txs, UNCHANGED World,
           imports' = imports, job[p].phase \in Early, j.phase \in Early,
           j.status = job[p].status, j.round = job[p].round, j.held = job[p].held,
           j.before = job[p].before, j.kind = job[p].kind,
           job[p].phase \notin {"verify", "check"} /\ j.phase \notin {"verify", "check"},
           (j.phase = "simulate" <=> job[p].phase = "simulate"),
           (j.phase = "submit" <=> job[p].phase = "submit")
    PROVE  ImpInv' /\ [Next]_vars
<1>1. job'[p] = j /\ JobInv(p)
  BY Fields DEF Step, ImpInv, Typed
<1>2. IInv' /\ Onwards
  BY WorldStays, NextPreserves DEF vars, World, ImpInv
<1>3. StageIsKnown(p)'
  BY <1>1 DEF JobInv, StageIsKnown, World, Early
<1>4. JobInv(p)'
  BY <1>1, <1>2, <1>3, EarlyGoesOn
<1> QED
  BY <1>4, JobStep

LEMMA NothingRecorded ==
    ASSUME ImpInv, NEW p \in Relayers, job[p].phase \in Early \cup {"read"}
    PROVE  ~(Len(txs[p]) > job[p].before)
<1>1. CountIsKnown(p) /\ job[p].before \in Nat
  BY Fields DEF JobInv
<1> QED
  BY <1>1 DEF CountIsKnown, Early

LEMMA WaitForRoundPreserves ==
    ASSUME ImpInv, NEW p \in Relayers, WaitForRound(p)
    PROVE  ImpInv' /\ [Next]_vars
<1> DEFINE delay == roundScheduledTime(job[p].round) - clock
<1>1. In(p, "wait") /\ UNCHANGED World /\ txs' = txs /\ imports' = imports /\ job[p].phase \in Early
  BY DEF WaitForRound, In, Early
<1>2. /\ clock \in Nat /\ clock <= MaxTime /\ roundScheduledTime(job[p].round) \in Nat
      /\ MaxTime \in Nat /\ MaxTimer \in Nat /\ MaxSafeInteger \in Nat
      /\ imports[p].stage = "idle" /\ job[p] \in Job
  BY <1>1, Fields, ScheduleType, RegistryAssumption, ImportAssumption
     DEF TypeOK, Typed, JobInv, StageIsKnown, In
<1>3. delay \in Int
  BY <1>2
<1>4. \/ To(p, "fetch")
      \/ End(p, "error")
      \/ /\ delay > 0
         /\ Step(p, [job[p] EXCEPT !.phase = "sleep", !.due = TimerFires(delay)])
  BY <1>2, <1>3 DEF WaitForRound
<1>5. CASE To(p, "fetch")
  <2> DEFINE j == [job[p] EXCEPT !.phase = "fetch"]
  <2>1. /\ j \in Job /\ j.phase = "fetch" /\ j.status = job[p].status /\ j.held = job[p].held
        /\ j.round = job[p].round /\ j.before = job[p].before /\ j.kind = job[p].kind
    BY ContinueType DEF Phase
  <2>2. Step(p, j)
    BY <1>5 DEF To
  <2> HIDE DEF j
  <2> QED
    BY <1>1, <2>1, <2>2, EarlyStep DEF In, Early
<1>6. CASE End(p, "error")
  BY <1>1, <1>2, <1>6, NothingRecorded, EndStep DEF End, Status
<1>7. CASE delay > 0 /\ Step(p, [job[p] EXCEPT !.phase = "sleep", !.due = TimerFires(delay)])
  <2> DEFINE j == [job[p] EXCEPT !.phase = "sleep", !.due = TimerFires(delay)]
  <2>1. TimerFires(delay) \in 0..(MaxTime + MaxTimer)
    BY <1>2, <1>3, <1>7 DEF TimerFires
  <2> HIDE DEF delay
  <2>2. /\ j \in Job /\ j.phase = "sleep" /\ j.status = job[p].status /\ j.held = job[p].held
        /\ j.round = job[p].round /\ j.before = job[p].before /\ j.kind = job[p].kind
    BY <1>2, <2>1 DEF Job, Phase
  <2>3. Step(p, j)
    BY <1>7
  <2> HIDE DEF j
  <2> QED
    BY <1>1, <2>2, <2>3, EarlyStep DEF In, Early
<1> QED
  BY <1>4, <1>5, <1>6, <1>7

LEMMA WakePreserves ==
    ASSUME ImpInv, NEW p \in Relayers, Wake(p)
    PROVE  ImpInv' /\ [Next]_vars
<1> DEFINE j == [job[p] EXCEPT !.phase = "fetch", !.due = 0]
<1>1. /\ In(p, "sleep") /\ UNCHANGED World /\ txs' = txs /\ imports' = imports
      /\ Step(p, j) /\ job[p].phase \in Early
  BY DEF Wake, In, Early
<1>2. job[p] \in Job /\ 0 \in 0..(MaxTime + MaxTimer)
  BY Fields, RegistryAssumption, ImportAssumption
<1>3. /\ j \in Job /\ j.phase = "fetch" /\ j.status = job[p].status /\ j.held = job[p].held
      /\ j.round = job[p].round /\ j.before = job[p].before /\ j.kind = job[p].kind
  BY <1>2 DEF Job, Phase
<1> HIDE DEF j
<1> QED
  BY <1>1, <1>3, EarlyStep DEF In, Early

LEMMA FetchFailsPreserves ==
    ASSUME ImpInv, NEW p \in Relayers, FetchFails(p)
    PROVE  ImpInv' /\ [Next]_vars
<1>1. In(p, "fetch") /\ UNCHANGED World /\ txs' = txs /\ imports' = imports /\ job[p].phase \in Early
  BY DEF FetchFails, In, Early
<1>2. job[p] \in Job /\ imports[p].stage = "idle"
  BY <1>1, Fields DEF JobInv, StageIsKnown, In
<1>3. CASE MoreTries(p)
  <2> DEFINE n == (job[p].tries % MaxAttempts) + 1
             j == [job[p] EXCEPT !.tries = n]
  <2>1. MaxAttempts \in Nat \ {0} /\ job[p].tries \in 1..MaxAttempts
    BY <1>2, ImportAssumption DEF Job
  <2>2. n \in 1..MaxAttempts
    BY <2>1
  <2>3. Step(p, j)
    BY <1>3 DEF FetchFails
  <2> HIDE DEF n
  <2>4. /\ j \in Job /\ j.phase = job[p].phase /\ j.status = job[p].status /\ j.held = job[p].held
        /\ j.round = job[p].round /\ j.before = job[p].before /\ j.kind = job[p].kind
    BY <1>2, <2>2 DEF Job
  <2> HIDE DEF j
  <2> QED
    BY <1>1, <2>3, <2>4, EarlyStep DEF In, Early
<1>4. CASE ~MoreTries(p)
  BY <1>1, <1>2, <1>4, NothingRecorded, EndStep DEF FetchFails, End, Status
<1> QED
  BY <1>3, <1>4

LEMMA FetchBeaconPreserves ==
    ASSUME ImpInv, NEW p \in Relayers, FetchBeacon(p)
    PROVE  ImpInv' /\ [Next]_vars
<1> DEFINE j == IF job[p].kind = "import" THEN [job[p] EXCEPT !.phase = "simulate"]
                ELSE [job[p] EXCEPT !.phase = "verify", !.held = TRUE, !.tries = 1]
<1>1. /\ In(p, "fetch") /\ Fetch(p) /\ txs' = txs /\ imports'[p].round = job[p].round
      /\ Step(p, j)
  BY DEF FetchBeacon, To
<1>2. job[p] \in Job /\ JobInv(p) /\ imports \in [Relayers -> Import] /\ 1 \in 1..MaxAttempts
  BY Fields, ImportAssumption DEF TypeOK
<1>3. /\ j \in Job /\ j.status = job[p].status /\ j.round = job[p].round
      /\ j.before = job[p].before /\ j.kind = job[p].kind
      /\ j.phase = "simulate" \/ (j.phase = "verify" /\ j.held)
  BY <1>2 DEF Job, Phase
<1>4. job'[p] = j /\ job' \in [Relayers -> Job] /\ \A q \in Relayers \ {p} : job'[q] = job[q]
  BY <1>1, <1>3 DEF Step, ImpInv, Typed
<1> HIDE DEF j
<1>5. PICK r \in Rounds, sig \in Known \cup {0} :
        Goto(p, [imports[p] EXCEPT !.stage = "fetched", !.round = r, !.sig = sig])
  BY <1>1 DEF Fetch
<1>6. /\ imports'[p].stage = "fetched"
      /\ \A q \in Relayers \ {p} : imports'[q] = imports[q]
      /\ minimumLead # 0 /\ UNCHANGED World
  BY <1>1, <1>2, <1>5 DEF Goto, Import, Fetch, World
<1>7. Onwards /\ clock' <= MaxTime /\ [Next]_vars /\ IInv'
  BY <1>1, <1>6, WorldStays, NextPreserves DEF Next, ImpInv
<1>8. StageIsKnown(p)'
  BY <1>1, <1>3, <1>4, <1>6 DEF StageIsKnown, World
<1>9. JobInv(p)'
  BY <1>1, <1>3, <1>4, <1>7, <1>8, EarlyGoesOn DEF In, Early
<1>10. Ledger(p)' /\ PaidOnce(p)'
  BY <1>1, <1>7, LedgerStays
<1>11. txs' \in [Relayers -> Seq(Tx)] /\ Len(txs'[p]) <= MaxTx
  BY <1>1 DEF ImpInv, Typed
<1> QED
  BY <1>1, <1>4, <1>6, <1>7, <1>9, <1>10, <1>11, StepPreserves

\* A simulation ends the fetched import or has it submitted.
LEMMA SimulateEffect ==
    ASSUME ImpInv, NEW p \in Relayers, Simulate(p)
    PROVE  /\ UNCHANGED World
           /\ \A q \in Relayers \ {p} : imports'[q] = imports[q]
           /\ \/ imports'[p].stage = "idle"
              \/ imports'[p].stage = "submitted" /\ imports'[p].round = imports[p].round
<1> DEFINE i == imports[p]
           With(path) == Submission(i.round, i.sig, path)
<1>1. imports \in [Relayers -> Import] /\ i \in Import
  BY Fields DEF TypeOK
<1>2. UNCHANGED beacons
  BY DEF Simulate
<1>3. PICK path \in {"witness", "compressed"} :
        Goto(p, IF With(path) = None THEN Idle
                ELSE [i EXCEPT !.stage = "submitted", !.path = path, !.simulated = With(path)])
  BY DEF Simulate
<1>4. UNCHANGED World /\ \A q \in Relayers \ {p} : imports'[q] = imports[q]
  BY <1>1, <1>2, <1>3 DEF Goto, World
<1>5. CASE With(path) = None
  BY <1>1, <1>3, <1>4, <1>5 DEF Goto, Idle
<1>6. CASE With(path) # None
  BY <1>1, <1>3, <1>4, <1>6 DEF Goto, Import
<1> QED
  BY <1>5, <1>6, <1>4

LEMMA SimulateSubmissionPreserves ==
    ASSUME ImpInv, NEW p \in Relayers, SimulateSubmission(p)
    PROVE  ImpInv' /\ [Next]_vars
<1>1. In(p, "simulate") /\ Simulate(p) /\ txs' = txs /\ job[p].phase \in Early
  BY DEF SimulateSubmission, In, Early
<1>2. /\ UNCHANGED World
      /\ \A q \in Relayers \ {p} : imports'[q] = imports[q]
      /\ \/ imports'[p].stage = "idle"
         \/ imports'[p].stage = "submitted" /\ imports'[p].round = imports[p].round
  BY <1>1, SimulateEffect
<1>3. Onwards /\ clock' <= MaxTime /\ [Next]_vars /\ IInv'
  BY <1>1, <1>2, WorldStays, NextPreserves DEF Next, ImpInv
<1>4. PICK j \in Job :
        /\ Step(p, j)
        /\ \/ /\ imports'[p].stage = "idle" /\ j = Result(p, "error", 0, FALSE)
           \/ /\ imports'[p].stage = "submitted" /\ j = [job[p] EXCEPT !.phase = "submit"]
              /\ imports'[p].round = imports[p].round
  <2>1. CASE imports'[p].stage = "idle"
    <3>1. Step(p, Result(p, "error", 0, FALSE)) /\ Result(p, "error", 0, FALSE) \in Job
      BY <2>1, ResultType, NoJobType DEF SimulateSubmission, End, Status
    <3> QED
      BY <2>1, <3>1
  <2>2. CASE imports'[p].stage = "submitted" /\ imports'[p].round = imports[p].round
    <3>1. /\ Step(p, [job[p] EXCEPT !.phase = "submit"])
          /\ [job[p] EXCEPT !.phase = "submit"] \in Job
      BY <2>2, ContinueType DEF SimulateSubmission, To, Phase
    <3> QED
      BY <2>2, <3>1
  <2> QED
    BY <1>2, <2>1, <2>2
<1>5. job'[p] = j /\ job' \in [Relayers -> Job] /\ \A q \in Relayers \ {p} : job'[q] = job[q]
  BY <1>4 DEF Step, ImpInv, Typed
<1>6. JobInv(p)'
  <2>1. CASE imports'[p].stage = "idle" /\ j = Result(p, "error", 0, FALSE)
    <3>1. j.phase = "done" /\ j.status = "error" /\ ~j.told /\ j.before = job[p].before
      BY <2>1 DEF Result, NoJob
    <3>2. ~(Len(txs[p]) > job[p].before)
      BY <1>1, NothingRecorded
    <3>3. Accounted(p)'
      BY <1>1, <1>5, <3>1, <3>2 DEF Accounted
    <3> QED
      BY <1>1, <1>5, <2>1, <3>1, <3>3, Ended
  <2>2. CASE imports'[p].stage = "submitted" /\ j = [job[p] EXCEPT !.phase = "submit"]
             /\ imports'[p].round = imports[p].round
    <3>1. /\ j.phase = "submit" /\ j.status = job[p].status /\ j.held = job[p].held
          /\ j.round = job[p].round /\ j.before = job[p].before /\ j.kind = job[p].kind
      BY <2>2, ContinueType DEF Phase
    <3>2. StageIsKnown(p)
      BY Fields DEF JobInv
    <3>3. StageIsKnown(p)'
      BY <1>1, <1>2, <1>5, <2>2, <3>1, <3>2 DEF StageIsKnown, World, In
    <3> QED
      BY <1>1, <1>3, <1>5, <3>1, <3>3, EarlyGoesOn DEF Early, In
  <2> QED
    BY <1>4, <2>1, <2>2
<1>7. Ledger(p)' /\ PaidOnce(p)'
  BY <1>1, <1>3, LedgerStays
<1>8. txs' \in [Relayers -> Seq(Tx)] /\ Len(txs'[p]) <= MaxTx
  BY <1>1 DEF ImpInv, Typed
<1> QED
  BY <1>1, <1>2, <1>3, <1>5, <1>6, <1>7, <1>8, StepPreserves

LEMMA DeferPreserves ==
    ASSUME ImpInv, NEW p \in Relayers, Defer(p)
    PROVE  ImpInv' /\ [Next]_vars
<1>1. In(p, "submit") /\ UNCHANGED World /\ txs' = txs /\ Leave(p) /\ End(p, "deferred")
  BY DEF Defer
<1>2. ~(Len(txs[p]) > job[p].before)
  BY <1>1, NothingRecorded DEF In, Early
<1> QED
  BY <1>1, <1>2, EndStep DEF End, Status

\* An import that sent its transaction has recorded one.
LEMMA OneRecorded ==
    ASSUME ImpInv, NEW p \in Relayers, job[p].phase \in {"send", "receipt", "confirm"}
    PROVE  /\ OwnTransaction(p) /\ Len(txs[p]) > job[p].before /\ Len(txs[p]) \in 1..Len(txs[p])
           /\ Len(txs[p]) = job[p].before + 1
           /\ Newest(p) \in Tx /\ job[p].status = "none"
<1>1. CountIsKnown(p) /\ job[p].before \in Nat /\ \A i \in 1..Len(txs[p]) : txs[p][i] \in Tx
  BY Fields DEF JobInv
<1>2. OwnTransaction(p) /\ job[p].status = "none"
  BY <1>1 DEF CountIsKnown
<1>3. Len(txs[p]) = job[p].before + 1
  BY <1>2 DEF OwnTransaction
<1> QED
  BY <1>1, <1>2, <1>3 DEF Newest

LEMMA ReceiptPreserves ==
    ASSUME ImpInv, NEW p \in Relayers, Receipt(p)
    PROVE  ImpInv' /\ [Next]_vars
<1>1. /\ In(p, "receipt") /\ UNCHANGED World /\ txs' = txs /\ imports' = imports
      /\ Newest(p).state # "sent"
      /\ To(p, "confirm") \/ EndTold(p, "error")
  BY DEF Receipt
<1>2. OwnTransaction(p) /\ Len(txs[p]) = job[p].before + 1 /\ job[p].status = "none"
  BY <1>1, OneRecorded DEF In
<1>3. imports[p].stage = "idle"
  BY <1>1, Fields DEF JobInv, StageIsKnown, In
<1>4. CASE EndTold(p, "error")
  BY <1>1, <1>2, <1>3, <1>4, EndStep DEF EndTold, Status
<1>5. CASE To(p, "confirm")
  <2> DEFINE j == [job[p] EXCEPT !.phase = "confirm"]
  <2>1. /\ j \in Job /\ j.phase = "confirm" /\ j.status = job[p].status
        /\ j.round = job[p].round /\ j.before = job[p].before /\ j.kind = job[p].kind
    BY ContinueType DEF Phase
  <2>2. Step(p, j) /\ job'[p] = j
    BY <1>5 DEF To, Step, ImpInv, Typed
  <2> HIDE DEF j
  <2>3. StageIsKnown(p)' /\ NothingUnderWay(p)' /\ ReadIsStored(p)'
    BY <1>1, <1>2, <1>3, <2>1, <2>2 DEF StageIsKnown, NothingUnderWay, ReadIsStored
  <2>4. CountIsKnown(p)'
    BY <1>1, <1>2, <1>3, <2>1, <2>2 DEF CountIsKnown, OwnTransaction, Newest
  <2> QED
    BY <1>1, <2>1, <2>2, <2>3, <2>4, JobStep DEF JobInv
<1> QED
  BY <1>1, <1>4, <1>5

LEMMA ReceiptTimeoutPreserves ==
    ASSUME ImpInv, NEW p \in Relayers, ReceiptTimeout(p)
    PROVE  ImpInv' /\ [Next]_vars
<1>1. In(p, "receipt") /\ UNCHANGED World /\ txs' = txs /\ Leave(p) /\ EndTold(p, "pending")
  BY DEF ReceiptTimeout
<1>2. Len(txs[p]) = job[p].before + 1
  BY <1>1, OneRecorded DEF In
<1> QED
  BY <1>1, <1>2, EndStep DEF EndTold, Status

LEMMA ConfirmPreserves ==
    ASSUME ImpInv, NEW p \in Relayers, Confirm(p)
    PROVE  ImpInv' /\ [Next]_vars
<1> DEFINE r == beacons[job[p].round]
           j == Result(p, "imported", r, TRUE)
<1>1. /\ In(p, "confirm") /\ UNCHANGED World /\ txs' = txs /\ imports' = imports
      /\ (isStored(job[p].round) /\ Step(p, j)) \/ EndTold(p, "error")
  BY DEF Confirm
<1>2. /\ Len(txs[p]) = job[p].before + 1 /\ imports[p].stage = "idle" /\ job[p] \in Job
      /\ OnlyAuthenticBeacons /\ r \in Signatures /\ job[p].round \in Rounds
  BY <1>1, OneRecorded, Fields DEF In, JobInv, StageIsKnown, TypeOK
<1>3. CASE EndTold(p, "error")
  BY <1>1, <1>2, <1>3, EndStep DEF EndTold, Status
<1>4. CASE isStored(job[p].round) /\ Step(p, j)
  <2>1. r # 0 /\ r = RandomnessOf(job[p].round)
    BY <1>2, <1>4 DEF isStored, OnlyAuthenticBeacons
  <2>2. beacons' = beacons /\ job'[p] = j
    BY <1>1, <1>4 DEF World, Step, ImpInv, Typed
  <2> HIDE DEF r
  <2>3. /\ j \in Job /\ j.phase = "done" /\ j.status = "imported" /\ j.randomness = r
        /\ j.told /\ j.round = job[p].round /\ j.before = job[p].before
    <3>1. job[p].before \in 0..MaxTx
      BY <1>2 DEF Job
    <3> QED
      BY <1>2, <3>1, NoJobType DEF Result, NoJob, Job, Phase, Status
  <2> HIDE DEF j
  <2>4. /\ beacons'[job'[p].round] = job'[p].randomness
        /\ job'[p].randomness = RandomnessOf(job'[p].round) /\ job'[p].randomness # 0
    BY <2>1, <2>2, <2>3 DEF r
  <2>5. imports'[p].stage = "idle" /\ Accounted(p)'
    BY <1>1, <1>2, <2>2, <2>3 DEF Accounted
  <2>6. JobInv(p)'
    BY <2>2, <2>3, <2>4, <2>5, Ended
  <2> QED
    BY <1>1, <1>4, <2>3, <2>6, JobStep
<1> QED
  BY <1>1, <1>3, <1>4

LEMMA RequestFailsPreserves ==
    ASSUME ImpInv, NEW p \in Relayers, RequestFails(p)
    PROVE  ImpInv' /\ [Next]_vars
<1>1. UNCHANGED World /\ txs' = txs /\ Leave(p)
  BY DEF RequestFails
<1>2. CASE job[p].phase \in {"verify", "check", "read", "simulate", "submit"} /\ End(p, "error")
  BY <1>1, <1>2, NothingRecorded, EndStep DEF End, Status, Early
<1>3. CASE job[p].phase \in {"receipt", "confirm"} /\ EndTold(p, "error")
  BY <1>1, <1>3, OneRecorded, EndStep DEF EndTold, Status
<1> QED
  BY <1>2, <1>3 DEF RequestFails

\* A command that ends with its transaction recorded, or perhaps recorded, prints
\* the recording; the daemon does not.
LEMMA RecordingIsKnown ==
    ASSUME ImpInv, NEW p \in Relayers, In(p, "send")
    PROVE  /\ Prints(p, Recording(p)) \in BOOLEAN
           /\ Prints(p, Recording(p)) => Len(txs[p]) = job[p].before + 1
           /\ ~Prints(p, Recording(p)) => Newest(p).kind = "daemon"
<1>1. OwnTransaction(p) /\ Len(txs[p]) \in 1..Len(txs[p]) /\ Len(txs[p]) = job[p].before + 1
  BY OneRecorded DEF In
<1>2. CASE Newest(p).state = "recorded"
  <2>1. Retained(p, job[p].round)
    BY <1>1, <1>2 DEF Retained, OwnTransaction, Newest
  <2> QED
    BY <1>1, <2>1 DEF Prints, Recording, OwnTransaction
<1>3. CASE Newest(p).state = "uncertain"
  <2>1. Unsaved(p)
    BY <1>1, <1>3 DEF Unsaved, Newest
  <2> QED
    BY <1>1, <2>1 DEF Prints, Recording, OwnTransaction
<1> QED
  BY <1>1, <1>2, <1>3 DEF OwnTransaction, In

LEMMA CancelPreserves ==
    ASSUME ImpInv, NEW p \in Relayers, Cancel(p)
    PROVE  ImpInv' /\ [Next]_vars
<1>1. UNCHANGED World /\ txs' = txs /\ Leave(p)
  BY DEF Cancel
<1>2. CASE End(p, "cancelled") /\ job[p].phase \in Early
  BY <1>1, <1>2, NothingRecorded, EndStep DEF End, Status
<1>3. CASE In(p, "send") /\ Step(p, Result(p, "cancelled", 0, Prints(p, Recording(p))))
  BY <1>1, <1>3, RecordingIsKnown, EndStep DEF Status
<1> QED
  BY <1>2, <1>3 DEF Cancel, Early

LEMMA SendFailsPreserves ==
    ASSUME ImpInv, NEW p \in Relayers, SendFails(p)
    PROVE  ImpInv' /\ [Next]_vars
<1>1. /\ UNCHANGED World /\ txs' = txs /\ Leave(p) /\ In(p, "send")
      /\ Step(p, Result(p, "error", 0, Prints(p, Recording(p))))
  BY DEF SendFails
<1> QED
  BY <1>1, RecordingIsKnown, EndStep DEF Status

LEMMA CrashPreserves ==
    ASSUME ImpInv, NEW p \in Relayers, Crash(p)
    PROVE  ImpInv' /\ [Next]_vars
<1>1. UNCHANGED World /\ txs' = txs /\ Leave(p) /\ Step(p, NoJob)
  BY DEF Crash
<1>2. job'[p] = NoJob /\ imports'[p].stage = "idle"
  BY <1>1, LeaveIsGiveUp DEF Step, ImpInv, Typed
<1>3. NoJob.phase = "done" /\ NoJob.status = "none"
  BY DEF NoJob
<1>4. JobInv(p)'
  BY <1>2, <1>3, Ended
<1> QED
  BY <1>1, <1>4, NoJobType, JobStep

-----------------------------------------------------------------------------
(* Steps that touch a transaction.                                         *)

Final == {"mined", "reverted", "replaced"}

\* Transaction i of relayer p becomes e, which differs in its progress alone.
Entry(p, i, e) ==
    /\ txs' = [txs EXCEPT ![p] = [txs[p] EXCEPT ![i] = e]]
    /\ e.round = txs[p][i].round /\ e.sig = txs[p][i].sig
    /\ e.path = txs[p][i].path /\ e.kind = txs[p][i].kind

LEMMA EntryEffect ==
    ASSUME ImpInv, NEW p \in Relayers, NEW i \in 1..Len(txs[p]), NEW e \in Tx, Entry(p, i, e)
    PROVE  /\ txs' \in [Relayers -> Seq(Tx)]
           /\ \A q \in Relayers \ {p} : txs'[q] = txs[q]
           /\ Len(txs'[p]) = Len(txs[p])
           /\ txs'[p][i] = e
           /\ \A k \in 1..Len(txs[p]) : k # i => txs'[p][k] = txs[p][k]
           /\ \A k \in 1..Len(txs[p]) :
                txs'[p][k].round = txs[p][k].round /\ txs'[p][k].kind = txs[p][k].kind
<1>1. txs \in [Relayers -> Seq(Tx)] /\ txs[p] \in Seq(Tx)
  BY DEF ImpInv, Typed
<1>2. /\ [txs[p] EXCEPT ![i] = e] \in Seq(Tx)
      /\ Len([txs[p] EXCEPT ![i] = e]) = Len(txs[p])
      /\ \A k \in 1..Len(txs[p]) : [txs[p] EXCEPT ![i] = e][k] = IF k = i THEN e ELSE txs[p][k]
  BY <1>1, ExceptSeq
<1>3. txs'[p] = [txs[p] EXCEPT ![i] = e]
  BY <1>1 DEF Entry
<1>4. txs' \in [Relayers -> Seq(Tx)] /\ \A q \in Relayers \ {p} : txs'[q] = txs[q]
  BY <1>1, <1>2 DEF Entry
<1> QED
  BY <1>2, <1>3, <1>4 DEF Entry

\* The progress of a transaction that was not resolved.
LEMMA EntryStep ==
    ASSUME ImpInv, NEW p \in Relayers, NEW i \in 1..Len(txs[p]), NEW e \in Tx, Entry(p, i, e),
           ~txs[p][i].resolved, e.resolved => e.state \in Final,
           e.state = "mined" => beacons'[e.round] # 0,
           [Next]_vars, Onwards, clock' <= MaxTime,
           \A q \in Relayers \ {p} : job'[q] = job[q] /\ imports'[q] = imports[q],
           job' \in [Relayers -> Job], JobInv(p)'
    PROVE  ImpInv'
<1>1. /\ txs' \in [Relayers -> Seq(Tx)]
      /\ \A q \in Relayers \ {p} : txs'[q] = txs[q]
      /\ Len(txs'[p]) = Len(txs[p])
      /\ txs'[p][i] = e
      /\ \A k \in 1..Len(txs[p]) : k # i => txs'[p][k] = txs[p][k]
      /\ \A k \in 1..Len(txs[p]) :
           txs'[p][k].round = txs[p][k].round /\ txs'[p][k].kind = txs[p][k].kind
  BY EntryEffect
<1>2. /\ Ledger(p) /\ PaidOnce(p) /\ clock \in Nat /\ Len(txs[p]) <= MaxTx
      /\ \A k \in 1..Len(txs[p]) : txs[p][k] \in Tx
  BY Fields DEF TypeOK
<1>3. Ledger(p)'
  <2> SUFFICES ASSUME NEW k \in 1..Len(txs[p])
               PROVE  /\ minimumLead' # 0
                      /\ txs'[p][k].sig # 0 => roundScheduledTime(txs'[p][k].sig) <= clock'
                      /\ txs'[p][k].resolved => txs'[p][k].state \in Final
                      /\ txs'[p][k].state = "mined" =>
                           txs'[p][k].round # 0 /\ beacons'[txs'[p][k].round] # 0
    BY <1>1 DEF Ledger, Final, roundScheduledTime, isStored
  <2>1. /\ minimumLead # 0
        /\ txs[p][k].sig # 0 => roundScheduledTime(txs[p][k].sig) <= clock
        /\ txs[p][k].resolved => txs[p][k].state \in Final
        /\ txs[p][k].state = "mined" => isStored(txs[p][k].round)
    BY <1>2 DEF Ledger, Final
  <2>2. txs[p][k].round \in Rounds /\ txs[p][k].sig \in Signatures
    BY <1>2 DEF Tx
  <2>3. txs[p][k].sig # 0 => roundScheduledTime(txs[p][k].sig) \in Nat
    BY <2>2, ScheduleType, RegistryAssumption DEF Signatures, Rounds
  <2>4. txs'[p][k].sig = txs[p][k].sig /\ txs'[p][k].round = txs[p][k].round
    BY <1>1 DEF Entry
  <2>5. minimumLead' # 0 /\ (txs'[p][k].sig # 0 => roundScheduledTime(txs'[p][k].sig) <= clock')
    BY <1>2, <2>1, <2>3, <2>4 DEF Onwards
  <2>6. txs[p][k].round # 0
    BY <2>2, RegistryAssumption DEF Rounds
  <2>7. CASE k = i
    BY <1>1, <2>4, <2>5, <2>6, <2>7
  <2>8. CASE k # i
    BY <1>1, <2>1, <2>2, <2>5, <2>6, <2>8 DEF Onwards, isStored
  <2> QED
    BY <2>7, <2>8
<1>4. PaidOnce(p)'
  <2> SUFFICES ASSUME NEW m \in 1..Len(txs[p]), NEW k \in 1..Len(txs[p]), m < k,
                      txs[p][m].round = txs[p][k].round, txs[p][k].kind = "daemon"
               PROVE  txs'[p][m].resolved /\ txs'[p][m].state # "mined"
    BY <1>1 DEF PaidOnce
  <2>1. txs[p][m].resolved /\ txs[p][m].state # "mined"
    BY <1>2 DEF PaidOnce
  <2> QED
    BY <1>1, <2>1
<1> QED
  BY <1>1, <1>2, <1>3, <1>4, StepPreserves

\* The progress of a transaction that its import does not wait for.
LEMMA EntryKeepsJob ==
    ASSUME ImpInv, IInv', Onwards, NEW p \in Relayers, NEW i \in 1..Len(txs[p]), NEW e \in Tx,
           Entry(p, i, e), ~txs[p][i].resolved, job'[p] = job[p], imports'[p] = imports[p],
           txs[p][i].state = "uncertain" => job[p].phase = "done",
           job[p].phase \in {"send", "receipt"} => i # Len(txs[p]),
           job[p].phase = "confirm" => ~e.resolved
    PROVE  JobInv(p)'
<1>1. /\ Len(txs'[p]) = Len(txs[p])
      /\ txs'[p][i] = e
      /\ \A k \in 1..Len(txs[p]) : k # i => txs'[p][k] = txs[p][k]
      /\ \A k \in 1..Len(txs[p]) :
           txs'[p][k].round = txs[p][k].round /\ txs'[p][k].kind = txs[p][k].kind
  BY EntryEffect
<1>2. JobInv(p) /\ Len(txs[p]) \in Nat
  BY Fields
<1>3. job[p].phase \in {"send", "receipt", "confirm"} =>
        OwnTransaction(p) /\ Len(txs[p]) \in 1..Len(txs[p])
  BY OneRecorded
<1>4. StageIsKnown(p)'
  <2>1. job[p].phase = "receipt" => Newest(p)' = Newest(p)
    BY <1>1, <1>3 DEF Newest
  <2>2. imports[p].stage # "idle" => minimumLead' # 0
    BY <1>2 DEF JobInv, StageIsKnown, Onwards
  <2> QED
    BY <1>2, <2>1, <2>2 DEF JobInv, StageIsKnown
<1>5. CountIsKnown(p)'
  <2>1. CASE job[p].phase \in {"send", "receipt"}
    <3>1. Newest(p)' = Newest(p)
      BY <1>1, <1>3, <2>1 DEF Newest
    <3>2. OwnTransaction(p)'
      BY <1>1, <1>3, <2>1, <3>1 DEF OwnTransaction
    <3> QED
      BY <1>1, <1>2, <2>1, <3>2 DEF JobInv, CountIsKnown
  <2>2. CASE job[p].phase = "confirm"
    <3>1. imports[p].stage = "idle"
      BY <1>2, <2>2 DEF JobInv, StageIsKnown
    <3>2. /\ Newest(p)'.round = Newest(p).round /\ Newest(p)'.kind = Newest(p).kind
          /\ ~Newest(p)'.resolved
      BY <1>1, <1>3, <2>2 DEF Newest, OwnTransaction
    <3>3. OwnTransaction(p)'
      BY <1>1, <1>3, <2>2, <3>1, <3>2 DEF OwnTransaction
    <3> QED
      BY <1>1, <1>2, <2>2, <3>3 DEF JobInv, CountIsKnown
  <2>3. CASE job[p].phase \notin {"send", "receipt", "confirm"}
    <3>1. ASSUME Accounted(p) PROVE Accounted(p)'
      <4>1. job[p].before \in Nat
        BY Fields
      <4>2. Len(txs[p]) > job[p].before => Newest(p)'.kind = Newest(p).kind
        BY <1>1, <1>2, <4>1 DEF Newest
      <4> QED
        BY <1>1, <3>1, <4>2 DEF Accounted
    <3> QED
      BY <1>1, <1>2, <2>3, <3>1 DEF JobInv, CountIsKnown
  <2> QED
    BY <2>1, <2>2, <2>3
<1>6. NothingUnderWay(p)'
  <2> SUFFICES ASSUME job[p].kind = "daemon", job[p].phase \in Early, NEW k \in 1..Len(txs[p]),
                      txs[p][k].round = job[p].round
               PROVE  txs'[p][k] = txs[p][k]
    BY <1>1, <1>2 DEF JobInv, NothingUnderWay, Early
  <2>1. txs[p][k].resolved \/ txs[p][k].state = "uncertain"
    BY <1>2 DEF JobInv, NothingUnderWay, Early
  <2> QED
    BY <1>1, <2>1 DEF Early
<1> QED
  BY <1>4, <1>5, <1>6, ReadStays DEF JobInv

\* A transaction that is not over is not resolved; its next state is an entry.
LEMMA BecomeIsEntry ==
    ASSUME ImpInv, NEW p \in Relayers, NEW i \in 1..Len(txs[p]),
           txs[p][i].state \in {"uncertain", "recorded", "sent"},
           NEW s \in {"recorded", "sent", "mined", "reverted", "replaced"}, Become(p, i, s)
    PROVE  \E e \in Tx : /\ Entry(p, i, e) /\ e.state = s /\ e.round = txs[p][i].round
                         /\ e.sig = txs[p][i].sig /\ e.path = txs[p][i].path
                         /\ ~e.resolved /\ ~txs[p][i].resolved
<1>1. txs[p][i] \in Tx /\ Ledger(p) /\ txs \in [Relayers -> Seq(Tx)]
  BY Fields DEF Typed
<1>2. ~txs[p][i].resolved
  BY <1>1 DEF Ledger
<1> DEFINE e == [txs[p][i] EXCEPT !.state = s]
<1>3. e \in Tx /\ e.state = s
  BY <1>1 DEF Tx, TxState
<1>4. /\ e.round = txs[p][i].round /\ e.sig = txs[p][i].sig
      /\ e.path = txs[p][i].path /\ e.kind = txs[p][i].kind
      /\ e.resolved = txs[p][i].resolved
  BY <1>1 DEF Tx
<1>5. txs' = [txs EXCEPT ![p] = [txs[p] EXCEPT ![i] = e]]
  BY <1>1 DEF Become
<1> HIDE DEF e
<1>6. ~e.resolved
  BY <1>2, <1>4
<1>7. Entry(p, i, e)
  BY <1>4, <1>5 DEF Entry
<1> QED
  BY <1>2, <1>3, <1>4, <1>6, <1>7

LEMMA SettlePreserves ==
    ASSUME ImpInv, NEW p \in Relayers, NEW i \in 1..Len(txs[p]), Settle(p, i)
    PROVE  ImpInv' /\ [Next]_vars
<1>1. /\ txs[p][i].state = "uncertain" /\ job[p].phase = "done"
      /\ Become(p, i, "recorded") /\ UNCHANGED World /\ imports' = imports /\ job' = job
  BY DEF Settle, In
<1>2. PICK e \in Tx : Entry(p, i, e) /\ e.state = "recorded" /\ ~e.resolved /\ ~txs[p][i].resolved
  BY <1>1, BecomeIsEntry
<1>3. [Next]_vars /\ Onwards /\ clock' <= MaxTime /\ IInv'
  BY <1>1, WorldStays, NextPreserves DEF vars, World, ImpInv
<1>4. JobInv(p)'
  BY <1>1, <1>2, <1>3, EntryKeepsJob
<1>5. job' \in [Relayers -> Job]
  BY <1>1 DEF ImpInv, Typed
<1> QED
  BY <1>1, <1>2, <1>3, <1>4, <1>5, EntryStep

\* A journal without the transaction: the process that signed it is gone.
LEMMA LosePreserves ==
    ASSUME ImpInv, NEW p \in Relayers, Lose(p)
    PROVE  ImpInv' /\ [Next]_vars
<1> DEFINE n == Len(txs[p]) - 1
           s == SubSeq(txs[p], 1, n)
<1>1. /\ In(p, "done") /\ Unsaved(p) /\ txs' = [txs EXCEPT ![p] = s] /\ Step(p, NoJob)
      /\ UNCHANGED World /\ imports' = imports
  BY DEF Lose
<1>2. /\ txs[p] \in Seq(Tx) /\ Len(txs[p]) \in Nat /\ Len(txs[p]) <= MaxTx /\ JobInv(p)
      /\ Ledger(p) /\ PaidOnce(p) /\ MaxTx \in Nat /\ txs \in [Relayers -> Seq(Tx)]
  BY Fields, ImportAssumption DEF Typed
<1>3. n \in Nat /\ n <= Len(txs[p])
  BY <1>1, <1>2 DEF Unsaved
<1>4. s \in Seq(Tx) /\ Len(s) = n /\ \A i \in 1..n : s[i] = txs[p][i]
  <2>1. \A i \in 1..n : txs[p][i] \in Tx
    BY <1>2, <1>3
  <2>2. s \in Seq(Tx) /\ Len(s) = (IF 1 <= n THEN n - 1 + 1 ELSE 0)
    BY <1>3, <2>1, SubSeqProperties
  <2>3. \A i \in 1..(n - 1 + 1) : s[i] = txs[p][1 + i - 1]
    BY <1>3, <2>1, SubSeqProperties
  <2> QED
    BY <1>3, <2>2, <2>3
<1>5. /\ txs'[p] = s /\ txs' \in [Relayers -> Seq(Tx)]
      /\ \A q \in Relayers \ {p} : txs'[q] = txs[q]
  BY <1>1, <1>2, <1>4
<1> HIDE DEF s
<1>6. Len(txs'[p]) = n /\ \A i \in 1..n : i \in 1..Len(txs[p]) /\ txs'[p][i] = txs[p][i]
  BY <1>2, <1>3, <1>4, <1>5
<1> HIDE DEF n
<1>7. /\ [Next]_vars /\ Onwards /\ clock' <= MaxTime /\ clock' = clock
      /\ minimumLead' = minimumLead /\ beacons' = beacons
  BY <1>1, WorldStays DEF vars, World
<1>8. Ledger(p)' /\ PaidOnce(p)'
  BY <1>2, <1>6, <1>7 DEF Ledger, PaidOnce, roundScheduledTime, isStored
<1>9. /\ job'[p] = NoJob /\ job' \in [Relayers -> Job]
      /\ \A q \in Relayers \ {p} : job'[q] = job[q] /\ imports'[q] = imports[q]
  BY <1>1, NoJobType DEF Step, ImpInv, Typed
<1>10. NoJob.phase = "done" /\ NoJob.status = "none" /\ imports'[p].stage = "idle"
  BY <1>1, <1>2 DEF NoJob, JobInv, StageIsKnown, In
<1>11. JobInv(p)'
  BY <1>9, <1>10, Ended
<1>12. Len(txs'[p]) <= MaxTx
  BY <1>2, <1>3, <1>6
<1> QED
  BY <1>5, <1>7, <1>8, <1>9, <1>11, <1>12, StepPreserves

LEMMA ResendPreserves ==
    ASSUME ImpInv, NEW p \in Relayers, NEW i \in 1..Len(txs[p]), Resend(p, i)
    PROVE  ImpInv' /\ [Next]_vars
<1>1. /\ txs[p][i].state = "recorded" /\ (i = Len(txs[p]) => ~In(p, "send"))
      /\ Become(p, i, "sent") /\ UNCHANGED World /\ imports' = imports /\ job' = job
  BY DEF Resend
<1>2. PICK e \in Tx : Entry(p, i, e) /\ e.state = "sent" /\ ~e.resolved /\ ~txs[p][i].resolved
  BY <1>1, BecomeIsEntry
<1>3. [Next]_vars /\ Onwards /\ clock' <= MaxTime /\ IInv'
  BY <1>1, WorldStays, NextPreserves DEF vars, World, ImpInv
<1>4. job[p].phase = "receipt" => i # Len(txs[p])
  BY <1>1, OneRecorded DEF OwnTransaction, Newest
<1>5. JobInv(p)'
  BY <1>1, <1>2, <1>3, <1>4, EntryKeepsJob DEF In
<1>6. job' \in [Relayers -> Job]
  BY <1>1 DEF ImpInv, Typed
<1> QED
  BY <1>1, <1>2, <1>3, <1>5, <1>6, EntryStep

LEMMA ResolvePreserves ==
    ASSUME ImpInv, NEW p \in Relayers, NEW i \in 1..Len(txs[p]), Resolve(p, i)
    PROVE  ImpInv' /\ [Next]_vars
<1> DEFINE e == [txs[p][i] EXCEPT !.resolved = TRUE]
<1>1. /\ txs[p][i].state \in Final /\ ~txs[p][i].resolved
      /\ job[p].phase \in {"done", "submit"}
      /\ txs' = [txs EXCEPT ![p][i].resolved = TRUE]
      /\ UNCHANGED World /\ imports' = imports /\ job' = job
  BY DEF Resolve, Final
<1>2. txs[p][i] \in Tx /\ Ledger(p) /\ txs \in [Relayers -> Seq(Tx)]
  BY Fields DEF Typed
<1>3. /\ e \in Tx /\ e.round = txs[p][i].round /\ e.sig = txs[p][i].sig
      /\ e.path = txs[p][i].path /\ e.kind = txs[p][i].kind /\ e.state = txs[p][i].state
  BY <1>2 DEF Tx
<1>4. txs' = [txs EXCEPT ![p] = [txs[p] EXCEPT ![i] = e]]
  BY <1>1, <1>2
<1> HIDE DEF e
<1>5. Entry(p, i, e)
  BY <1>3, <1>4 DEF Entry
<1>6. [Next]_vars /\ Onwards /\ clock' <= MaxTime /\ IInv' /\ beacons' = beacons
  BY <1>1, WorldStays, NextPreserves DEF vars, World, ImpInv
<1>7. JobInv(p)'
  BY <1>1, <1>3, <1>5, <1>6, EntryKeepsJob DEF Final
<1>8. e.state = "mined" => beacons'[e.round] # 0
  BY <1>2, <1>3, <1>6 DEF Ledger, isStored
<1>9. job' \in [Relayers -> Job]
  BY <1>1 DEF ImpInv, Typed
<1> QED
  BY <1>1, <1>3, <1>5, <1>6, <1>7, <1>8, <1>9, EntryStep

\* The transaction an import waits for is over.
LEMMA AwaitedIsOver ==
    ASSUME ImpInv, NEW p \in Relayers, NEW i \in 1..Len(txs[p]), NEW e \in Tx, Entry(p, i, e),
           Awaited(p, i), e.state \in Final, ~e.resolved, job'[p] = job[p],
           imports'[p].stage = "idle"
    PROVE  JobInv(p)'
<1>1. /\ Len(txs'[p]) = Len(txs[p])
      /\ txs'[p][i] = e
  BY EntryEffect
<1>2. job[p].phase = "receipt" /\ i = Len(txs[p])
  BY DEF Awaited, In
<1>3. OwnTransaction(p) /\ job[p].status = "none"
  BY <1>2, OneRecorded
<1>4. Newest(p)' = e /\ e.round = Newest(p).round /\ e.kind = Newest(p).kind
  BY <1>1, <1>2 DEF Newest, Entry
<1>5. StageIsKnown(p)'
  BY <1>2, <1>4 DEF StageIsKnown, Final
<1>6. OwnTransaction(p)'
  BY <1>1, <1>2, <1>3, <1>4 DEF OwnTransaction, Final
<1>7. CountIsKnown(p)' /\ NothingUnderWay(p)' /\ ReadIsStored(p)'
  BY <1>2, <1>3, <1>6 DEF CountIsKnown, NothingUnderWay, ReadIsStored
<1> QED
  BY <1>5, <1>7 DEF JobInv

LEMMA ReplacePreserves ==
    ASSUME ImpInv, NEW p \in Relayers, NEW i \in 1..Len(txs[p]), Replace(p, i)
    PROVE  ImpInv' /\ [Next]_vars
<1>1. /\ txs[p][i].state \in {"recorded", "sent"} /\ (i = Len(txs[p]) => ~In(p, "send"))
      /\ Become(p, i, "replaced") /\ UNCHANGED World /\ job' = job
  BY DEF Replace
<1>2. PICK e \in Tx : Entry(p, i, e) /\ e.state = "replaced" /\ ~e.resolved /\ ~txs[p][i].resolved
  BY <1>1, BecomeIsEntry
<1>3. /\ [Next]_vars /\ Onwards /\ clock' <= MaxTime /\ IInv'
      /\ \A q \in Relayers \ {p} : imports'[q] = imports[q]
  <2>1. imports' = imports \/ Leave(p)
    BY DEF Replace
  <2>2. [Next]_vars /\ \A q \in Relayers \ {p} : imports'[q] = imports[q]
    BY <1>1, <2>1, LeaveIsGiveUp DEF vars, World
  <2> QED
    BY <1>1, <2>2, WorldStays, NextPreserves DEF ImpInv
<1>4. JobInv(p)'
  <2>1. CASE Awaited(p, i)
    <3>1. imports'[p].stage = "idle"
      BY <1>1, <2>1, LeaveIsGiveUp DEF Replace
    <3> QED
      BY <1>1, <1>2, <2>1, <3>1, AwaitedIsOver DEF Final
  <2>2. CASE ~Awaited(p, i)
    <3>1. imports' = imports
      BY <2>2 DEF Replace
    <3> QED
      BY <1>1, <1>2, <1>3, <2>2, <3>1, EntryKeepsJob DEF Awaited, In
  <2> QED
    BY <2>1, <2>2
<1>5. job' \in [Relayers -> Job]
  BY <1>1 DEF ImpInv, Typed
<1> QED
  BY <1>1, <1>2, <1>3, <1>4, <1>5, EntryStep

\* A transaction is executed: by itself, or as that of the import that waits for it.
LEMMA ExecutedIsSubmission ==
    ASSUME ImpInv, NEW p \in Relayers, NEW i \in 1..Len(txs[p]), txs[p][i].state = "sent",
           IF Awaited(p, i) THEN Mined(p)
           ELSE /\ Execute(txs[p][i].round, txs[p][i].sig, txs[p][i].path)
                /\ UNCHANGED <<clock, timestamp, minimumLead, lead, last, imports>>
    PROVE  /\ [Next]_vars
           /\ Execute(txs[p][i].round, txs[p][i].sig, txs[p][i].path)
           /\ UNCHANGED <<clock, minimumLead>>
           /\ \A q \in Relayers \ {p} : imports'[q] = imports[q]
           /\ ~Awaited(p, i) => imports' = imports
           /\ Awaited(p, i) => imports'[p].stage = "idle"
<1> DEFINE t == txs[p][i]
<1>1. t \in Tx /\ Ledger(p) /\ JobInv(p) /\ imports \in [Relayers -> Import]
  BY Fields DEF TypeOK
<1>2. CASE ~Awaited(p, i)
  <2>1. /\ Execute(t.round, t.sig, t.path)
        /\ UNCHANGED <<clock, timestamp, minimumLead, lead, last, imports>>
    BY <1>2
  <2>2. minimumLead # 0 /\ (t.sig # 0 => roundScheduledTime(t.sig) <= clock)
    BY <1>1 DEF Ledger
  <2>3. t.round \in Rounds /\ t.path \in Path /\ t.sig \in Signatures
    BY <1>1 DEF Tx
  <2>4. t.sig \in Known \cup {0}
    BY <2>2, <2>3, RegistryAssumption DEF Known, Rounds, Signatures
  <2> HIDE DEF t
  <2>5. Submit
    BY <2>1, <2>2, <2>3, <2>4 DEF Submit
  <2> QED
    BY <1>2, <2>1, <2>5 DEF Next, t
<1>3. CASE Awaited(p, i)
  <2>1. Mined(p) /\ job[p].phase = "receipt" /\ t = Newest(p)
    BY <1>3 DEF Awaited, In, Newest
  <2>2. Next
    BY <2>1 DEF Next
  <2>3. IInv'
    BY <2>2, NextPreserves DEF ImpInv
  <2>4. /\ imports[p].stage = "submitted" /\ imports[p].round = job[p].round
        /\ OwnTransaction(p)
    BY <1>1, <2>1, OneRecorded DEF JobInv, StageIsKnown
  <2>5. t.round = imports[p].round /\ t.sig = imports[p].sig /\ t.path = imports[p].path
    BY <2>1, <2>4 DEF OwnTransaction
  <2>6. /\ Execute(t.round, t.sig, t.path) /\ UNCHANGED <<clock, minimumLead>>
        /\ \A q \in Relayers \ {p} : imports'[q] = imports[q]
    BY <1>1, <2>1, <2>5 DEF Mined, Goto
  <2>7. imports'[p] = Idle \/ imports'[p] = [imports[p] EXCEPT !.stage = "failed"]
    BY <1>1, <2>1 DEF Mined, Goto
  <2>8. imports'[p].stage # "failed"
    BY <2>3 DEF IInv, At
  <2>9. imports'[p].stage = "idle"
    BY <1>1, <2>7, <2>8 DEF Idle, Import
  <2> QED
    BY <1>3, <2>2, <2>6, <2>9
<1> QED
  BY <1>2, <1>3

LEMMA MinePreserves ==
    ASSUME ImpInv, NEW p \in Relayers, NEW i \in 1..Len(txs[p]), Mine(p, i)
    PROVE  ImpInv' /\ [Next]_vars
<1> DEFINE t == txs[p][i]
           value == Submission(t.round, t.sig, t.path)
           s == IF value = None THEN "reverted" ELSE "mined"
<1>1. t.state = "sent" /\ Become(p, i, s) /\ job' = job
  BY DEF Mine
<1>2. /\ [Next]_vars
      /\ Execute(t.round, t.sig, t.path)
      /\ UNCHANGED <<clock, minimumLead>>
      /\ \A q \in Relayers \ {p} : imports'[q] = imports[q]
      /\ ~Awaited(p, i) => imports' = imports
      /\ Awaited(p, i) => imports'[p].stage = "idle"
  BY ExecutedIsSubmission DEF Mine
<1>3. /\ t \in Tx /\ Ledger(p) /\ TypeOK /\ OnlyAuthenticBeacons /\ Typed
  BY Fields
<1>4. t.round \in Rounds /\ t.path \in Path /\ t.sig \in Signatures
  BY <1>3 DEF Tx
<1>5. t.sig # 0 => roundScheduledTime(t.sig) <= clock
  BY <1>3 DEF Ledger
<1>6. s \in {"recorded", "sent", "mined", "reverted", "replaced"} /\ s \in Final
  BY DEF Final
<1>7. s = "mined" => value # None
  OBVIOUS
<1>8. IInv' /\ job' \in [Relayers -> Job]
  BY <1>1, <1>2, <1>3, NextPreserves DEF ImpInv, Typed
<1> HIDE DEF t, value, s
<1>9. Onwards /\ clock' <= MaxTime
  <2>1. \A r \in Rounds : isStored(r) => isStored(r)'
    BY <1>2, <1>3, <1>4, <1>5, ExecuteKeepsBeacons
  <2> QED
    BY <1>2, <1>3, <2>1 DEF Onwards, TypeOK, Typed
<1>10. s = "mined" => beacons'[t.round] # 0
  <2> SUFFICES ASSUME value # None PROVE beacons'[t.round] # 0
    BY <1>7
  <2>1. value \in Signatures \ {0}
    BY <1>3, <1>4, SubmissionValue DEF value
  <2>2. beacons' = [beacons EXCEPT ![t.round] = value]
    BY <1>2 DEF Execute, value
  <2> QED
    BY <1>3, <1>4, <2>1, <2>2 DEF TypeOK
<1>11. PICK e \in Tx : /\ Entry(p, i, e) /\ e.state = s /\ ~e.resolved /\ ~txs[p][i].resolved
                       /\ e.round = t.round
  <2>1. PICK c \in {"recorded", "sent", "mined", "reverted", "replaced"} : c = s
    BY <1>6
  <2>2. txs[p][i].state \in {"recorded", "sent"} /\ Become(p, i, c)
    BY <1>1, <2>1 DEF t
  <2> QED
    BY <2>1, <2>2, BecomeIsEntry DEF t
<1>12. JobInv(p)'
  <2>1. CASE Awaited(p, i)
    BY <1>1, <1>2, <1>6, <1>11, <2>1, AwaitedIsOver
  <2>2. CASE ~Awaited(p, i)
    <3>1. job[p].phase \in {"send", "receipt"} => i # Len(txs[p])
      BY <1>1, <2>2, OneRecorded DEF OwnTransaction, Newest, t, Awaited, In
    <3>2. txs[p][i].state # "uncertain" /\ job'[p] = job[p] /\ imports'[p] = imports[p]
      BY <1>1, <1>2, <2>2 DEF t
    <3> QED
      BY <1>8, <1>9, <1>11, <3>1, <3>2, EntryKeepsJob
  <2> QED
    BY <2>1, <2>2
<1> QED
  BY <1>1, <1>2, <1>8, <1>9, <1>10, <1>11, <1>12, EntryStep

\* The transaction of an import is sent.
LEMMA SendEntry ==
    ASSUME ImpInv, NEW p \in Relayers, In(p, "send"), Newest(p).state = "recorded",
           Become(p, Len(txs[p]), "sent")
    PROVE  \E e \in Tx : /\ Entry(p, Len(txs[p]), e) /\ e.state = "sent" /\ ~e.resolved
                         /\ ~Newest(p).resolved /\ e.round = job[p].round
                         /\ e.sig = Newest(p).sig /\ e.path = Newest(p).path
                         /\ Len(txs[p]) \in 1..Len(txs[p])
<1>1. PICK i \in 1..Len(txs[p]) : i = Len(txs[p])
  BY OneRecorded DEF In
<1>2. OwnTransaction(p) /\ txs[p][i] = Newest(p)
  BY <1>1, OneRecorded DEF In, Newest
<1>3. Newest(p).round = job[p].round
  BY <1>2 DEF OwnTransaction, In
<1>4. Become(p, i, "sent")
  BY <1>1
<1>5. PICK e \in Tx : /\ Entry(p, i, e) /\ e.state = "sent" /\ e.round = txs[p][i].round
                      /\ e.sig = txs[p][i].sig /\ e.path = txs[p][i].path
                      /\ ~e.resolved /\ ~txs[p][i].resolved
  BY <1>2, <1>4, BecomeIsEntry
<1> QED
  BY <1>1, <1>2, <1>3, <1>5

LEMMA AcknowledgedPreserves ==
    ASSUME ImpInv, NEW p \in Relayers, Acknowledged(p)
    PROVE  ImpInv' /\ [Next]_vars
<1> DEFINE j == [job[p] EXCEPT !.phase = "receipt"]
<1>1. /\ In(p, "send") /\ Newest(p).state = "recorded"
      /\ Become(p, Len(txs[p]), "sent") /\ Step(p, j)
      /\ UNCHANGED World /\ imports' = imports
  BY DEF Acknowledged, To
<1>2. PICK e \in Tx : /\ Entry(p, Len(txs[p]), e) /\ e.state = "sent" /\ ~e.resolved
                      /\ ~Newest(p).resolved /\ e.round = job[p].round
                      /\ e.sig = Newest(p).sig /\ e.path = Newest(p).path
                      /\ Len(txs[p]) \in 1..Len(txs[p])
  BY <1>1, SendEntry
<1>3. PICK i \in 1..Len(txs[p]) : i = Len(txs[p])
  BY <1>2
<1>4. /\ j \in Job /\ j.phase = "receipt" /\ j.status = job[p].status
      /\ j.round = job[p].round /\ j.before = job[p].before /\ j.kind = job[p].kind
  BY ContinueType DEF Phase
<1>5. /\ job'[p] = j /\ job' \in [Relayers -> Job]
      /\ \A q \in Relayers \ {p} : job'[q] = job[q] /\ imports'[q] = imports[q]
  BY <1>1, <1>4 DEF Step, ImpInv, Typed
<1> HIDE DEF j
<1>6. [Next]_vars /\ Onwards /\ clock' <= MaxTime /\ IInv' /\ minimumLead' = minimumLead
  BY <1>1, WorldStays, NextPreserves DEF vars, World, ImpInv
<1>7. OwnTransaction(p) /\ job[p].status = "none" /\ JobInv(p)
  BY <1>1, OneRecorded, Fields DEF In
<1>8. Len(txs'[p]) = Len(txs[p]) /\ txs'[p][i] = e /\ Entry(p, i, e)
  BY <1>2, <1>3, EntryEffect
<1>9. Newest(p)' = e
  BY <1>3, <1>8 DEF Newest
<1>10. StageIsKnown(p)'
  BY <1>1, <1>2, <1>4, <1>5, <1>6, <1>7, <1>9 DEF JobInv, StageIsKnown, In
<1>11. OwnTransaction(p)'
  BY <1>1, <1>2, <1>4, <1>5, <1>7, <1>8, <1>9 DEF OwnTransaction, Entry, Newest
<1>12. CountIsKnown(p)' /\ NothingUnderWay(p)' /\ ReadIsStored(p)'
  BY <1>4, <1>5, <1>7, <1>11 DEF CountIsKnown, NothingUnderWay, ReadIsStored
<1>13. JobInv(p)'
  BY <1>10, <1>12 DEF JobInv
<1>14. ~txs[p][i].resolved
  BY <1>2, <1>3 DEF Newest
<1> QED
  BY <1>2, <1>5, <1>6, <1>8, <1>13, <1>14, EntryStep

\* The import ends while its transaction may be with the node.
LEMMA NotAcknowledgedPreserves ==
    ASSUME ImpInv, NEW p \in Relayers, NotAcknowledged(p)
    PROVE  ImpInv' /\ [Next]_vars
<1> DEFINE j == Result(p, "pending", 0, TRUE)
<1>0. /\ In(p, "send") /\ Newest(p).state = "recorded" /\ Become(p, Len(txs[p]), "sent")
      /\ Step(p, j) /\ Leave(p) /\ UNCHANGED World
  BY DEF NotAcknowledged, EndTold
<1>1. PICK e \in Tx : /\ Entry(p, Len(txs[p]), e) /\ e.state = "sent" /\ ~e.resolved
                      /\ ~Newest(p).resolved
                      /\ Len(txs[p]) \in 1..Len(txs[p])
  BY <1>0, SendEntry
<1>2. PICK i \in 1..Len(txs[p]) : i = Len(txs[p])
  BY <1>1
<1>3. j \in Job /\ j.phase = "done" /\ j.status = "pending" /\ j.told /\ j.before = job[p].before
  <2>1. "pending" \in Status /\ 0 \in Signatures /\ TRUE \in BOOLEAN
    BY NoJobType DEF Status
  <2>2. job[p].before \in 0..MaxTx /\ job[p].round \in Rounds
    BY Fields DEF Job
  <2> QED
    BY <2>1, <2>2, NoJobType DEF Result, NoJob, Job, Phase, Status
<1>4. /\ job'[p] = j /\ job' \in [Relayers -> Job]
      /\ \A q \in Relayers \ {p} : job'[q] = job[q]
  BY <1>0, <1>3 DEF Step, ImpInv, Typed
<1> HIDE DEF j
<1>5. /\ [Next]_vars /\ Onwards /\ clock' <= MaxTime /\ imports'[p].stage = "idle"
      /\ \A q \in Relayers \ {p} : imports'[q] = imports[q]
  BY <1>0, LeaveIsGiveUp, WorldStays
<1>6. Len(txs'[p]) = Len(txs[p]) /\ Entry(p, i, e)
  BY <1>1, <1>2, EntryEffect
<1>7. Len(txs[p]) = job[p].before + 1
  BY <1>0, OneRecorded DEF In
<1>8. Accounted(p)'
  BY <1>3, <1>4, <1>6, <1>7 DEF Accounted
<1>9. JobInv(p)'
  BY <1>3, <1>4, <1>5, <1>8, Ended
<1>10. ~txs[p][i].resolved
  BY <1>1, <1>2 DEF Newest
<1> QED
  BY <1>1, <1>4, <1>5, <1>6, <1>9, <1>10, EntryStep

LEMMA PreparePreserves ==
    ASSUME ImpInv, NEW p \in Relayers, Prepare(p)
    PROVE  ImpInv' /\ [Next]_vars
<1>0. PICK s \in {"recorded", "uncertain"} :
        txs' = [txs EXCEPT ![p] = Append(@,
                  [round |-> imports[p].round, sig |-> imports[p].sig, path |-> imports[p].path,
                   kind |-> job[p].kind, state |-> s, resolved |-> FALSE])]
  BY DEF Prepare
<1> DEFINE i == imports[p]
           n == Len(txs[p])
           t == [round |-> i.round, sig |-> i.sig, path |-> i.path, kind |-> job[p].kind,
                 state |-> s, resolved |-> FALSE]
           j == [job[p] EXCEPT !.phase = "send", !.expected = i.simulated]
<1>1. /\ In(p, "submit") /\ n < MaxTx /\ txs' = [txs EXCEPT ![p] = Append(@, t)] /\ Step(p, j)
      /\ UNCHANGED World /\ imports' = imports /\ ~Unsaved(p)
  BY <1>0 DEF Prepare
<1>2. /\ job[p] \in Job /\ txs[p] \in Seq(Tx) /\ n \in Nat /\ n <= MaxTx /\ JobInv(p)
      /\ Ledger(p) /\ PaidOnce(p) /\ i \in Import /\ MaxTx \in Nat
      /\ txs \in [Relayers -> Seq(Tx)] /\ clock \in Nat
  BY Fields, ImportAssumption DEF Typed, TypeOK
<1>3. /\ i.stage = "submitted" /\ i.round = job[p].round /\ minimumLead # 0
      /\ job[p].before = n /\ job[p].status = "none"
  BY <1>1, <1>2 DEF JobInv, StageIsKnown, CountIsKnown, In
<1>4. /\ t \in Tx /\ t.round = job[p].round /\ t.sig = i.sig /\ t.path = i.path
      /\ t.kind = job[p].kind /\ t.state \in {"recorded", "uncertain"} /\ ~t.resolved
  <2>1. job[p].kind \in Kind
    BY <1>2 DEF Job
  <2> QED
    BY <1>2, <1>3, <2>1 DEF Tx, TxState, Import
<1>5. t.sig # 0 => roundScheduledTime(t.sig) <= clock
  BY <1>3, <1>4 DEF ImpInv, IInv, FetchedIsKnown
<1>6. /\ j \in Job /\ j.phase = "send" /\ j.status = job[p].status
      /\ j.round = job[p].round /\ j.before = job[p].before /\ j.kind = job[p].kind
  BY <1>2 DEF Job, Import, Phase
<1> HIDE DEF t, j
<1>7. /\ txs'[p] = Append(txs[p], t)
      /\ \A q \in Relayers \ {p} : txs'[q] = txs[q]
  BY <1>1, <1>2
<1>8. /\ txs'[p] \in Seq(Tx) /\ Len(txs'[p]) = n + 1
      /\ \A k \in 1..n : txs'[p][k] = txs[p][k]
      /\ txs'[p][n + 1] = t
  BY <1>2, <1>4, <1>7, AppendProperties
<1>9. txs' \in [Relayers -> Seq(Tx)] /\ Len(txs'[p]) <= MaxTx
  BY <1>1, <1>2, <1>7, <1>8
<1>10. /\ job'[p] = j /\ job' \in [Relayers -> Job]
       /\ \A q \in Relayers \ {p} : job'[q] = job[q] /\ imports'[q] = imports[q]
  BY <1>1, <1>6 DEF Step, ImpInv, Typed
<1>11. /\ [Next]_vars /\ Onwards /\ clock' <= MaxTime /\ clock' = clock
       /\ minimumLead' = minimumLead /\ beacons' = beacons
  BY <1>1, WorldStays DEF vars, World
<1> HIDE DEF n
<1>12. \A k \in 1..(n + 1) : k \in 1..n \/ k = n + 1
  BY <1>2
<1>13. Ledger(p)'
  <2> SUFFICES ASSUME NEW k \in 1..(n + 1)
               PROVE  /\ minimumLead # 0
                      /\ txs'[p][k].sig # 0 => roundScheduledTime(txs'[p][k].sig) <= clock
                      /\ txs'[p][k].resolved => txs'[p][k].state \in Final
                      /\ txs'[p][k].state = "mined" => isStored(txs'[p][k].round)
    BY <1>8, <1>11 DEF Ledger, Final, roundScheduledTime, isStored
  <2>1. CASE k \in 1..n
    BY <1>2, <1>8, <2>1 DEF Ledger, Final, n
  <2>2. CASE k = n + 1
    BY <1>3, <1>4, <1>5, <1>8, <2>2
  <2> QED
    BY <1>12, <2>1, <2>2
<1>14. PaidOnce(p)'
  <2> SUFFICES ASSUME NEW m \in 1..(n + 1), NEW k \in 1..(n + 1), m < k,
                      txs'[p][m].round = txs'[p][k].round, txs'[p][k].kind = "daemon"
               PROVE  txs'[p][m].resolved /\ txs'[p][m].state # "mined"
    BY <1>8 DEF PaidOnce
  <2>1. m \in 1..n
    BY <1>2
  <2>2. CASE k \in 1..n
    BY <1>2, <1>8, <2>1, <2>2 DEF PaidOnce, n
  <2>3. CASE k = n + 1
    <3>1. job[p].kind = "daemon" /\ txs[p][m].round = job[p].round
      BY <1>4, <1>8, <2>1, <2>3
    <3>2. txs[p][m].resolved /\ txs[p][m].state # "mined"
      BY <1>1, <1>2, <2>1, <3>1 DEF JobInv, NothingUnderWay, In, n, Unsaved
    <3> QED
      BY <1>8, <2>1, <3>2
  <2> QED
    BY <1>12, <2>2, <2>3
<1>15. JobInv(p)'
  <2>1. Newest(p)' = t
    BY <1>8 DEF Newest
  <2>2. StageIsKnown(p)'
    BY <1>1, <1>3, <1>6, <1>10, <1>11 DEF StageIsKnown
  <2>3. OwnTransaction(p)'
    BY <1>1, <1>3, <1>4, <1>6, <1>8, <1>10, <2>1 DEF OwnTransaction
  <2>4. CountIsKnown(p)' /\ NothingUnderWay(p)' /\ ReadIsStored(p)'
    BY <1>3, <1>6, <1>10, <2>3 DEF CountIsKnown, NothingUnderWay, ReadIsStored
  <2> QED
    BY <2>2, <2>4 DEF JobInv
<1> QED
  BY <1>7, <1>9, <1>10, <1>11, <1>13, <1>14, <1>15, StepPreserves

-----------------------------------------------------------------------------
(* The results.                                                            *)

LEMMA ImportInitEstablishes == ImportInit => ImpInv
<1> SUFFICES ASSUME ImportInit PROVE ImpInv
  OBVIOUS
<1>1. IInv /\ clock = 0 /\ MaxTime \in Nat /\ MaxTx \in Nat
  BY InitEstablishes, RegistryAssumption, ImportAssumption DEF ImportInit, Init
<1>2. \A p \in Relayers : job[p] = NoJob /\ txs[p] = <<>> /\ imports[p].stage = "idle"
  BY DEF ImportInit, Init, Idle
<1>3. NoJob.phase = "done" /\ NoJob.status = "none"
  BY DEF NoJob
<1>4. <<>> \in Seq(Tx) /\ Len(<<>>) = 0
  BY EmptySeq
<1>5. Typed
  BY <1>1, <1>4, NoJobType DEF Typed, ImportInit
<1>6. ASSUME NEW p \in Relayers PROVE Ledger(p) /\ PaidOnce(p) /\ JobInv(p)
  BY <1>2, <1>3, <1>4, <1>6
     DEF Ledger, PaidOnce, JobInv, StageIsKnown, CountIsKnown, NothingUnderWay, ReadIsStored
<1> QED
  BY <1>1, <1>5, <1>6 DEF ImpInv

\* One step: the invariant is kept, and BeaconRegistry takes a step or none.
LEMMA ImportStep == ImpInv /\ [ImportNext]_importVars => ImpInv' /\ [Next]_vars
<1> SUFFICES ASSUME ImpInv, [ImportNext]_importVars PROVE ImpInv' /\ [Next]_vars
  OBVIOUS
<1>1. CASE UNCHANGED importVars
  <2>1. UNCHANGED World /\ UNCHANGED vars /\ txs' = txs /\ job' = job /\ imports' = imports
    BY <1>1 DEF importVars, vars, World
  <2>2. [Next]_vars /\ Onwards /\ clock' <= MaxTime /\ IInv'
    BY <2>1, WorldStays, NextPreserves DEF ImpInv
  <2>3. \A q \in Relayers : Ledger(q)' /\ PaidOnce(q)' /\ JobInv(q)'
    BY <2>1, <2>2, LedgerStays, JobStays
  <2>4. Typed'
    BY <2>1, <2>2 DEF Typed, ImpInv
  <2> QED
    BY <2>2, <2>3, <2>4 DEF ImpInv
<1>2. CASE Chain
  BY <1>2, ChainPreserves
<1>3. ASSUME NEW p \in Relayers, Begin(p) \/ Proceed(p) \/ Cancel(p) \/ Crash(p) \/ Lose(p)
      PROVE  ImpInv' /\ [Next]_vars
  BY <1>3, BeginPreserves, CancelPreserves, CrashPreserves, VerifyDeploymentPreserves,
     CheckStoredPreserves, ReadStoredPreserves, WaitForRoundPreserves, WakePreserves,
     FetchBeaconPreserves, FetchFailsPreserves, SimulateSubmissionPreserves, DeferPreserves,
     PreparePreserves, AcknowledgedPreserves, NotAcknowledgedPreserves, SendFailsPreserves,
     ReceiptPreserves, ReceiptTimeoutPreserves, ConfirmPreserves, RequestFailsPreserves,
     LosePreserves
     DEF Proceed
<1>4. ASSUME NEW p \in Relayers, NEW i \in 1..Len(txs[p]),
             Settle(p, i) \/ Resend(p, i) \/ Mine(p, i) \/ Replace(p, i) \/ Resolve(p, i)
      PROVE  ImpInv' /\ [Next]_vars
  BY <1>4, SettlePreserves, ResendPreserves, MinePreserves, ReplacePreserves, ResolvePreserves
<1> QED
  BY <1>1, <1>2, <1>3, <1>4 DEF ImportNext

LEMMA ImportInvariance == ImportSpec => []ImpInv /\ [][Next]_vars
<1>1. ImportInit => ImpInv
  BY ImportInitEstablishes
<1>2. ImpInv /\ [ImportNext]_importVars => ImpInv' /\ [Next]_vars
  BY ImportStep
<1> QED
  BY <1>1, <1>2, PTL DEF ImportSpec

\* The import as the relayer carries it out, with its waits, retries, deferrals,
\* crashes, replaced and late transactions, is an import of BeaconRegistry: every
\* step fetches, simulates, has a submission executed or gives up there, or
\* changes nothing of it (importQuicknetRound).  So everything proved of
\* BeaconRegistry holds of it.
THEOREM ImportsImplementRegistry == ImportSpec => Spec
<1>1. ImportInit => Init
  BY DEF ImportInit
<1> QED
  BY <1>1, ImportInvariance, PTL DEF ImportSpec, Spec

LEMMA ImpInvImplies == ImpInv => ImportInv /\ DaemonPaysOnce
<1> SUFFICES ASSUME ImpInv PROVE ImportInv /\ DaemonPaysOnce
  OBVIOUS
<1>1. ImportTypeOK
  <2>1. TypeOK /\ job \in [Relayers -> Job]
    BY DEF ImpInv, IInv, Typed
  <2>2. \A p \in Relayers : Len(txs[p]) <= MaxTx /\ \A i \in 1..Len(txs[p]) : txs[p][i] \in Tx
    BY Fields
  <2> QED
    BY <2>1, <2>2 DEF ImportTypeOK
<1>2. SuccessIsStored
  BY DEF ImpInv, JobInv, ReadIsStored, SuccessIsStored
<1>3. TransactionsAreTold
  BY DEF ImpInv, JobInv, CountIsKnown, Accounted, TransactionsAreTold, In
<1>4. DaemonPaysOnce
  BY DEF ImpInv, PaidOnce, DaemonPaysOnce
<1> QED
  BY <1>1, <1>2, <1>3, <1>4 DEF ImportInv

\* What an import reports is what happened: success is drand's randomness of the
\* round, held by the registry; a transaction is named only if it was signed; and
\* what was signed is named, unless the process was killed or the daemon failed or
\* was stopped before it sent it (importQuicknetRound, captureSubmissionRecording).
THEOREM ReportsAreTrue == ImportSpec => []ImportInv
  BY ImportInvariance, ImpInvImplies, PTL

\* Over restarts, timeouts and late transactions, the daemon never executes a
\* transaction for a round after an earlier one of the same relayer stored it
\* (findRetainedWork before isStored, both before the transaction is prepared).
THEOREM DaemonNeverPaysTwice == ImportSpec => []DaemonPaysOnce
  BY ImportInvariance, ImpInvImplies, PTL
=============================================================================
