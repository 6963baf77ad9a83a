-------------------------- MODULE RecoveryCycleProofs --------------------------
(***************************************************************************)
(* The recovery cycle and the transaction manager: proofs that their steps *)
(* are steps of the coordinator, that the passes of one run agree, that a  *)
(* prepared attempt can be sent, and that sends are spaced, for every set  *)
(* of attempts, every chain and any number of faults.                      *)
(***************************************************************************)
EXTENDS SignerCoordinatorProofs, RecoveryCycle

(***************************************************************************)
(* The inductive invariant, beyond that of SignerCoordinatorProofs.          *)
(***************************************************************************)

Run == [phase : {"idle"} \cup CyclePhase \cup SubmitPhase,
        submit : AttemptIds \cup {None},
        anchor : Anchor \cup {None}, head : Anchor \cup {None},
        passes : Nat, result : Answers \cup {None},
        settled : BOOLEAN, reused : BOOLEAN]

RunTypeOK ==
    /\ run \in Run
    /\ run.phase = "idle" => run = Idle
    /\ retry \in [id : AttemptIds \cup {None}, due : BOOLEAN]
    /\ quiet \subseteq AttemptIds
    /\ faults \in 0..MaxFaults

\* Where a run stands says who holds the coordinator.
Free    == {"idle", "begin", "send", "gate", "prepare", "broadcast"}
Pausing == {"recover", "include", "finish", "abandon"}
Holding == Pausing \cup {"recovering", "including"}

Place ==
    /\ ~up => run.phase = "idle"
    /\ run.phase \in Free => op = None /\ owner = None
    /\ run.phase \in Pausing => op = None
    /\ run.phase \in Holding => owner # None /\ ~owner.abandoning
    /\ run.phase = "abandoning" => op = None /\ owner # None /\ owner.abandoning
    /\ run.phase \in {"retry", "preparing", "resend", "sending"} => owner = None
    /\ run.phase = "retry" => op # None /\ op.kind = "retry"
    /\ run.phase = "recovering" => op # None /\ op.kind = "recover"
    /\ run.phase = "including" => op # None /\ op.kind = "inclusions"
    /\ run.phase = "preparing" => op # None /\ op.kind = "prepare"
    /\ run.phase \in {"resend", "sending"} => op # None /\ op.kind = "broadcast"
    /\ owner # None => owner.bracket = "none"

\* A recorded inclusion consumed the nonce, as long as its block is canonical.
Consumed(a) ==
    a.phase = "included" =>
        /\ a.incl.hash <= minted
        /\ Canonical(a.incl) => chain[a.incl.num].nonce > a.nonce

\* An attempt that was never sent has no delay to wait for.
Unsent(a) == a.phase = "signed" => a.id \notin quiet

AllTrue ==
    \A s \in {disk, current, pending} : s # None =>
        \A i \in 1..Len(s.attempts) :
            Consumed(s.attempts[i]) /\ Unsent(s.attempts[i])

\* A broadcast is of the attempt it was permitted for.
Sending ==
    (op # None /\ op.kind = "broadcast") =>
        /\ op.stage = "write" => op.permit = Unresolved(pending).id
        /\ op.stage = "send" => op.permit = Unresolved(current).id

\* An attempt is due only when its delay has elapsed, and what is submitted was not
\* sent before, unless the journal has it.
Schedule ==
    /\ retry.due => retry.id \notin quiet
    /\ run.submit \in quiet =>
         /\ run.phase \in {"gate", "prepare"}
         /\ current # None
         /\ \E i \in 1..Len(current.attempts) : current.attempts[i].id = run.submit

\* The anchor of a run is a durable block, and its head is not below it.
Anchored ==
    run.phase # "idle" =>
        /\ run.anchor \in Anchor /\ run.anchor.num \in 1..durable
        /\ Canonical(run.anchor)
        /\ run.head \in Anchor /\ run.anchor.num <= run.head.num

\* At block n the released nonces are consumed, and the oldest retained one is not.
Released(s, n)   == chain[n].nonce >= s.durableNext
Unconsumed(s, n) == s.attempts # <<>> => chain[n].nonce <= s.attempts[1].nonce

\* What the passes of a run have established.
PassState ==
    /\ recovered => current # None
    /\ run.phase = "recovering" => ~recovered
    /\ run.phase \in {"begin", "retry"} => run.result = None
    /\ run.phase \in {"begin", "retry", "recover", "recovering"} => ~run.reused
    /\ (\/ run.phase = "recover"
        \/ run.phase = "recovering" /\ op.stage = "read") =>
          /\ run.passes >= 1
          /\ current # None => Len(current.attempts) <= run.passes
    /\ (run.phase = "recovering" /\ op.stage = "write") =>
          /\ Released(pending, run.anchor.num)
          /\ run.result = "resolution-available" =>
               Len(pending.attempts) < run.passes
          /\ (run.result = "unresolved" /\ run.settled) =>
               Unconsumed(pending, run.anchor.num)
    /\ run.phase = "include" =>
          /\ recovered => Released(current, run.anchor.num)
          /\ run.result = "resolution-available" =>
               current # None /\ current.attempts = <<>>
          /\ run.reused => recovered /\ Unconsumed(current, run.anchor.num)
    /\ run.phase = "including" =>
          /\ current # None
          /\ op.stage = "read" => Released(current, run.anchor.num)

\* The pass that may be reused, and what it found.
CompletedIsTrue ==
    completed # None =>
        /\ completed.anchor \in Anchor /\ completed.anchor.num \in 1..durable
        /\ Canonical(completed.anchor)
        /\ Released(completed.revision, completed.anchor.num)
        /\ Unconsumed(completed.revision, completed.anchor.num)

\* The submitted attempt in a snapshot that retains nothing else unresolved.
Ready(s) ==
    /\ s # None /\ FirstUnresolved(s.attempts) # 0
    /\ Unresolved(s).id = run.submit
    /\ Unresolved(s).phase = "signed"
    /\ Unresolved(s).search.through = None
    /\ s.lastObs.nonce = Unresolved(s).nonce
    /\ s.lastObs.nonce <= s.next

Preparing ==
    /\ run.phase = "prepare" => run.submit # None
    /\ run.phase = "preparing" =>
          /\ op.permit = run.submit /\ op.stage \in {"sign", "write"}
          /\ recovered /\ blockers = {}
          /\ op.stage = "write" => write.kind = "prepared" /\ Ready(pending)
    /\ run.phase = "broadcast" =>
          /\ CanBroadcast /\ permit = run.submit
          /\ Unresolved(current).phase = "signed"

RunState ==
    /\ RunTypeOK /\ Place /\ AllTrue /\ Sending /\ Schedule
    /\ Anchored /\ PassState /\ CompletedIsTrue /\ Preparing

CInv == AInv /\ Steps /\ RunState

-----------------------------------------------------------------------------
(* The chain, and what a pass reads from it.                               *)

\* A block with a transaction of the account consumes its nonce.
LEMMA TxConsumes ==
    ASSUME AInv, Steps, NEW k \in 1..Len(chain), chain[k].tx # None
    PROVE  chain[k].nonce = chain[k].tx.nonce + 1
<1>1. Len(chain) \in Nat
  BY ChainFacts
<1>2. k # 1
  BY DEF Steps
<1>3. k \in 2..Len(chain)
  BY <1>1, <1>2
<1>4. chain[k].tx.nonce = chain[k - 1].nonce /\ chain[k].nonce = chain[k - 1].nonce + 1
  BY <1>3 DEF Steps
<1> QED
  BY <1>4

\* A receipt is that of a block which consumed the nonce.
LEMMA ReceiptConsumes ==
    ASSUME AInv, Steps, NEW n \in 1..Len(chain), NEW served, NEW a \in Attempt,
           Receipt(a, n, served).status = "verified"
    PROVE  \E k \in 1..n : /\ Receipt(a, n, served).at = AnchorOf(k)
                          /\ chain[k].nonce = a.nonce + 1
<1> DEFINE at   == {k \in 1..Len(chain) : chain[k].tx = TxOf(a)}
           pick == CHOOSE k \in at : TRUE
<1>1. Len(chain) \in Nat
  BY ChainFacts
<1>2. served /\ at # {}
  <2>1. (~served \/ at = {}) => Receipt(a, n, served).status = "absent"
    BY DEF Receipt
  <2> QED
    BY <2>1
<1>3. pick \in at
  BY <1>2
<1>4. Receipt(a, n, served) =
        [status |-> IF pick <= n THEN "verified" ELSE "included-not-durable",
         at     |-> AnchorOf(pick)]
  BY <1>2 DEF Receipt
<1>5. pick \in 1..Len(chain) /\ chain[pick].tx = TxOf(a)
  BY <1>3
<1> HIDE DEF pick, at
<1>6. pick <= n /\ Receipt(a, n, served).at = AnchorOf(pick)
  BY <1>4
<1>7. pick \in 1..n
  BY <1>1, <1>5, <1>6
<1>8. TxOf(a) \in Tx /\ TxOf(a).nonce = a.nonce
  BY DEF TxOf, Tx, Attempt
<1>9. TxOf(a) # None
  BY <1>8, ReferenceAssumption
<1>10. chain[pick].nonce = a.nonce + 1
  BY <1>5, <1>8, <1>9, TxConsumes
<1> QED
  BY <1>6, <1>7, <1>10

\* The account nonce never falls along the chain.
LEMMA Grows ==
    ASSUME AInv, NEW i \in 1..Len(chain), NEW j \in 1..Len(chain), i <= j
    PROVE  chain[i].nonce <= chain[j].nonce /\ chain[i].nonce \in Nat
           /\ chain[j].nonce \in Nat
  BY ChainFacts DEF NoncesGrow

\* What a recovery pass answers, and what it records of the attempts.
LEMMA RecoveryStatus ==
    ASSUME ChainTypeOK, NEW n \in 1..Len(chain), NEW s \in Snapshot, NEW served
    PROVE  LET r == InspectRecovery(s, n, served)
           IN  /\ r.status \in {"nonce-behind-journal", "inconsistent-observations",
                                "no-attempt", "unresolved", "resolution-available"}
               /\ r.status # "nonce-behind-journal" => chain[n].nonce >= s.durableNext
<1> DEFINE obs      == AnchoredNonce(n)
           a        == s.attempts[1]
           receipt  == Receipt(a, n, served)
           consumed == obs.nonce > a.nonce
           found    == SearchReplacement(a, ResolvedSearch(a, s.lastObs), n)
           Result(status, search) == [status |-> status, obs |-> obs,
                               receipt |-> receipt.status, search |-> search]
<1>0. PICK r : r = InspectRecovery(s, n, served)
  OBVIOUS
<1>1. obs.nonce \in Nat /\ s.durableNext \in Nat /\ obs.nonce = chain[n].nonce
  BY ReadsAreTyped, SnapshotFields DEF AnchoredNonce
<1>2. CASE obs.nonce < s.durableNext
  <2>1. ~(obs.nonce >= s.durableNext)
    BY <1>1, <1>2
  <2>2. r = [status |-> "nonce-behind-journal", obs |-> obs,
             receipt |-> None, search |-> NoSearch]
    BY <1>0, <1>2, <2>1, Zenon DEF InspectRecovery
  <2> QED
    BY <1>0, <2>2
<1>3. CASE obs.nonce >= s.durableNext /\ s.attempts = <<>>
  <2>1. ~(obs.nonce < s.durableNext)
    BY <1>1, <1>3
  <2>2. r = [status |-> "no-attempt", obs |-> obs,
             receipt |-> None, search |-> NoSearch]
    BY <1>0, <1>3, <2>1, Zenon DEF InspectRecovery
  <2> QED
    BY <1>0, <1>1, <1>3, <2>2
<1>4. CASE obs.nonce >= s.durableNext /\ s.attempts # <<>>
  <2>1. ~(obs.nonce < s.durableNext)
    BY <1>1, <1>4
  <2>2. r = CASE receipt.status = "verified" ->
                   Result(IF consumed THEN "resolution-available"
                          ELSE "inconsistent-observations", NoSearch)
              [] receipt.status = "included-not-durable" /\ consumed ->
                   Result("inconsistent-observations", NoSearch)
              [] receipt.status # "verified" /\ ~consumed ->
                   Result("unresolved", NoSearch)
              [] receipt.status = "absent" /\ consumed ->
                   Result(IF found.status = "replacement-found"
                          THEN "resolution-available"
                          ELSE "unresolved", found)
    BY <1>0, <1>4, <2>1, Zenon DEF InspectRecovery
  <2>3. receipt.status \in {"absent", "verified", "included-not-durable"}
    BY ReceiptStatus
  <2> HIDE DEF receipt, consumed, found, obs
  <2>4. r.status \in {"inconsistent-observations", "unresolved",
                       "resolution-available"}
    BY <2>2, <2>3
  <2> QED
    BY <1>0, <1>1, <1>4, <2>4
<1> QED
  BY <1>1, <1>2, <1>3, <1>4

\* When the nonce of the oldest attempt is not consumed, a pass finds nothing.
LEMMA UnconsumedIsUnresolved ==
    ASSUME AInv, Steps, NEW n \in 1..Len(chain), NEW s \in Snapshot, NEW served,
           Released(s, n), Unconsumed(s, n)
    PROVE  LET r == InspectRecovery(s, n, served)
           IN  r.status \in {"no-attempt", "unresolved"} /\ r.search = NoSearch
<1> DEFINE obs      == AnchoredNonce(n)
           a        == s.attempts[1]
           receipt  == Receipt(a, n, served)
           consumed == obs.nonce > a.nonce
           found    == SearchReplacement(a, ResolvedSearch(a, s.lastObs), n)
           Result(status, search) == [status |-> status, obs |-> obs,
                               receipt |-> receipt.status, search |-> search]
<1>0. PICK r : r = InspectRecovery(s, n, served)
  OBVIOUS
<1>a. ChainTypeOK /\ Len(chain) \in Nat
  BY Held, ChainFacts
<1>1. obs.nonce \in Nat /\ s.durableNext \in Nat /\ obs.nonce = chain[n].nonce
  BY <1>a, ReadsAreTyped, SnapshotFields DEF AnchoredNonce
<1>2. obs.nonce >= s.durableNext /\ ~(obs.nonce < s.durableNext)
  BY <1>1 DEF Released
<1>3. CASE s.attempts = <<>>
  <2>1. r = [status |-> "no-attempt", obs |-> obs,
             receipt |-> None, search |-> NoSearch]
    BY <1>0, <1>2, <1>3, Zenon DEF InspectRecovery
  <2> QED
    BY <1>0, <2>1
<1>4. CASE s.attempts # <<>>
  <2>1. a \in Attempt /\ a.nonce \in Nat /\ obs.nonce <= a.nonce
    BY <1>1, <1>4, SnapshotFields DEF Unconsumed
  <2>2. ~consumed
    BY <1>1, <2>1
  <2>3. receipt.status # "verified"
    <3> SUFFICES ASSUME receipt.status = "verified" PROVE FALSE
      OBVIOUS
    <3>1. PICK k \in 1..n : chain[k].nonce = a.nonce + 1
      BY <2>1, ReceiptConsumes
    <3>2. k \in 1..Len(chain) /\ k <= n
      BY <1>a
    <3>3. chain[k].nonce <= chain[n].nonce
      BY <3>2, Grows
    <3>4. a.nonce + 1 <= a.nonce
      BY <1>1, <2>1, <3>1, <3>3
    <3> QED
      BY <2>1, <3>4
  <2>4. r = CASE receipt.status = "verified" ->
                   Result(IF consumed THEN "resolution-available"
                          ELSE "inconsistent-observations", NoSearch)
              [] receipt.status = "included-not-durable" /\ consumed ->
                   Result("inconsistent-observations", NoSearch)
              [] receipt.status # "verified" /\ ~consumed ->
                   Result("unresolved", NoSearch)
              [] receipt.status = "absent" /\ consumed ->
                   Result(IF found.status = "replacement-found"
                          THEN "resolution-available"
                          ELSE "unresolved", found)
    BY <1>0, <1>2, <1>4, Zenon DEF InspectRecovery
  <2> HIDE DEF receipt, consumed, found, obs
  <2>5. r = Result("unresolved", NoSearch)
    BY <2>2, <2>3, <2>4
  <2> QED
    BY <1>0, <2>5
<1> QED
  BY <1>3, <1>4

\* The same attempt, but for its search.
Same(a, b) ==
    b.id = a.id /\ b.nonce = a.nonce /\ b.phase = a.phase /\ b.incl = a.incl

\* A recovery pass releases the oldest attempt, or changes its search only.
LEMMA RecoveryRecords ==
    ASSUME AInv, NEW n \in 1..Len(chain), NEW served \in BOOLEAN,
           NEW s \in Snapshot, ValidSnapshot(s),
           NEW r, r = InspectRecovery(s, n, served), NEW t, t = RecoverySnapshot(s, r)
    PROVE  /\ t \in Snapshot /\ t # None
           /\ r.status = "resolution-available" =>
                /\ s.attempts # <<>>
                /\ t.durableNext = s.attempts[1].nonce + 1
                /\ chain[n].nonce > s.attempts[1].nonce
                /\ Len(t.attempts) = Len(s.attempts) - 1
                /\ \A i \in 1..Len(t.attempts) : t.attempts[i] = s.attempts[i + 1]
           /\ r.status # "resolution-available" =>
                /\ t.durableNext = s.durableNext
                /\ Len(t.attempts) = Len(s.attempts)
                /\ \A i \in 1..Len(s.attempts) : Same(s.attempts[i], t.attempts[i])
<1>1. ChainTypeOK
  BY Held
<1>2. /\ r.obs = AnchoredNonce(n) /\ AnchoredNonce(n).nonce = chain[n].nonce
      /\ r.status = "resolution-available" =>
           s.attempts # <<>> /\ chain[n].nonce > s.attempts[1].nonce
  BY <1>1, RecoveryAnswers DEF AnchoredNonce
<1>3. /\ t \in Snapshot /\ t # None
      /\ s.durableNext \in Nat /\ Len(s.attempts) \in Nat
      /\ s.attempts \in Seq(Attempt)
      /\ s.attempts # <<>> => 1 \in 1..Len(s.attempts) /\ s.attempts[1] \in Attempt
  BY <1>1, RecoveryKeeps, SnapshotFields, AbsentAssumption
<1>4. PICK o \in Observation : o = ObservationToKeep(s, r.obs)
  BY <1>1, <1>2, ReadsAreTyped, KeptObservation
<1>5. CASE r.status = "resolution-available"
  <2>1. t = [s EXCEPT !.lastObs = o, !.durableNext = s.attempts[1].nonce + 1,
                      !.attempts = Tail(@)]
    BY <1>2, <1>4, <1>5, Zenon DEF RecoverySnapshot
  <2>2. t.attempts = Tail(s.attempts) /\ t.durableNext = s.attempts[1].nonce + 1
    BY <2>1 DEF Snapshot
  <2>3. /\ Len(Tail(s.attempts)) = Len(s.attempts) - 1
        /\ \A i \in 1..Len(Tail(s.attempts)) : Tail(s.attempts)[i] = s.attempts[i + 1]
    BY <1>2, <1>3, <1>5, HeadTailProperties
  <2> QED
    BY <1>2, <1>3, <1>5, <2>2, <2>3
<1>6. CASE r.status # "resolution-available" /\ s.attempts = <<>>
  <2>1. t = [s EXCEPT !.lastObs = o]
    BY <1>4, <1>6, Zenon DEF RecoverySnapshot
  <2>2. t.attempts = s.attempts /\ t.durableNext = s.durableNext
    BY <2>1 DEF Snapshot
  <2> QED
    BY <1>3, <1>6, <2>2 DEF Same
<1>7. CASE r.status # "resolution-available" /\ s.attempts # <<>>
  <2> DEFINE bound  == RecordedSearch(s.attempts[1], s, o)
             found  == IF r.search.status = "not-found"
                       THEN [bound EXCEPT !.through = r.search.at] ELSE bound
  <2>0. PICK q : q = found
    OBVIOUS
  <2>1. t = [s EXCEPT !.lastObs = o, !.attempts[1].search = q]
    BY <1>4, <1>7, <2>0, Zenon DEF RecoverySnapshot
  <2>2. PICK b : b = [s.attempts[1] EXCEPT !.search = q]
    OBVIOUS
  <2>3. Same(s.attempts[1], b)
    BY <1>3, <1>7, <2>2 DEF Attempt, Same
  <2>4. t.attempts = [s.attempts EXCEPT ![1] = b] /\ t.durableNext = s.durableNext
    BY <1>3, <2>1, <2>2 DEF Snapshot
  <2>5. q \in Search \cup {None}
    BY <1>1, <1>7, <2>0, RecoverySearchIsTyped
  <2>6. b \in Attempt
    BY <1>3, <1>7, <2>2, <2>5 DEF Attempt
  <2>7. /\ Len([s.attempts EXCEPT ![1] = b]) = Len(s.attempts)
        /\ \A j \in 1..Len(s.attempts) :
             [s.attempts EXCEPT ![1] = b][j] = IF j = 1 THEN b ELSE s.attempts[j]
    BY <1>3, <1>7, <2>6, ExceptSeq
  <2>8. \A j \in 1..Len(s.attempts) : Same(s.attempts[j], t.attempts[j])
    BY <2>3, <2>4, <2>7 DEF Same
  <2> QED
    BY <1>3, <1>7, <2>4, <2>7, <2>8
<1> QED
  BY <1>5, <1>6, <1>7

-----------------------------------------------------------------------------
(* What an inclusion pass reads and records.                               *)

\* What a pass makes of an attempt: it is kept, demoted, or found in a block that
\* consumed its nonce.
Passed(a, b) ==
    /\ b.id = a.id /\ b.nonce = a.nonce
    /\ \/ b.phase = a.phase /\ b.incl = a.incl
       \/ b.phase = "broadcast-may-have-occurred"
       \/ \E k \in 1..Len(chain) :
            b.phase = "included" /\ b.incl = AnchorOf(k) /\ chain[k].nonce > a.nonce

\* What was true of an attempt is true of what a pass makes of it.
LEMMA PassedIsTrue ==
    ASSUME AInv, NEW a, NEW b, Consumed(a), Unsent(a), Passed(a, b)
    PROVE  Consumed(b) /\ Unsent(b)
<1>1. CASE b.phase = a.phase /\ b.incl = a.incl
  BY <1>1 DEF Passed, Consumed, Unsent
<1>2. CASE b.phase = "broadcast-may-have-occurred"
  BY <1>2 DEF Consumed, Unsent
<1>3. ASSUME NEW k \in 1..Len(chain), b.phase = "included", b.incl = AnchorOf(k),
             chain[k].nonce > a.nonce
      PROVE  Consumed(b) /\ Unsent(b)
  <2>1. chain[k].hash <= minted
    BY ChainFacts
  <2>2. b.incl.num = k /\ b.incl.hash = chain[k].hash
    BY <1>3 DEF AnchorOf
  <2>3. b.nonce = a.nonce
    BY DEF Passed
  <2> QED
    BY <1>3, <2>1, <2>2, <2>3 DEF Consumed, Unsent
<1> QED
  BY <1>1, <1>2, <1>3 DEF Passed

\* The receipt pass, and that what it verifies is consumed.
LEMMA InspectPasses ==
    ASSUME AInv, Steps, NEW n \in 1..Len(chain), NEW served \in BOOLEAN,
           NEW a \in Attempt, ValidAttempt(a)
    PROVE  LET k == InspectAttempt(a, n, served)
           IN  /\ Passed(a, k.attempt)
               /\ k.verified /\ Consumed(a) => chain[n].nonce > a.nonce
<1> DEFINE Passes(k) == /\ Passed(a, k.attempt)
                        /\ k.verified /\ Consumed(a) => chain[n].nonce > a.nonce
<1>0. PICK k : k = InspectAttempt(a, n, served)
  OBVIOUS
<1>1. /\ Passed(a, a) /\ n \in Nat /\ Len(chain) \in Nat /\ n <= Len(chain)
      /\ a.nonce \in Nat /\ ChainTypeOK
  BY Held, ChainFacts DEF Passed, Attempt
<1>2. ASSUME k.attempt = a \/ k.attempt = Demoted(a), ~k.verified
      PROVE  Passes(k)
  <2>1. PICK d : d = Demoted(a)
    OBVIOUS
  <2>2. Passed(a, d)
    BY <2>1 DEF Demoted, Passed, Attempt
  <2> QED
    BY <1>1, <1>2, <2>1, <2>2
<1>3. ASSUME a.phase = "included", a.seen \in Sighting, k.attempt = SeenAgain(a, n),
             a.incl.num <= n, Canonical(a.incl)
      PROVE  Passes(k)
  <2>1. PICK b : b = SeenAgain(a, n)
    OBVIOUS
  <2>2. b.id = a.id /\ b.nonce = a.nonce /\ b.phase = a.phase /\ b.incl = a.incl
    BY <1>1, <1>3, <2>1, SeenAgainIs
  <2>3. Passed(a, k.attempt)
    BY <1>3, <2>1, <2>2 DEF Passed
  <2>4. ASSUME Consumed(a) PROVE chain[n].nonce > a.nonce
    <3>1. a.incl.num \in Nat \ {0}
      BY <1>3 DEF ValidAttempt, Attempt, Anchor
    <3>2. a.incl.num \in 1..Len(chain) /\ chain[a.incl.num].nonce > a.nonce
      BY <1>1, <1>3, <2>4, <3>1 DEF Consumed
    <3>3. chain[a.incl.num].nonce <= chain[n].nonce
          /\ chain[a.incl.num].nonce \in Nat /\ chain[n].nonce \in Nat
      BY <1>3, <3>2, Grows
    <3> QED
      BY <1>1, <3>2, <3>3
  <2> QED
    BY <2>3, <2>4
<1>4. ASSUME NEW j \in 1..n, chain[j].tx = TxOf(a),
             k.attempt = Included(a, AnchorOf(j), TxOf(a), n, None)
      PROVE  Passes(k)
  <2>1. PICK at, tx, m : at = AnchorOf(j) /\ tx = TxOf(a) /\ m = None
    OBVIOUS
  <2>2. at \in Anchor /\ tx \in Tx /\ m \in Nat \cup {None} /\ tx # None
        /\ tx.nonce = a.nonce
    BY <1>1, <2>1, ReadIsCanonical, ReferenceAssumption DEF Attempt, TxOf, Tx
  <2>3. k.attempt = Included(a, at, tx, n, m)
    BY <1>4, <2>1
  <2>4. /\ k.attempt.id = a.id /\ k.attempt.nonce = a.nonce
        /\ k.attempt.phase = "included" /\ k.attempt.incl = at
    BY <1>1, <2>2, <2>3, IncludedIs
  <2>5. j \in 1..Len(chain) /\ j <= n
    BY <1>1
  <2>6. chain[j].nonce = a.nonce + 1
    BY <1>4, <2>1, <2>2, <2>5, TxConsumes
  <2>7. chain[j].nonce > a.nonce /\ chain[n].nonce > a.nonce
    <3>1. chain[j].nonce <= chain[n].nonce /\ chain[n].nonce \in Nat
      BY <2>5, Grows
    <3> QED
      BY <1>1, <2>6, <3>1
  <2> QED
    BY <2>1, <2>4, <2>5, <2>7 DEF Passed
<1>5. \/ (k.attempt = a \/ k.attempt = Demoted(a)) /\ ~k.verified
      \/ /\ a.phase = "included" /\ a.seen \in Sighting /\ k.attempt = SeenAgain(a, n)
         /\ a.incl.num <= n /\ Canonical(a.incl)
      \/ \E j \in 1..n : /\ chain[j].tx = TxOf(a)
                         /\ k.attempt = Included(a, AnchorOf(j), TxOf(a), n, None)
  BY <1>0, <1>1, InspectCases
<1>6. Passes(k)
  BY <1>2, <1>3, <1>4, <1>5
<1> QED
  BY <1>0, <1>6

\* The replacement search.
LEMMA CandidatePasses ==
    ASSUME AInv, Steps, NEW n \in 1..Len(chain), NEW lastObs \in Observation, NEW k,
           k.attempt \in Attempt, NEW a,
           k = [attempt |-> k.attempt, verified |-> k.verified,
                candidate |-> k.candidate],
           Passed(a, k.attempt)
    PROVE  Passed(a, SearchCandidate(k, lastObs, n).attempt)
<1>1. PICK f : f = SearchCandidate(k, lastObs, n)
  OBVIOUS
<1>2. ChainTypeOK /\ Len(chain) \in Nat
  BY Held, ChainFacts
<1>3. CASE f = k
  BY <1>1, <1>3
<1>4. ASSUME NEW j \in 1..n, chain[j].tx \in Tx, chain[j].tx.nonce = k.attempt.nonce,
             chain[n].nonce \in Nat,
             f.attempt = Included(k.attempt, AnchorOf(j), chain[j].tx, n, chain[n].nonce)
      PROVE  Passed(a, f.attempt)
  <2>1. PICK b, at, tx, m : /\ b = k.attempt /\ at = AnchorOf(j)
                            /\ tx = chain[j].tx /\ m = chain[n].nonce
    OBVIOUS
  <2>2. at \in Anchor /\ tx \in Tx /\ m \in Nat \cup {None} /\ b \in Attempt
    BY <1>2, <1>4, <2>1, ReadIsCanonical
  <2>3. f.attempt = Included(b, at, tx, n, m)
    BY <1>4, <2>1
  <2>4. /\ f.attempt.id = b.id /\ f.attempt.nonce = b.nonce
        /\ f.attempt.phase = "included" /\ f.attempt.incl = at
    BY <1>2, <2>2, <2>3, IncludedIs
  <2>5. j \in 1..Len(chain)
    BY <1>2
  <2>6. chain[j].nonce = b.nonce + 1 /\ b.nonce \in Nat
    BY <1>4, <2>1, <2>2, <2>5, TxConsumes, ReferenceAssumption DEF Attempt
  <2>7. chain[j].nonce > b.nonce
    BY <2>6
  <2>8. b.id = a.id /\ b.nonce = a.nonce
    BY <2>1 DEF Passed
  <2> QED
    BY <2>1, <2>4, <2>5, <2>7, <2>8 DEF Passed
<1> QED
  BY <1>1, <1>2, <1>3, <1>4, SearchCases

\* An inclusion pass, attempt by attempt; and one at a block where the released
\* nonces are consumed never contradicts what the journal has recorded.
LEMMA InclusionPasses ==
    ASSUME AInv, Steps, NEW n \in 1..Len(chain), NEW servedAt,
           NEW s \in Snapshot, ValidSnapshot(s)
    PROVE  LET r == InspectInclusions(s, n, servedAt)
           IN  /\ \A i \in 1..Len(s.attempts) : Passed(s.attempts[i], r.attempts[i])
               /\ (/\ Released(s, n)
                   /\ \A i \in 1..Len(s.attempts) : Consumed(s.attempts[i])) =>
                     r.status = "inspected"
<1> DEFINE len   == Len(s.attempts)
           seen  == [i \in 1..len |-> InspectAttempt(s.attempts[i], n, i \in servedAt)]
           final == [i \in 1..Len(seen) |-> SearchCandidate(seen[i], s.lastObs, n)]
           out   == [i \in 1..Len(final) |-> final[i].attempt]
           odd   == \E i \in 1..Len(seen) :
                        seen[i].verified /\ AnchoredNonce(n).nonce <= out[i].nonce
<1>1. /\ InspectInclusions(s, n, servedAt).attempts = out
      /\ InspectInclusions(s, n, servedAt).status =
           CASE AnchoredNonce(n).nonce < s.durableNext -> "nonce-behind-journal"
             [] AnchoredNonce(n).nonce >= s.durableNext /\ odd ->
                  "inconsistent-observations"
             [] OTHER -> "inspected"
  BY Zenon DEF InspectInclusions
<1>2. len \in Nat /\ Len(seen) = len /\ Len(final) = len /\ s.lastObs \in Observation
  BY SnapshotFields
<1>3. ChainTypeOK /\ AnchoredNonce(n).nonce = chain[n].nonce /\ chain[n].nonce \in Nat
      /\ s.durableNext \in Nat
  BY Held, ChainFacts, SnapshotFields DEF AnchoredNonce
<1>4. ASSUME NEW i \in 1..len
      PROVE  /\ Passed(s.attempts[i], out[i])
             /\ seen[i].verified /\ Consumed(s.attempts[i]) =>
                  chain[n].nonce > s.attempts[i].nonce
  <2>1. s.attempts[i] \in Attempt /\ ValidAttempt(s.attempts[i])
    BY SnapshotFields DEF ValidSnapshot
  <2>2. (i \in servedAt) \in BOOLEAN
    OBVIOUS
  <2>3. PICK k : k = InspectAttempt(s.attempts[i], n, i \in servedAt)
    OBVIOUS
  <2>4. /\ k = [attempt |-> k.attempt, verified |-> k.verified,
                candidate |-> k.candidate]
        /\ k.attempt \in Attempt
    BY <1>3, <2>1, <2>2, <2>3, InspectAttemptIsSame DEF SameTransaction
  <2>5. /\ Passed(s.attempts[i], k.attempt)
        /\ k.verified /\ Consumed(s.attempts[i]) =>
             chain[n].nonce > s.attempts[i].nonce
    BY <2>1, <2>2, <2>3, InspectPasses
  <2>6. seen[i] = k
    BY <2>3
  <2>7. out[i] = SearchCandidate(k, s.lastObs, n).attempt
    <3> HIDE DEF seen
    <3> QED
      BY <1>2, <2>6
  <2> HIDE DEF seen, final, out
  <2>8. Passed(s.attempts[i], out[i])
    BY <1>2, <2>4, <2>5, <2>7, CandidatePasses
  <2> QED
    BY <2>5, <2>6, <2>8
<1> HIDE DEF seen, final, out, odd
<1>5. ASSUME Released(s, n), \A i \in 1..len : Consumed(s.attempts[i])
      PROVE  InspectInclusions(s, n, servedAt).status = "inspected"
  <2>1. ~odd
    <3> SUFFICES ASSUME NEW i \in 1..len, seen[i].verified, chain[n].nonce <= out[i].nonce
                 PROVE  FALSE
      BY <1>2, <1>3 DEF odd
    <3>1. chain[n].nonce > s.attempts[i].nonce /\ out[i].nonce = s.attempts[i].nonce
      BY <1>4, <1>5 DEF Passed
    <3>2. s.attempts[i].nonce \in Nat
      BY SnapshotFields
    <3> QED
      BY <1>3, <3>1, <3>2
  <2>2. AnchoredNonce(n).nonce >= s.durableNext
    BY <1>3, <1>5 DEF Released
  <2>3. ~(AnchoredNonce(n).nonce < s.durableNext)
    BY <1>3, <2>2
  <2> QED
    BY <1>1, <2>1, <2>3
<1> QED
  BY <1>1, <1>4, <1>5

-----------------------------------------------------------------------------
(* The steps of the manager are steps of the coordinator.                  *)

\* The parts of the invariant.
LEMMA CParts ==
    ASSUME CInv
    PROVE  /\ AInv /\ Steps /\ TypeOK /\ FileIsKnown /\ OperationState
           /\ Revoked /\ Latch /\ Writing /\ Grounds
           /\ RunTypeOK /\ run \in Run
           /\ Place /\ AllTrue /\ Sending /\ Schedule
           /\ Anchored /\ PassState /\ CompletedIsTrue /\ Preparing
  BY Parts DEF CInv, RunState, RunTypeOK

LEMMA CycleStepsAreSteps ==
    ASSUME CInv, CycleStep
    PROVE  [Next]_vars
<1> USE CParts
<1>1. CASE RetryFirst \/ Retried
  BY <1>1 DEF RetryFirst, Retried, Next, Persistence
<1>2. CASE Reuse \/ Repass \/ Finish \/ Abandon \/ Abandoned
  BY <1>2 DEF Reuse, Repass, Finish, Abandon, Abandoned, Next, Inspection
<1>3. CASE Recover \/ PassCommits \/ PassReturns
  BY <1>3 DEF Recover, PassCommits, PassReturns, Next, Recovery
<1>4. CASE PassReads \/ PassBootstraps
  <2>1. run.anchor.num \in RecoveryAnchors
    BY <1>4 DEF PassReads, PassBootstraps, At, Anchored, RecoveryAnchors
  <2>2. RecoverInspects \/ RecoverBootstraps
    BY <1>4, <2>1 DEF PassReads, PassBootstraps, RecoverInspects, RecoverBootstraps
  <2> QED
    BY <2>2 DEF Next, Recovery
<1>5. CASE Include \/ InclusionHeadMoved \/ InclusionCommits
  BY <1>5 DEF Include, InclusionHeadMoved, InclusionCommits, Next, Inclusion
<1>6. CASE InclusionReads
  <2>1. PICK servedAt \in SUBSET (1..Len(current.attempts)) :
          InclusionsInspectAt(run.head.num, servedAt)
    BY <1>6 DEF InclusionReads
  <2>2. At("including") /\ Canonical(run.head)
    BY <1>6 DEF InclusionReads
  <2>3. run.head.num \in Nat \ {0} /\ run.head.num <= Len(chain) /\ Len(chain) \in Nat
    BY <2>2, ChainFacts DEF At, Anchored, Anchor, Canonical
  <2>4. owner # None /\ owner.bracket = "none"
    BY <2>2 DEF At, Place, Holding
  <2>5. run.head.num \in InclusionHeads
    BY <2>3, <2>4 DEF InclusionHeads
  <2>6. InclusionsInspect
    BY <2>1, <2>5 DEF InclusionsInspect, InclusionsInspectAt
  <2> QED
    BY <2>6 DEF Next, Inclusion
<1>7. CASE Resend \/ SendMarks \/ SendEnds
  BY <1>7 DEF Resend, SendMarks, SendEnds, Next, Submission
<1>8. CASE SkipInclude \/ NoResend
  BY <1>8 DEF SkipInclude, NoResend
<1> QED
  BY <1>1, <1>2, <1>3, <1>4, <1>5, <1>6, <1>7, <1>8 DEF CycleStep

LEMMA ManagerStepsAreSteps ==
    ASSUME CInv, [CycleNext]_allVars
    PROVE  [Next]_vars
<1> USE CParts
<1>1. CASE Create
  BY <1>1 DEF Create, Next, Process
<1>2. CASE BeginAny \/ Elapse
  BY <1>2 DEF BeginAny, BeginRun, Elapse
<1>3. CASE CycleStep
  BY <1>3, CycleStepsAreSteps
<1>4. CASE Report \/ Accept
  BY <1>4 DEF Report, Accept
<1>5. CASE Prepare
  <2>1. run.submit \in AttemptIds
    BY <1>5 DEF Prepare, At, Preparing, Run
  <2> QED
    BY <1>5, <2>1 DEF Prepare, PrepareBegin, Next, Submission
<1>6. CASE PrepareSigns \/ PrepareEnds \/ Broadcast
  BY <1>6 DEF PrepareSigns, PrepareEnds, Broadcast, Next, Submission
<1>7. CASE Stop
  BY <1>7 DEF Stop, Next, Process
<1>8. CASE WriteFailure
  BY <1>8 DEF WriteFailure, Next, Persistence
<1>9. CASE RequestFailure
  BY <1>9 DEF RequestFailure, Next, Recovery, Inclusion
<1>10. CASE Interrupt
  BY <1>10 DEF Interrupt
<1>11. CASE Chain
  BY <1>11 DEF Chain, Disturb, ChainNext, Next
<1>12. CASE UNCHANGED allVars
  BY <1>12 DEF allVars
<1> QED
  BY <1>1, <1>2, <1>3, <1>4, <1>5, <1>6, <1>7, <1>8, <1>9, <1>10, <1>11, <1>12
     DEF CycleNext, SubmitStep, Failure

\* So what holds of the coordinator holds on.
LEMMA CoordinatorKeeps ==
    ASSUME CInv, [CycleNext]_allVars
    PROVE  AInv' /\ Steps'
<1>1. [Next]_vars
  BY ManagerStepsAreSteps
<1>2. AInv'
  BY <1>1, CParts, AuthorityPreserves
<1>3. Steps'
  <2>1. CASE ChainNext
    BY <2>1, CParts, StepsStay
  <2>2. CASE BroadcastSend \/ UNCHANGED chainVars
    BY <2>2, CParts DEF BroadcastSend, Deliver, chainVars, Steps
  <2> QED
    BY <1>1, <2>1, <2>2, WhatMoves DEF vars, chainVars
<1> QED
  BY <1>2, <1>3

-----------------------------------------------------------------------------
(* How a run moves.                                                        *)

Phases == {"idle"} \cup CyclePhase \cup SubmitPhase
Retry  == [id : AttemptIds \cup {None}, due : BOOLEAN]

\* Every action of the manager.
LEMMA Actions ==
    ASSUME [CycleNext]_allVars
    PROVE  \/ Create \/ BeginAny \/ RetryFirst \/ Retried \/ Reuse \/ Repass
           \/ Recover \/ PassReads \/ PassBootstraps \/ PassCommits \/ PassReturns
           \/ Include \/ SkipInclude
           \/ InclusionReads \/ InclusionHeadMoved \/ InclusionCommits
           \/ Finish \/ Abandon \/ Abandoned
           \/ Resend \/ NoResend \/ SendMarks \/ SendEnds
           \/ Report \/ Accept \/ Prepare \/ PrepareSigns \/ PrepareEnds \/ Broadcast
           \/ Stop \/ WriteFailure \/ RequestFailure \/ Interrupt
           \/ Elapse \/ Chain \/ UNCHANGED allVars
  BY DEF CycleNext, CycleStep, SubmitStep, Failure

\* The next phase, with the rest of the run as it was.
LEMMA GotoMoves ==
    ASSUME run \in Run, NEW p \in Phases, Goto(p)
    PROVE  /\ run' \in Run /\ run'.phase = p
           /\ run'.submit = run.submit /\ run'.anchor = run.anchor
           /\ run'.head = run.head /\ run'.passes = run.passes
           /\ run'.result = run.result /\ run'.settled = run.settled
           /\ run'.reused = run.reused
  BY DEF Goto, Run, Phases

LEMMA IdleIs ==
    /\ Idle \in Run /\ Idle.phase = "idle" /\ Idle.submit = None
    /\ Idle.anchor = None /\ Idle.head = None /\ Idle.result = None
    /\ ~Idle.reused
  BY DEF Idle, Run

\* What an attempt's schedule may become.
LEMMA TrackedIs ==
    ASSUME NEW r \in Retry, NEW s \in Snapshot \cup {None}
    PROVE  LET t == Tracked(r, RetryAttempt(s))
           IN  /\ t \in Retry
               /\ t.due => \/ t = r
                           \/ /\ s # None
                              /\ \E i \in 1..Len(s.attempts) :
                                   /\ t.id = s.attempts[i].id
                                   /\ s.attempts[i].phase = "signed"
<1>0. PICK a : a = RetryAttempt(s)
  OBVIOUS
<1>1. NoRetry \in Retry /\ ~NoRetry.due
  BY DEF NoRetry, Retry
<1>2. CASE a = None
  BY <1>0, <1>1, <1>2 DEF Tracked
<1>3. CASE a # None
  <2>1. s # None /\ FirstUnresolved(s.attempts) # 0 /\ a = Unresolved(s)
    BY <1>0, <1>3 DEF RetryAttempt
  <2>2. PICK i \in 1..Len(s.attempts) : a = s.attempts[i]
    BY <2>1, SnapshotFields, FirstUnresolvedRange DEF Unresolved
  <2>3. a \in Attempt
    BY <2>1, <2>2, SnapshotFields
  <2>4. PICK t : t = [id |-> a.id, due |-> a.phase = "signed"]
    OBVIOUS
  <2>5. t \in Retry /\ t.id = a.id /\ (t.due <=> a.phase = "signed")
    BY <2>3, <2>4 DEF Retry, Attempt
  <2>6. Tracked(r, a) = r \/ Tracked(r, a) = t
    BY <1>3, <2>4 DEF Tracked
  <2> QED
    BY <1>0, <2>1, <2>2, <2>5, <2>6
<1> QED
  BY <1>2, <1>3

\* What the run of a step is.
LEMMA RunIsTyped ==
    ASSUME CInv, [CycleNext]_allVars
    PROVE  run' \in Run /\ (run'.phase = "idle" => run' = Idle)
<1>1. run \in Run /\ (run.phase = "idle" => run = Idle) /\ Anchored /\ Place
      /\ OperationState /\ AInv
  BY CParts DEF RunTypeOK
<1>2. CASE Create \/ InclusionReads \/ SendMarks \/ PrepareSigns \/ Elapse \/ Chain
           \/ UNCHANGED allVars
  BY <1>1, <1>2 DEF Create, InclusionReads, SendMarks, PrepareSigns, Elapse, Chain,
     allVars, cycleVars
<1>3. ASSUME NEW p \in Phases \ {"idle"}, Goto(p)
      PROVE  run' \in Run /\ (run'.phase = "idle" => run' = Idle)
  BY <1>1, <1>3, GotoMoves
<1>4. ASSUME run' = Idle
      PROVE  run' \in Run /\ (run'.phase = "idle" => run' = Idle)
  BY <1>4, IdleIs
<1>5. CASE RetryFirst \/ Retried \/ Recover \/ Include \/ SkipInclude
           \/ InclusionHeadMoved \/ InclusionCommits \/ Finish \/ Abandon
  BY <1>3, <1>5 DEF RetryFirst, Retried, Recover, Include, SkipInclude,
     InclusionHeadMoved, InclusionCommits, Finish, Abandon, Phases, CyclePhase
<1>6. CASE Resend \/ NoResend \/ Accept \/ Prepare \/ Broadcast
  BY <1>3, <1>6 DEF Resend, NoResend, Accept, Prepare, Broadcast, Phases, CyclePhase,
     SubmitPhase
<1>7. CASE Stop \/ Report \/ Abandoned
  BY <1>4, <1>7 DEF Stop, Report, Abandoned
<1>8. CASE SendEnds \/ PrepareEnds \/ WriteFailure \/ RequestFailure \/ Interrupt
  <2>1. Goto("gate") \/ Goto("broadcast") \/ Goto("abandon") \/ run' = Idle
    BY <1>8 DEF SendEnds, PrepareEnds, WriteFailure, RequestFailure, Interrupt, Throw
  <2> QED
    BY <1>3, <1>4, <2>1 DEF Phases, CyclePhase, SubmitPhase
<1>9. CASE BeginAny
  <2>0. PICK n \in 1..durable :
          \E h \in HeadsFor(n) : \E id \in AttemptIds \cup {None} : BeginRun(n, h, id)
    BY <1>9 DEF BeginAny
  <2>1. PICK h \in HeadsFor(n), id \in AttemptIds \cup {None} : BeginRun(n, h, id)
    BY <2>0
  <2>2. n \in 1..Len(chain) /\ h \in 1..Len(chain)
    BY <1>1, ChainFacts DEF HeadsFor
  <2>3. AnchorOf(n) \in Anchor /\ AnchorOf(h) \in Anchor
    BY <1>1, <2>2, ChainFacts
  <2>4. run' = [Idle EXCEPT !.phase = "begin", !.submit = id,
                            !.anchor = AnchorOf(n), !.head = AnchorOf(h)]
    BY <2>1 DEF BeginRun
  <2> QED
    BY <2>3, <2>4 DEF Idle, Run, CyclePhase
<1>10. CASE Reuse \/ PassReturns \/ PassBootstraps
  BY <1>1, <1>10 DEF Reuse, PassReturns, PassBootstraps, Answered, Run, CyclePhase,
     Answers, At
<1>11. CASE Repass
  <2>1. MaxPasses(current) \in Nat
    BY <1>1, Held, SnapshotFields DEF MaxPasses
  <2> QED
    BY <1>1, <1>11, <2>1 DEF Repass, Run, CyclePhase
<1>12. CASE PassReads
  <2>0. PICK served \in BOOLEAN :
          \E b \in BOOLEAN :
             /\ Answered(InspectRecovery(current, run.anchor.num, served).status, b)
             /\ RecoverInspectsAt(run.anchor.num, served)
    BY <1>12 DEF PassReads, Answered
  <2>1. PICK r : /\ r = InspectRecovery(current, run.anchor.num, served)
                 /\ \E b \in BOOLEAN : Answered(r.status, b)
                 /\ RecoverInspectsAt(run.anchor.num, served)
    BY <2>0
  <2>2. current # None /\ At("recovering")
    BY <1>12 DEF PassReads
  <2>3. current \in Snapshot /\ ChainTypeOK /\ run.anchor.num \in 1..Len(chain)
    BY <1>1, <2>2, Held, ChainFacts DEF At, Anchored
  <2>4. r.status \in {"nonce-behind-journal", "inconsistent-observations",
                      "no-attempt", "unresolved", "resolution-available"}
    BY <2>1, <2>3, RecoveryStatus
  <2>5. ~ReturnsEarly(current, r)
    BY <2>1 DEF RecoverInspectsAt
  <2>6. r.status \in Answers
    BY <2>4, <2>5 DEF ReturnsEarly, Answers
  <2>7. PICK b \in BOOLEAN : run' = [run EXCEPT !.result = r.status, !.settled = b]
    BY <2>1 DEF Answered
  <2>8. run' \in Run /\ run'.phase = run.phase
    BY <1>1, <2>6, <2>7 DEF Run
  <2> QED
    BY <2>2, <2>8 DEF At
<1>13. CASE PassCommits
  <2>1. CASE Goto("include")
    BY <1>3, <2>1 DEF Phases, CyclePhase
  <2>2. CASE run' = [run EXCEPT !.phase = "recover", !.passes = @ - 1]
             /\ run.passes > 1
    <3>1. run.passes \in Nat
      BY <1>1 DEF Run
    <3>2. PICK p \in Nat : p = run.passes - 1
      BY <2>2, <3>1
    <3>3. run' = [run EXCEPT !.phase = "recover", !.passes = p]
      BY <2>2, <3>2
    <3> QED
      BY <1>1, <3>3 DEF Run, CyclePhase
  <2> QED
    BY <1>13, <2>1, <2>2 DEF PassCommits
<1> QED
  BY <1>2, <1>5, <1>6, <1>7, <1>8, <1>9, <1>10, <1>11, <1>12, <1>13, Actions

\* The attempt a broadcast is of.
LEMMA SendingIs ==
    ASSUME CInv, op # None, op.kind = "broadcast", op.stage = "send"
    PROVE  /\ current # None /\ current \in Snapshot /\ ValidSnapshot(current)
           /\ pstate = "idle" /\ pending = None /\ up /\ disk = current
           /\ op.permit \in AttemptIds
           /\ \E i \in 1..Len(current.attempts) :
                current.attempts[i].id = op.permit
                /\ current.attempts[i].phase # "signed"
<1>1. Sendable(current) /\ pstate = "idle" /\ up /\ disk = current /\ pending = None
      /\ op.permit = Unresolved(current).id
  BY CParts DEF OperationState, FileIsKnown, Sending
<1>2. current # None /\ current \in Snapshot /\ ValidSnapshot(current)
  BY <1>1, CParts, Held DEF Sendable
<1>3. FirstUnresolved(current.attempts) \in 1..Len(current.attempts)
  BY <1>1, <1>2, SnapshotFields, FirstUnresolvedRange DEF Sendable
<1>4. op.permit \in AttemptIds
  BY <1>1, <1>2, PermitNamesAttempt DEF Sendable
<1> QED
  BY <1>1, <1>2, <1>3, <1>4 DEF Sendable, Unresolved

LEMMA SchedulesAreTyped ==
    ASSUME CInv, [CycleNext]_allVars
    PROVE  retry' \in Retry /\ quiet' \subseteq AttemptIds /\ faults' \in 0..MaxFaults
<1>1. /\ retry \in Retry /\ quiet \subseteq AttemptIds /\ faults \in 0..MaxFaults
      /\ current \in Snapshot \cup {None} /\ disk \in Snapshot \cup {None}
  BY CParts, Held DEF RunTypeOK, Retry, TypeOK
<1>2. current' \in Snapshot \cup {None}
  BY CoordinatorKeeps DEF AInv, ReleaseInv, IInv, TypeOK
<1>3. retry' \in Retry
  <2>1. CASE Create \/ BeginAny \/ Retried \/ Finish
    <3>1. NoRetry \in Retry
      BY DEF NoRetry, Retry
    <3>2. PICK r \in Retry, s \in Snapshot \cup {None} :
            retry' = Tracked(r, RetryAttempt(s))
      <4>1. CASE Create
        BY <1>1, <3>1, <4>1 DEF Create
      <4>2. CASE BeginAny \/ Finish
        <5>1. retry' = Tracked(retry, RetryAttempt(current))
          BY <4>2 DEF BeginAny, BeginRun, Finish
        <5> QED
          BY <1>1, <5>1
      <4>3. CASE Retried
        BY <1>1, <1>2, <4>3 DEF Retried
      <4> QED
        BY <2>1, <4>1, <4>2, <4>3
    <3> QED
      BY <3>2, TrackedIs
  <2>2. CASE Stop \/ Elapse \/ Resend
    <3>1. \/ retry' = NoRetry
          \/ retry' = [retry EXCEPT !.due = TRUE]
          \/ retry' = [retry EXCEPT !.due = FALSE]
      BY <2>2 DEF Stop, Elapse, Resend
    <3>2. NoRetry \in Retry
      BY DEF NoRetry, Retry
    <3>3. /\ [retry EXCEPT !.due = TRUE] \in Retry
          /\ [retry EXCEPT !.due = FALSE] \in Retry
      BY <1>1 DEF Retry
    <3> QED
      BY <3>1, <3>2, <3>3
  <2>3. CASE \/ RetryFirst \/ Reuse \/ Repass
             \/ Recover \/ PassReads \/ PassBootstraps \/ PassCommits \/ PassReturns
             \/ Include \/ SkipInclude
             \/ InclusionReads \/ InclusionHeadMoved \/ InclusionCommits
             \/ Abandon \/ Abandoned
    BY <1>1, <2>3 DEF RetryFirst, Reuse, Repass, Recover, PassReads, PassBootstraps,
       PassCommits, PassReturns, Include, SkipInclude, InclusionReads,
       InclusionHeadMoved, InclusionCommits, Abandon, Abandoned
  <2>4. CASE \/ NoResend \/ SendMarks \/ SendEnds
             \/ Report \/ Accept \/ Prepare \/ PrepareSigns \/ PrepareEnds \/ Broadcast
             \/ WriteFailure \/ RequestFailure \/ Interrupt
             \/ Chain \/ UNCHANGED allVars
    BY <1>1, <2>4 DEF NoResend, SendMarks, SendEnds, Report, Accept, Prepare,
       PrepareSigns, PrepareEnds, Broadcast, WriteFailure, RequestFailure, Interrupt,
       Chain, allVars, cycleVars
  <2> QED
    BY <2>1, <2>2, <2>3, <2>4, Actions
<1>4. quiet' \subseteq AttemptIds
  <2>1. CASE SendEnds
    <3>1. op # None /\ op.kind = "broadcast" /\ op.stage = "send"
      BY <2>1 DEF SendEnds, BroadcastSend, BroadcastLost
    <3>2. op.permit \in AttemptIds
      BY <3>1, SendingIs
    <3> QED
      BY <1>1, <2>1, <3>2 DEF SendEnds
  <2>2. CASE Elapse
    BY <1>1, <2>2 DEF Elapse
  <2>3. CASE \/ Create \/ BeginAny \/ RetryFirst \/ Retried \/ Reuse \/ Repass
             \/ Recover \/ PassReads \/ PassBootstraps \/ PassCommits \/ PassReturns
             \/ Include \/ SkipInclude
             \/ InclusionReads \/ InclusionHeadMoved \/ InclusionCommits
             \/ Finish \/ Abandon \/ Abandoned
    BY <1>1, <2>3 DEF Create, BeginAny, BeginRun, RetryFirst, Retried, Reuse, Repass,
       Recover, PassReads, PassBootstraps, PassCommits, PassReturns, Include,
       SkipInclude, InclusionReads, InclusionHeadMoved, InclusionCommits, Finish,
       Abandon, Abandoned
  <2>4. CASE \/ Resend \/ NoResend \/ SendMarks
             \/ Report \/ Accept \/ Prepare \/ PrepareSigns \/ PrepareEnds \/ Broadcast
             \/ Stop \/ WriteFailure \/ RequestFailure \/ Interrupt
             \/ Chain \/ UNCHANGED allVars
    BY <1>1, <2>4 DEF Resend, NoResend, SendMarks, Report, Accept, Prepare,
       PrepareSigns, PrepareEnds, Broadcast, Stop, WriteFailure, RequestFailure,
       Interrupt, Chain, allVars, cycleVars
  <2> QED
    BY <2>1, <2>2, <2>3, <2>4, Actions
<1>5. faults' \in 0..MaxFaults
  <2>1. UNCHANGED faults \/ Fault
    <3>1. CASE \/ Create \/ BeginAny \/ RetryFirst \/ Retried \/ Reuse \/ Repass
               \/ Recover \/ PassBootstraps \/ PassCommits
               \/ Include \/ SkipInclude \/ InclusionHeadMoved \/ InclusionCommits
               \/ Finish \/ Abandon \/ Abandoned
      BY <3>1 DEF Create, BeginAny, BeginRun, RetryFirst, Retried, Reuse, Repass,
         Recover, PassBootstraps, PassCommits, Include, SkipInclude,
         InclusionHeadMoved, InclusionCommits, Finish, Abandon, Abandoned
    <3>2. CASE PassReads \/ PassReturns \/ InclusionReads
      BY <3>2 DEF PassReads, PassReturns, InclusionReads, FaultUnless
    <3>3. CASE \/ Resend \/ NoResend \/ SendMarks \/ SendEnds
               \/ Report \/ Accept \/ Prepare \/ PrepareSigns \/ PrepareEnds
               \/ Broadcast
      BY <3>3 DEF Resend, NoResend, SendMarks, SendEnds, Report, Accept, Prepare,
         PrepareSigns, PrepareEnds, Broadcast, cycleVars
    <3>4. CASE \/ Stop \/ WriteFailure \/ RequestFailure \/ Interrupt
               \/ Elapse \/ Chain \/ UNCHANGED allVars
      BY <3>4 DEF Stop, WriteFailure, RequestFailure, Interrupt, Elapse, Chain,
         allVars, cycleVars
    <3> QED
      BY <3>1, <3>2, <3>3, <3>4, Actions
  <2> QED
    BY <1>1, <2>1, CycleAssumption DEF Fault
<1> QED
  BY <1>3, <1>4, <1>5

LEMMA RunTypeStays ==
    ASSUME CInv, [CycleNext]_allVars
    PROVE  RunTypeOK'
  BY RunIsTyped, SchedulesAreTyped DEF RunTypeOK, Retry

-----------------------------------------------------------------------------
(* Where a run stands, and who holds the coordinator.                      *)

\* An inspection that is not being abandoned.
Owned(o) == o # None /\ ~o.abandoning /\ o.bracket = "none"

\* The states of the coordinator that fit a phase.
LEMMA PlaceBy ==
    ASSUME up',
           \/ run'.phase \in Free /\ op' = None /\ owner' = None
           \/ run'.phase \in Pausing /\ op' = None /\ Owned(owner')
           \/ /\ run'.phase = "abandoning" /\ op' = None /\ owner' # None
              /\ owner'.abandoning /\ owner'.bracket = "none"
           \/ /\ run'.phase = "retry" /\ op' # None /\ op'.kind = "retry"
              /\ owner' = None
           \/ /\ run'.phase = "recovering" /\ op' # None /\ op'.kind = "recover"
              /\ Owned(owner')
           \/ /\ run'.phase = "including" /\ op' # None /\ op'.kind = "inclusions"
              /\ Owned(owner')
           \/ /\ run'.phase = "preparing" /\ op' # None /\ op'.kind = "prepare"
              /\ owner' = None
           \/ /\ run'.phase \in {"resend", "sending"} /\ op' # None
              /\ op'.kind = "broadcast" /\ owner' = None
    PROVE  Place'
  BY DEF Place, Free, Pausing, Holding, Owned

\* What the place of a run says of the coordinator.
LEMMA PlaceIs ==
    ASSUME CInv
    PROVE  /\ run.phase \in Free => op = None /\ owner = None
           /\ run.phase \in Pausing => op = None /\ Owned(owner)
           /\ run.phase \in {"recovering", "including"} => op # None /\ Owned(owner)
           /\ run.phase \in {"retry", "preparing", "resend", "sending"} =>
                op # None /\ owner = None
           /\ run.phase \in Phases
           /\ op \in Op \cup {None} /\ owner \in Owner \cup {None}
           /\ op # None => op \in Op
           /\ owner # None => owner \in Owner /\ owner.bracket = "none"
           /\ ~up => run.phase = "idle"
<1>1. Place /\ run \in Run /\ TypeOK
  BY CParts
<1> QED
  BY <1>1 DEF Place, Free, Pausing, Holding, Owned, Run, Phases, TypeOK

LEMMA PlaceStays ==
    ASSUME CInv, [CycleNext]_allVars
    PROVE  Place'
<1>1. run \in Run /\ (run.phase = "idle" => run = Idle) /\ Place
      /\ OperationState /\ FileIsKnown
  BY CParts DEF RunTypeOK
<1>2. ASSUME NEW p \in Phases, Goto(p) PROVE run'.phase = p
  BY <1>1, <1>2, GotoMoves
<1>3. Idle.phase = "idle"
  BY IdleIs
<1>4. owner # None => FailBracket(owner) = owner
  BY PlaceIs DEF FailBracket
<1> USE DEF Phases, CyclePhase, SubmitPhase, Free, Pausing, At
<1>5. CASE BeginAny \/ NoResend \/ Report \/ Accept
  <2>1. up /\ up' = up /\ op' = op /\ owner' = owner /\ run.phase \in Free
    BY <1>5 DEF BeginAny, BeginRun, NoResend, Report, Accept, vars, memVars
  <2>2. CASE BeginAny
    <3>1. \E x, y, z : run' = [Idle EXCEPT !.phase = "begin", !.submit = x,
                                           !.anchor = y, !.head = z]
      BY <2>2 DEF BeginAny, BeginRun
    <3>2. run'.phase = "begin"
      BY <3>1 DEF Idle
    <3> QED
      BY <2>1, <3>2, PlaceIs, PlaceBy
  <2>3. CASE NoResend
    BY <1>2, <2>1, <2>3, PlaceIs, PlaceBy DEF NoResend
  <2>4. CASE Report
    BY <1>3, <2>1, <2>4, PlaceIs, PlaceBy DEF Report
  <2>5. CASE Accept
    BY <1>2, <2>1, <2>5, PlaceIs, PlaceBy DEF Accept
  <2> QED
    BY <1>5, <2>2, <2>3, <2>4, <2>5
<1>6. CASE Interrupt
  <2>1. up /\ up' = up /\ op' = op /\ owner' = owner /\ Throw
        /\ run.phase \in {"begin", "recover", "include", "finish",
                          "gate", "prepare", "broadcast"}
    BY <1>6 DEF Interrupt, vars, memVars
  <2>2. CASE owner # None
    <3>1. run'.phase = "abandon"
      BY <1>2, <2>1, <2>2 DEF Throw
    <3> QED
      BY <2>1, <2>2, <3>1, PlaceIs, PlaceBy
  <2>3. CASE owner = None
    <3>1. run'.phase = "idle"
      BY <1>3, <2>1, <2>3 DEF Throw
    <3> QED
      BY <2>1, <2>3, <3>1, PlaceIs, PlaceBy DEF Owned
  <2> QED
    BY <2>2, <2>3
<1>7. CASE SkipInclude
  <2>1. up /\ up' = up /\ op' = op /\ owner' = owner /\ run.phase = "include"
        /\ run'.phase = "finish"
    BY <1>2, <1>7 DEF SkipInclude, vars, memVars
  <2> QED
    BY <2>1, PlaceIs, PlaceBy
<1>8. CASE Create
  BY <1>8, PlaceIs, PlaceBy DEF Create, Start
<1>9. CASE Stop
  BY <1>3, <1>9 DEF Stop, Crash, Down, Place, Holding
<1>10. CASE RetryFirst \/ Retried
  <2>1. up /\ up' = up /\ owner' = owner /\ run.phase \in {"begin", "retry"}
    BY <1>10 DEF RetryFirst, Retried, RetryPersistence, RetryCommits
  <2>2. CASE RetryFirst
    <3>1. op' # None /\ op'.kind = "retry"
      BY <2>2, BeginIsTyped DEF RetryFirst, RetryPersistence, OpKind, OpStage
    <3>2. run'.phase = "retry"
      BY <1>2, <2>2 DEF RetryFirst
    <3> QED
      BY <2>1, <2>2, <3>1, <3>2, PlaceIs, PlaceBy DEF RetryFirst
  <2>3. CASE Retried
    <3>1. op' = None /\ run'.phase = "begin"
      BY <1>2, <2>3 DEF Retried, RetryCommits
    <3> QED
      BY <2>1, <2>3, <3>1, PlaceIs, PlaceBy DEF Retried
  <2> QED
    BY <1>10, <2>2, <2>3
<1>11. CASE Reuse \/ Repass
  <2>1. BeginInspection /\ run.phase = "begin"
    BY <1>11 DEF Reuse, Repass
  <2>2. up' /\ op' = op
    BY <2>1 DEF BeginInspection, Available
  <2>3. owner' \in Owner /\ ~owner'.abandoning /\ owner'.bracket = "none"
    BY <2>1 DEF BeginInspection, Owner
  <2>4. run'.phase \in {"include", "recover"}
    BY <1>1, <1>11 DEF Reuse, Repass, Run
  <2> QED
    BY <2>1, <2>2, <2>3, <2>4, PlaceIs, PlaceBy, AbsentAssumption DEF Owned
<1>12. CASE Recover \/ Include
  <2>1. run.phase \in {"recover", "include"} /\ up' /\ owner' = [owner EXCEPT !.ran = TRUE]
    BY <1>12 DEF Recover, Include, RecoverBegin, InclusionsBegin, WorkAllowed,
       OwnerAvailable
  <2>2. owner \in Owner /\ Owned(owner)
    BY <2>1, PlaceIs DEF Owned
  <2>3. owner' \in Owner /\ ~owner'.abandoning /\ owner'.bracket = "none"
    BY <2>1, <2>2 DEF Owner, Owned
  <2>4. Owned(owner')
    BY <2>3, AbsentAssumption DEF Owned
  <2>5. CASE Recover
    <3>1. op' # None /\ op'.kind = "recover"
      BY <2>5, BeginIsTyped DEF Recover, RecoverBegin, OpKind, OpStage
    <3>2. run'.phase = "recovering"
      BY <1>2, <2>5 DEF Recover
    <3> QED
      BY <2>1, <2>4, <3>1, <3>2, PlaceBy
  <2>6. CASE Include
    <3>1. op' # None /\ op'.kind = "inclusions"
      BY <2>6, BeginIsTyped DEF Include, InclusionsBegin, OpKind, OpStage
    <3>2. run'.phase = "including"
      BY <1>2, <2>6 DEF Include
    <3> QED
      BY <2>1, <2>4, <3>1, <3>2, PlaceBy
  <2> QED
    BY <1>12, <2>5, <2>6
<1>13. CASE PassReads \/ PassBootstraps \/ InclusionReads
  <2>1. up /\ up' = up /\ owner' = owner /\ op # None
    BY <1>13 DEF PassReads, PassBootstraps, InclusionReads, RecoverInspectsAt,
       RecoverBootstrapsAt, InclusionsInspectAt, Reading
  <2>2. op \in Op
    BY <2>1, PlaceIs
  <2>3. op' # None /\ op'.kind = op.kind
    <3>1. \/ op' = [op EXCEPT !.stage = "write"]
          \/ \E x : op' = [op EXCEPT !.stage = "write", !.permit = x]
          \/ \E x, y : op' = [op EXCEPT !.stage = "write", !.permit = x,
                                        !.complete = y]
      BY <1>13 DEF PassReads, PassBootstraps, InclusionReads, RecoverInspectsAt,
         RecoverBootstrapsAt, InclusionsInspectAt
    <3>2. op'.kind = op.kind
      BY <2>2, <3>1 DEF Op
    <3>3. op' # None
      BY CoordinatorKeeps, <1>13, <2>1 DEF AInv, ReleaseInv, IInv, FileIsKnown,
         PassReads, PassBootstraps, InclusionReads, RecoverInspectsAt,
         RecoverBootstrapsAt, InclusionsInspectAt, Save
    <3> QED
      BY <3>2, <3>3
  <2>4. run.phase \in {"recovering", "including"} /\ run'.phase = run.phase
    BY <1>1, <1>13 DEF PassReads, PassBootstraps, InclusionReads, Answered, Run
  <2> QED
    BY <1>1, <2>1, <2>3, <2>4, PlaceIs, PlaceBy DEF Place
<1>14. CASE PassCommits \/ PassReturns
  <2>1. /\ run.phase = "recovering" /\ up' /\ op' = None /\ owner' \in {owner, FailBracket(owner)}
    BY <1>14 DEF PassCommits, PassReturns, RecoverCommits, RecoverGivesUp, Reading
  <2>2. run'.phase \in {"recover", "include"}
    BY <1>1, <1>2, <1>14 DEF PassCommits, PassReturns, Run
  <2> QED
    BY <1>4, <2>1, <2>2, PlaceIs, PlaceBy DEF Owned
<1>15. CASE InclusionHeadMoved \/ InclusionCommits
  <2>1. run.phase = "including" /\ up' /\ op' = None
    BY <1>15 DEF InclusionHeadMoved, InclusionCommits, InclusionsGiveUp, Reading,
       InclusionsCommit
  <2>2. owner' = owner
    BY <1>4, <1>15, <2>1, PlaceIs DEF InclusionHeadMoved, InclusionCommits, Owned,
       InclusionsGiveUp, InclusionsCommit
  <2>3. run'.phase = "finish"
    BY <1>2, <1>15 DEF InclusionHeadMoved, InclusionCommits
  <2> QED
    BY <2>1, <2>2, <2>3, PlaceIs, PlaceBy
<1>16. CASE Finish \/ Abandoned
  <2>1. up' /\ op' = None /\ owner' = None
    BY <1>16 DEF Finish, Abandoned, FinishInspection, OwnerAvailable,
       CompleteAbandonment
  <2>2. run'.phase \in {"send", "idle"}
    BY <1>2, <1>3, <1>16 DEF Finish, Abandoned
  <2> QED
    BY <2>1, <2>2, PlaceBy
<1>17. CASE Abandon
  <2>1. /\ run.phase = "abandon" /\ run'.phase = "abandoning" /\ up' /\ op' = op
        /\ owner # None /\ owner' = [owner EXCEPT !.abandoning = TRUE]
    BY <1>2, <1>17 DEF Abandon, AbandonInspection
  <2>2. owner \in Owner /\ owner.bracket = "none" /\ op = None
    BY <2>1, PlaceIs
  <2>3. owner' \in Owner /\ owner'.abandoning /\ owner'.bracket = "none"
    BY <2>1, <2>2 DEF Owner
  <2> QED
    BY <2>1, <2>2, <2>3, PlaceBy, AbsentAssumption
<1>18. CASE Resend \/ Broadcast
  <2>1. BroadcastBegin /\ run.phase \in Free /\ run'.phase \in {"resend", "sending"}
    BY <1>2, <1>18 DEF Resend, Broadcast
  <2>2. up' /\ owner' = owner /\ op'.kind = "broadcast"
    BY <2>1 DEF BroadcastBegin, CanBroadcast
  <2>3. op' # None
    <3>1. op' \in Op
      <4>1. PICK i : i = FirstUnresolved(current.attempts)
        OBVIOUS
      <4>2. current.attempts[i].id \in AttemptIds
        BY <2>1, <4>1, CParts, Held, PermitNamesAttempt
           DEF BroadcastBegin, CanBroadcast, Unresolved, TypeOK
      <4>3. op' = [kind |-> "broadcast",
                   stage |-> IF NeedsMark(current.attempts[i]) THEN "write" ELSE "send",
                   permit |-> current.attempts[i].id, complete |-> FALSE]
        BY <2>1, <4>1 DEF BroadcastBegin
      <4> QED
        BY <4>2, <4>3 DEF Op, OpKind, OpStage
    <3> QED
      BY <3>1, AbsentAssumption
  <2> QED
    BY <2>1, <2>2, <2>3, PlaceIs, PlaceBy
<1>19. CASE SendMarks \/ PrepareSigns
  <2>1. /\ op # None /\ up' /\ owner' = owner /\ run' = run
        /\ run.phase \in {"resend", "sending", "preparing"}
    <3>1. CASE SendMarks
      BY <3>1 DEF SendMarks, BroadcastMarked, cycleVars
    <3>2. CASE PrepareSigns
      <4>1. op # None /\ up /\ UNCHANGED <<up, owner>>
        BY <3>2, Zenon DEF PrepareSigns, PrepareSigned
      <4>2. run' = run /\ run.phase = "preparing"
        BY <3>2 DEF PrepareSigns, cycleVars
      <4> QED
        BY <4>1, <4>2
    <3> QED
      BY <1>19, <3>1, <3>2
  <2>2. op' = [op EXCEPT !.stage = "send"] \/ op' = [op EXCEPT !.stage = "write"]
    <3>1. CASE SendMarks
      BY <3>1 DEF SendMarks, BroadcastMarked
    <3>2. CASE PrepareSigns
      BY <3>2, Zenon DEF PrepareSigns, PrepareSigned
    <3> QED
      BY <1>19, <3>1, <3>2
  <2>3. op \in Op
    BY <2>1, PlaceIs
  <2>4. /\ [op EXCEPT !.stage = "send"] \in Op
        /\ [op EXCEPT !.stage = "write"] \in Op
        /\ [op EXCEPT !.stage = "send"].kind = op.kind
        /\ [op EXCEPT !.stage = "write"].kind = op.kind
    BY <2>3 DEF Op, OpStage
  <2>5. op' # None /\ op'.kind = op.kind
    BY <2>2, <2>4, AbsentAssumption
  <2> QED
    BY <1>1, <2>1, <2>5, PlaceIs, PlaceBy DEF Place
<1>20. CASE SendEnds \/ PrepareEnds
  <2>1. up' /\ op' = None /\ owner' = owner
        /\ run.phase \in {"resend", "sending", "preparing"}
    BY <1>20 DEF SendEnds, PrepareEnds, BroadcastSend, BroadcastLost, PrepareCommits,
       PrepareRefused
  <2>2. run'.phase \in {"gate", "idle", "broadcast"}
    BY <1>2, <1>3, <1>20 DEF SendEnds, PrepareEnds
  <2> QED
    BY <2>1, <2>2, PlaceIs, PlaceBy
<1>21. CASE Prepare
  <2>1. /\ run.phase = "prepare" /\ run'.phase = "preparing" /\ up' /\ owner' = owner
        /\ op' = [kind |-> "prepare", stage |-> "sign", permit |-> run.submit,
                  complete |-> FALSE]
    BY <1>2, <1>21 DEF Prepare, PrepareBeginFor, GateOpen
  <2>2. run.submit \in AttemptIds
    BY <1>1, <2>1, CParts DEF Preparing, Run
  <2>3. op' \in Op
    BY <2>1, <2>2 DEF Op, OpKind, OpStage
  <2> QED
    BY <2>1, <2>3, PlaceIs, PlaceBy, AbsentAssumption
<1>22. CASE WriteFailure \/ RequestFailure
  <2>1. /\ op # None /\ up' /\ op' = None /\ owner' \in {owner, FailBracket(owner)}
        /\ Throw
    BY <1>1, <1>22 DEF WriteFailure, RequestFailure, WriteFails, RecoverGivesUp,
       InclusionsGiveUp, Reading, FileIsKnown
  <2>2. owner' = owner
    BY <1>4, <2>1, PlaceIs DEF FailBracket
  <2>3. CASE owner = None
    BY <1>3, <2>1, <2>2, <2>3, PlaceBy DEF Throw
  <2>4. CASE owner # None
    <3>1. run'.phase = "abandon"
      BY <1>2, <2>1, <2>4 DEF Throw
    <3>2. run.phase \in {"recovering", "including"}
      BY <1>1, <2>1, <2>4, PlaceIs DEF Place
    <3> QED
      BY <2>1, <2>2, <3>1, <3>2, PlaceIs, PlaceBy
  <2> QED
    BY <2>3, <2>4
<1>23. CASE Elapse \/ Chain \/ UNCHANGED allVars
  <2>1. UNCHANGED <<up, op, owner, run>>
    BY <1>23 DEF Elapse, Chain, allVars, vars, memVars, cycleVars
  <2> QED
    BY <1>1, <2>1 DEF Place, Holding
<1> QED
  BY <1>5, <1>6, <1>7, <1>8, <1>9, <1>10, <1>11, <1>12, <1>13, <1>14, <1>15, <1>16,
     <1>17, <1>18, <1>19, <1>20, <1>21, <1>22, <1>23, Actions

-----------------------------------------------------------------------------
(* What the journal says of its attempts.                                  *)

\* Steps that write a new snapshot.
Writes == \/ PassReads \/ PassBootstraps \/ InclusionReads
          \/ PrepareSigns \/ Resend \/ Broadcast

\* Every other step leaves the journal, acknowledges it or loses it.
LEMMA JournalMoves ==
    ASSUME [CycleNext]_allVars
    PROVE  \/ Writes
           \/ /\ disk' \in {disk, pending} /\ current' \in {current, disk, pending, None}
              /\ pending' \in {pending, None}
<1>1. CASE \/ BeginAny \/ Reuse \/ Repass \/ Recover \/ PassReturns \/ Include
           \/ SkipInclude \/ InclusionHeadMoved \/ Finish \/ Abandon \/ Abandoned
  BY <1>1 DEF BeginAny, BeginRun, Reuse, Repass, Recover, PassReturns, Include,
     SkipInclude, InclusionHeadMoved, Finish, Abandon, Abandoned, BeginInspection,
     RecoverBegin, RecoverGivesUp, InclusionsBegin, InclusionsGiveUp,
     FinishInspection, AbandonInspection, CompleteAbandonment, vars, memVars
<1>2. CASE \/ NoResend \/ SendEnds \/ Report \/ Accept \/ Prepare
           \/ RequestFailure \/ Interrupt \/ Elapse \/ Chain \/ UNCHANGED allVars
  BY <1>2 DEF NoResend, SendEnds, Report, Accept, Prepare, RequestFailure, Interrupt,
     Elapse, Chain, BroadcastSend, BroadcastLost, PrepareBeginFor, RecoverGivesUp,
     InclusionsGiveUp, allVars, vars, memVars
<1>3. CASE Create \/ Stop
  BY <1>3 DEF Create, Stop, Start, Crash, Down
<1>4. CASE RetryFirst \/ WriteFailure
  BY <1>4 DEF RetryFirst, WriteFailure, RetryPersistence, WriteFails
<1>5. CASE Retried \/ PassCommits \/ InclusionCommits \/ SendMarks
  BY <1>5 DEF Retried, PassCommits, InclusionCommits, SendMarks, RetryCommits,
     RecoverCommits, InclusionsCommit, BroadcastMarked, Committed
<1>6. CASE PrepareEnds
  BY <1>6 DEF PrepareEnds, PrepareCommits, PrepareRefused, Committed
<1> QED
  BY <1>1, <1>2, <1>3, <1>4, <1>5, <1>6, Actions DEF Writes

\* Only a step of the chain moves it.
LEMMA ChainStands ==
    ASSUME [CycleNext]_allVars
    PROVE  Chain \/ UNCHANGED <<chain, minted, durable>>
<1>1. CASE \/ Create \/ BeginAny \/ RetryFirst \/ Retried \/ Reuse \/ Repass \/ Recover
           \/ PassCommits \/ PassReturns \/ Include \/ SkipInclude
  BY <1>1 DEF Create, BeginAny, BeginRun, RetryFirst, Retried, Reuse, Repass, Recover,
     PassCommits, PassReturns, Include, SkipInclude, Start, RetryPersistence,
     RetryCommits, BeginInspection, RecoverBegin, RecoverCommits, RecoverGivesUp,
     InclusionsBegin, vars, chainVars
<1>2. CASE \/ PassReads \/ PassBootstraps \/ InclusionReads
  BY <1>2 DEF PassReads, PassBootstraps, InclusionReads, RecoverInspectsAt,
     RecoverBootstrapsAt, InclusionsInspectAt, chainVars
<1>3. CASE \/ InclusionHeadMoved \/ InclusionCommits \/ Finish \/ Abandon \/ Abandoned
           \/ Resend \/ NoResend \/ SendMarks \/ SendEnds
  BY <1>3 DEF InclusionHeadMoved, InclusionCommits, Finish, Abandon, Abandoned,
     Resend, NoResend, SendMarks, SendEnds, InclusionsGiveUp, InclusionsCommit,
     FinishInspection, AbandonInspection, CompleteAbandonment, BroadcastBegin,
     BroadcastMarked, BroadcastSend, BroadcastLost, Deliver, vars, chainVars
<1>4. CASE \/ Report \/ Accept \/ Prepare \/ PrepareSigns \/ PrepareEnds \/ Broadcast
  BY <1>4 DEF Report, Accept, Prepare, PrepareSigns, PrepareEnds, Broadcast,
     PrepareBeginFor, PrepareSigned, PrepareCommits, PrepareRefused, BroadcastBegin,
     vars, chainVars
<1>5. CASE \/ Stop \/ WriteFailure \/ RequestFailure \/ Interrupt \/ Elapse
           \/ UNCHANGED allVars
  BY <1>5 DEF Stop, WriteFailure, RequestFailure, Interrupt, Elapse, Crash, WriteFails,
     RecoverGivesUp, InclusionsGiveUp, allVars, vars, chainVars
<1> QED
  BY <1>1, <1>2, <1>3, <1>4, <1>5, Actions

\* The delays that run after a step.
LEMMA QuietMoves ==
    ASSUME [CycleNext]_allVars
    PROVE  SendEnds \/ quiet' \subseteq quiet
<1>1. CASE \/ Create \/ BeginAny \/ RetryFirst \/ Retried \/ Reuse \/ Repass
           \/ Recover \/ PassReads \/ PassBootstraps \/ PassCommits \/ PassReturns
           \/ Include \/ SkipInclude \/ Elapse
           \/ InclusionReads \/ InclusionHeadMoved \/ InclusionCommits
           \/ Finish \/ Abandon \/ Abandoned
  BY <1>1 DEF Create, BeginAny, BeginRun, RetryFirst, Retried, Reuse, Repass,
     Recover, PassReads, PassBootstraps, PassCommits, PassReturns, Include,
     SkipInclude, Elapse, InclusionReads, InclusionHeadMoved, InclusionCommits,
     Finish, Abandon, Abandoned
<1>2. CASE \/ Resend \/ NoResend \/ SendMarks
           \/ Report \/ Accept \/ Prepare \/ PrepareSigns \/ PrepareEnds \/ Broadcast
           \/ Stop \/ WriteFailure \/ RequestFailure \/ Interrupt
           \/ Chain \/ UNCHANGED allVars
  BY <1>2 DEF Resend, NoResend, SendMarks, Report, Accept, Prepare, PrepareSigns,
     PrepareEnds, Broadcast, Stop, WriteFailure, RequestFailure, Interrupt, Chain,
     allVars, cycleVars
<1> QED
  BY <1>1, <1>2, Actions

Truthful(s) == \A i \in 1..Len(s.attempts) : Consumed(s.attempts[i]) /\ Unsent(s.attempts[i])

LEMMA TruthStands ==
    ASSUME AllTrue, UNCHANGED <<chain, minted>>, quiet' \subseteq quiet,
           disk' \in {disk, pending}, current' \in {current, disk, pending, None},
           pending' \in {pending, None}
    PROVE  AllTrue'
<1>1. \A a : (Consumed(a) => Consumed(a)') /\ (Unsent(a) => Unsent(a)')
  BY DEF Consumed, Unsent, Canonical
<1>2. {disk, current, pending}' \subseteq {disk, current, pending, None}
  OBVIOUS
<1> QED
  BY <1>1, <1>2 DEF AllTrue

LEMMA TruthIsWritten ==
    ASSUME AllTrue, UNCHANGED <<chain, minted, disk, current>>, quiet' \subseteq quiet,
           NEW t, pending' = t, Truthful(t)
    PROVE  AllTrue'
<1>1. \A a : (Consumed(a) => Consumed(a)') /\ (Unsent(a) => Unsent(a)')
  BY DEF Consumed, Unsent, Canonical
<1>2. \A s \in {disk, current, t} : s # None => Truthful(s)
  BY DEF AllTrue, Truthful
<1>3. {disk, current, pending}' = {disk, current, t}
  OBVIOUS
<1> QED
  BY <1>1, <1>2, <1>3 DEF AllTrue, Truthful

LEMMA CurrentIsTrue ==
    ASSUME CInv, current # None
    PROVE  /\ current \in Snapshot /\ ValidSnapshot(current) /\ Truthful(current)
           /\ current.attempts \in Seq(Attempt) /\ Len(current.attempts) \in Nat
  BY CParts, Held, SnapshotFields DEF AllTrue, Truthful

LEMMA PassReadsTruth ==
    ASSUME CInv, PassReads
    PROVE  AllTrue'
<1>1. PICK served \in BOOLEAN :
        /\ RecoverInspectsAt(run.anchor.num, served)
        /\ current # None /\ At("recovering")
  BY DEF PassReads
<1>2. PICK r : r = InspectRecovery(current, run.anchor.num, served)
  OBVIOUS
<1>3. PICK t : t = RecoverySnapshot(current, r)
  OBVIOUS
<1>4. /\ pending' = t
      /\ UNCHANGED <<chain, minted, disk, current, quiet>>
  BY <1>1, <1>2, <1>3 DEF RecoverInspectsAt, Save, chainVars, PassReads
<1>5. AInv /\ run.anchor.num \in 1..Len(chain) /\ AllTrue
  BY <1>1, CParts, ChainFacts DEF At, Anchored
<1>6. current \in Snapshot /\ ValidSnapshot(current) /\ Truthful(current)
      /\ Len(current.attempts) \in Nat
  BY <1>1, CurrentIsTrue
<1>7. Truthful(t)
  <2>1. CASE r.status = "resolution-available"
    <3>1. /\ Len(t.attempts) = Len(current.attempts) - 1
          /\ \A i \in 1..Len(t.attempts) : t.attempts[i] = current.attempts[i + 1]
      BY <1>2, <1>3, <1>5, <1>6, <2>1, RecoveryRecords
    <3>2. \A i \in 1..Len(t.attempts) : i + 1 \in 1..Len(current.attempts)
      BY <1>6, <3>1
    <3> QED
      BY <1>6, <3>1, <3>2 DEF Truthful
  <2>2. CASE r.status # "resolution-available"
    <3>1. /\ Len(t.attempts) = Len(current.attempts)
          /\ \A i \in 1..Len(current.attempts) :
               Same(current.attempts[i], t.attempts[i])
      BY <1>2, <1>3, <1>5, <1>6, <2>2, RecoveryRecords
    <3>2. \A a, b : (Same(a, b) /\ Consumed(a) /\ Unsent(a)) => Consumed(b) /\ Unsent(b)
      BY DEF Same, Consumed, Unsent
    <3> QED
      BY <1>6, <3>1, <3>2 DEF Truthful
  <2> QED
    BY <2>1, <2>2
<1> QED
  BY <1>4, <1>5, <1>7, TruthIsWritten

LEMMA InclusionReadsTruth ==
    ASSUME CInv, InclusionReads
    PROVE  AllTrue'
<1>1. PICK servedAt \in SUBSET (1..Len(current.attempts)) :
        InclusionsInspectAt(run.head.num, servedAt)
  BY DEF InclusionReads
<1>2. At("including") /\ Canonical(run.head) /\ UNCHANGED quiet
  BY DEF InclusionReads
<1>3. PICK r : r = InspectInclusions(current, run.head.num, servedAt)
  OBVIOUS
<1>4. PICK o : o = ObservationToKeep(current, r.obs)
  OBVIOUS
<1>5. PICK t : t = [current EXCEPT !.lastObs = o, !.attempts = r.attempts]
  OBVIOUS
<1>6. /\ pending' = t /\ r.status = "inspected"
      /\ UNCHANGED <<chain, minted, disk, current>>
  BY <1>1, <1>3, <1>4, <1>5 DEF InclusionsInspectAt, Save, chainVars
<1>7. AInv /\ Steps /\ AllTrue /\ current # None /\ ChainTypeOK
  BY <1>1, CParts, Held DEF InclusionsInspectAt, Reading, OperationState
<1>8. run.head.num \in 1..Len(chain)
  BY <1>2, <1>7, CParts, ChainFacts DEF At, Anchored, Anchor, Canonical
<1>9. current \in Snapshot /\ ValidSnapshot(current) /\ Truthful(current)
  BY <1>7, CurrentIsTrue
<1>10. t.attempts = r.attempts /\ Len(r.attempts) = Len(current.attempts)
  BY <1>3, <1>5, <1>6, <1>7, <1>8, <1>9, InclusionEffect DEF Snapshot
<1>11. \A i \in 1..Len(current.attempts) : Passed(current.attempts[i], r.attempts[i])
  BY <1>3, <1>7, <1>8, <1>9, InclusionPasses
<1>12. Truthful(t)
  BY <1>7, <1>9, <1>10, <1>11, PassedIsTrue DEF Truthful
<1> QED
  BY <1>2, <1>6, <1>7, <1>12, TruthIsWritten

\* What was just signed was not sent before.
LEMMA PrepareSignsTruth ==
    ASSUME CInv, PrepareSigns
    PROVE  AllTrue'
<1>1. PICK a : a = [id |-> op.permit, nonce |-> current.next, phase |-> "signed",
                    incl |-> None, seen |-> None,
                    search |-> [lower |-> current.lastObs, through |-> None]]
  OBVIOUS
<1>2. PICK t : t = [current EXCEPT !.next = @ + 1, !.attempts = Append(@, a)]
  OBVIOUS
<1>3. /\ pending' = t /\ UNCHANGED <<chain, minted, disk, current, quiet>>
      /\ At("preparing") /\ op # None /\ op.kind = "prepare" /\ op.stage = "sign"
  BY <1>1, <1>2, Zenon DEF PrepareSigns, PrepareSigned, Save, chainVars, cycleVars
<1>4. current # None /\ AllTrue /\ op.permit \notin quiet
  <2>1. op.permit = run.submit
    BY <1>3, CParts DEF Preparing, At
  <2>2. run.submit \notin quiet
    BY <1>3, CParts DEF Schedule, At
  <2> QED
    BY <1>3, <2>1, <2>2, CParts DEF OperationState
<1>5. current \in Snapshot /\ Truthful(current) /\ Len(current.attempts) \in Nat
      /\ current.attempts \in Seq(Attempt)
  BY <1>4, CurrentIsTrue
<1>6. t.attempts = Append(current.attempts, a)
  BY <1>2, <1>5 DEF Snapshot
<1>7. Consumed(a) /\ Unsent(a)
  BY <1>1, <1>4 DEF Consumed, Unsent
<1>8. Truthful(t)
  BY <1>5, <1>6, <1>7 DEF Truthful
<1> QED
  BY <1>3, <1>4, <1>8, TruthIsWritten

\* A broadcast is of the oldest unresolved attempt, which it marks.
LEMMA BroadcastIs ==
    ASSUME CInv, BroadcastBegin
    PROVE  \E i \in 1..Len(current.attempts) :
             /\ i = FirstUnresolved(current.attempts) /\ current # None /\ pstate = "idle"
             /\ op' = [kind |-> "broadcast",
                       stage |-> IF NeedsMark(current.attempts[i]) THEN "write"
                                 ELSE "send",
                       permit |-> current.attempts[i].id, complete |-> FALSE]
             /\ UNCHANGED <<chain, minted, durable, disk, current, up>>
             /\ ~NeedsMark(current.attempts[i]) => pending' = pending
             /\ NeedsMark(current.attempts[i]) =>
                  \E b : /\ b.id = current.attempts[i].id
                         /\ b.phase = "broadcast-may-have-occurred"
                         /\ b \in Attempt
                         /\ pending' # None /\ pending' \in Snapshot
                         /\ pending'.attempts = [current.attempts EXCEPT ![i] = b]
<1> DEFINE i == FirstUnresolved(current.attempts)
<1>1. current # None /\ i # 0 /\ pstate = "idle"
  BY DEF BroadcastBegin, CanBroadcast
<1>2. current \in Snapshot /\ current.attempts \in Seq(Attempt)
  BY <1>1, CurrentIsTrue
<1>3. i \in 1..Len(current.attempts) /\ current.attempts[i] \in Attempt
  BY <1>1, <1>2, FirstUnresolvedRange, SnapshotFields
<1> HIDE DEF i
<1>4. /\ op' = [kind |-> "broadcast",
                stage |-> IF NeedsMark(current.attempts[i]) THEN "write" ELSE "send",
                permit |-> current.attempts[i].id, complete |-> FALSE]
      /\ UNCHANGED <<chain, minted, durable, disk, current, up>>
      /\ ~NeedsMark(current.attempts[i]) => pending' = pending
  BY DEF BroadcastBegin, chainVars, i
<1>5. ASSUME NeedsMark(current.attempts[i])
      PROVE  \E b : /\ b.id = current.attempts[i].id
                    /\ b.phase = "broadcast-may-have-occurred"
                    /\ b \in Attempt
                    /\ pending' # None /\ pending' \in Snapshot
                    /\ pending'.attempts = [current.attempts EXCEPT ![i] = b]
  <2>1. PICK b : b = [current.attempts[i] EXCEPT
                        !.phase = "broadcast-may-have-occurred", !.incl = None,
                        !.seen = None]
    OBVIOUS
  <2>2. PICK t : t = [current EXCEPT
                        !.attempts[i].phase = "broadcast-may-have-occurred",
                        !.attempts[i].incl = None,
                        !.attempts[i].seen = None]
    OBVIOUS
  <2>3. pending' = t
    BY <1>5, <2>2, Zenon DEF BroadcastBegin, Save, i
  <2>4. b \in Attempt /\ b.id = current.attempts[i].id
        /\ b.phase = "broadcast-may-have-occurred"
    BY <1>3, <2>1 DEF Attempt, Phase
  <2>5. t.attempts = [current.attempts EXCEPT ![i] = b]
    BY <1>2, <1>3, <2>1, <2>2 DEF Snapshot
  <2>6. t \in Snapshot
    BY <1>1, <1>2, <2>2, MarkKeeps DEF i
  <2>7. t # None
    BY <2>6, AbsentAssumption
  <2> QED
    BY <2>3, <2>4, <2>5, <2>6, <2>7
<1> QED
  BY <1>1, <1>3, <1>4, <1>5 DEF i

LEMMA BroadcastBeginsTruth ==
    ASSUME CInv, BroadcastBegin, UNCHANGED quiet
    PROVE  AllTrue'
<1>1. PICK i \in 1..Len(current.attempts) :
             /\ current # None
             /\ UNCHANGED <<chain, minted, disk, current>>
             /\ ~NeedsMark(current.attempts[i]) => pending' = pending
             /\ NeedsMark(current.attempts[i]) =>
                  \E b : /\ b.phase = "broadcast-may-have-occurred"
                         /\ b \in Attempt
                         /\ pending'.attempts = [current.attempts EXCEPT ![i] = b]
  BY BroadcastIs
<1>2. Truthful(current) /\ current.attempts \in Seq(Attempt) /\ AllTrue
  BY <1>1, CParts, CurrentIsTrue
<1>3. CASE ~NeedsMark(current.attempts[i])
  BY <1>1, <1>2, <1>3, TruthStands
<1>4. CASE NeedsMark(current.attempts[i])
  <2>1. PICK b : /\ b.phase = "broadcast-may-have-occurred" /\ b \in Attempt
                 /\ pending'.attempts = [current.attempts EXCEPT ![i] = b]
    BY <1>1, <1>4
  <2>2. PICK t : t = pending'
    OBVIOUS
  <2>3. Consumed(b) /\ Unsent(b)
    BY <2>1 DEF Consumed, Unsent
  <2>4. Truthful(t)
    BY <1>2, <2>1, <2>2, <2>3, ExceptSeq DEF Truthful
  <2> QED
    BY <1>1, <1>2, <2>2, <2>4, TruthIsWritten
<1> QED
  BY <1>3, <1>4

\* After a send, its attempt waits; the journal has it marked.
LEMMA SendEndsTruth ==
    ASSUME CInv, SendEnds
    PROVE  AllTrue'
<1>1. /\ op # None /\ op.kind = "broadcast" /\ op.stage = "send"
      /\ UNCHANGED <<chain, minted, disk, current, pending>>
      /\ quiet' \subseteq quiet \cup {op.permit}
  BY DEF SendEnds, BroadcastSend, BroadcastLost, Deliver, chainVars
<1>2. /\ current # None /\ current \in Snapshot /\ ValidSnapshot(current)
      /\ pending = None /\ disk = current
      /\ \E i \in 1..Len(current.attempts) :
           current.attempts[i].id = op.permit /\ current.attempts[i].phase # "signed"
  BY <1>1, SendingIs
<1>3. Truthful(current)
  BY <1>2, CurrentIsTrue
<1>4. ASSUME NEW i \in 1..Len(current.attempts), current.attempts[i].phase = "signed"
      PROVE  current.attempts[i].id \notin quiet'
  <2>1. current.attempts[i].id # op.permit
    BY <1>2, <1>4 DEF ValidSnapshot
  <2>2. current.attempts[i].id \notin quiet
    BY <1>3, <1>4 DEF Truthful, Unsent
  <2> QED
    BY <1>1, <2>1, <2>2
<1>5. \A a : Consumed(a) => Consumed(a)'
  BY <1>1 DEF Consumed, Canonical
<1>6. \A i \in 1..Len(current.attempts) :
        Consumed(current.attempts[i])' /\ Unsent(current.attempts[i])'
  BY <1>1, <1>3, <1>4, <1>5 DEF Truthful, Unsent
<1>7. {disk, current, pending}' \subseteq {current, None}
  BY <1>1, <1>2
<1> QED
  BY <1>1, <1>6, <1>7 DEF AllTrue

LEMMA ChainIs ==
    ASSUME Chain
    PROVE  /\ ChainNext
           /\ UNCHANGED <<disk, memVars, cycleVars>>
           /\ UNCHANGED <<disk, up, current, pending, pstate, write, recovered,
                          inclusions, op, permit, blockers, owner>>
           /\ UNCHANGED <<run, completed, retry, quiet, faults>>
  BY DEF Chain, Disturb, ChainNext, memVars, cycleVars

LEMMA ChainTruth ==
    ASSUME CInv, Chain
    PROVE  AllTrue'
<1>1. AInv /\ ReleaseInv /\ HashesAreOld /\ AllTrue /\ ChainNext
  BY ChainIs, CParts, Held DEF AInv
<1>2. UNCHANGED <<disk, current, pending, quiet>>
  BY ChainIs
<1>3. /\ \A k \in 1..Len(chain') :
           \/ k \in 1..Len(chain) /\ chain'[k] = chain[k]
           \/ k > Len(chain) /\ chain'[k].hash > minted
      /\ minted \in Nat /\ minted' \in Nat /\ minted <= minted'
      /\ Len(chain) \in Nat /\ Len(chain') \in Nat
  BY <1>1, ChainMoves
<1>4. ASSUME NEW a \in Attempt, ValidAttempt(a), Consumed(a)
      PROVE  Consumed(a)'
  <2>1. SUFFICES ASSUME a.phase = "included"
                 PROVE  /\ a.incl.hash <= minted'
                        /\ (a.incl.num <= Len(chain')
                              /\ chain'[a.incl.num].hash = a.incl.hash) =>
                             chain'[a.incl.num].nonce > a.nonce
    BY DEF Consumed, Canonical
  <2>2. a.incl \in Anchor
    BY <1>4, <2>1 DEF ValidAttempt, Attempt
  <2>3. a.incl.num \in Nat \ {0} /\ a.incl.hash \in Nat /\ a.incl.hash <= minted
    BY <1>4, <2>1, <2>2 DEF Anchor, Consumed
  <2>4. ASSUME a.incl.num <= Len(chain'), chain'[a.incl.num].hash = a.incl.hash
        PROVE  chain'[a.incl.num].nonce > a.nonce
    <3>1. a.incl.num \in 1..Len(chain')
      BY <1>3, <2>3, <2>4
    <3>2. ~(a.incl.hash > minted)
      BY <1>3, <2>3
    <3>3. a.incl.num \in 1..Len(chain) /\ chain'[a.incl.num] = chain[a.incl.num]
      BY <1>3, <2>4, <3>1, <3>2
    <3>4. Canonical(a.incl)
      BY <1>3, <2>4, <3>3 DEF Canonical
    <3> QED
      BY <1>4, <2>1, <3>3, <3>4 DEF Consumed
  <2> QED
    BY <1>3, <2>3, <2>4
<1>5. ASSUME NEW s \in {disk, current, pending}, s # None, NEW i \in 1..Len(s.attempts)
      PROVE  Consumed(s.attempts[i])' /\ Unsent(s.attempts[i])'
  <2>1. s.attempts[i] \in Attempt /\ ValidAttempt(s.attempts[i])
    BY <1>1, <1>5, Held, SnapshotFields DEF ValidSnapshot
  <2>2. Consumed(s.attempts[i]) /\ Unsent(s.attempts[i])
    BY <1>1, <1>5 DEF AllTrue
  <2>3. PICK a \in Attempt : a = s.attempts[i]
    BY <2>1
  <2>4. Consumed(a)' /\ Unsent(a)'
    BY <1>2, <1>4, <2>1, <2>2, <2>3 DEF Unsent
  <2> QED
    BY <1>2, <2>3, <2>4
<1> QED
  BY <1>2, <1>5 DEF AllTrue

LEMMA TruthStays ==
    ASSUME CInv, [CycleNext]_allVars
    PROVE  AllTrue'
<1>1. AllTrue /\ AInv
  BY CParts
<1>2. CASE Chain
  BY <1>2, ChainTruth
<1>3. CASE SendEnds
  BY <1>3, SendEndsTruth
<1>4. CASE PassReads \/ InclusionReads \/ PrepareSigns
  BY <1>4, PassReadsTruth, InclusionReadsTruth, PrepareSignsTruth
<1>5. CASE Resend \/ Broadcast
  BY <1>5, BroadcastBeginsTruth DEF Resend, Broadcast
<1>6. CASE PassBootstraps
  <2>0. PICK t : t = [baseline |-> chain[run.anchor.num].nonce,
                      next |-> chain[run.anchor.num].nonce,
                      durableNext |-> chain[run.anchor.num].nonce,
                      lastObs |-> AnchoredNonce(run.anchor.num),
                      repairs |-> <<>>, attempts |-> <<>>]
    OBVIOUS
  <2>1. /\ pending' = t /\ t.attempts = <<>>
        /\ UNCHANGED <<chain, minted, disk, current, quiet>>
    BY <1>6, <2>0 DEF PassBootstraps, RecoverBootstrapsAt, Save, chainVars
  <2>2. Truthful(t)
    BY <2>1 DEF Truthful
  <2> QED
    BY <1>1, <2>1, <2>2, TruthIsWritten
<1>7. CASE ~(Chain \/ SendEnds \/ Writes)
  <2>1. UNCHANGED <<chain, minted>> /\ quiet' \subseteq quiet
    BY <1>7, ChainStands, QuietMoves
  <2>2. /\ disk' \in {disk, pending} /\ current' \in {current, disk, pending, None}
        /\ pending' \in {pending, None}
    BY <1>7, JournalMoves
  <2> QED
    BY <1>1, <2>1, <2>2, TruthStands
<1> QED
  BY <1>2, <1>3, <1>4, <1>5, <1>6, <1>7 DEF Writes

-----------------------------------------------------------------------------
(* Where a step takes a run, and what else it changes of it.               *)

LEMMA PhaseMoves ==
    ASSUME CInv, [CycleNext]_allVars
    PROVE  /\ (Create \/ InclusionReads \/ SendMarks \/ PrepareSigns \/ Elapse \/ Chain
                 \/ UNCHANGED allVars) => run' = run
           /\ BeginAny => run.phase = "idle" /\ run'.phase = "begin"
           /\ RetryFirst => run.phase = "begin" /\ run'.phase = "retry"
           /\ Retried => run.phase = "retry" /\ run'.phase = "begin"
           /\ Reuse => run.phase = "begin" /\ run'.phase = "include"
           /\ Repass => run.phase = "begin" /\ run'.phase = "recover"
           /\ Recover => run.phase = "recover" /\ run'.phase = "recovering"
           /\ (PassReads \/ PassBootstraps) =>
                run.phase = "recovering" /\ run'.phase = "recovering"
           /\ PassCommits =>
                run.phase = "recovering" /\ run'.phase \in {"recover", "include"}
           /\ PassReturns => run.phase = "recovering" /\ run'.phase = "include"
           /\ Include => run.phase = "include" /\ run'.phase = "including"
           /\ SkipInclude => run.phase = "include" /\ run'.phase = "finish"
           /\ (InclusionHeadMoved \/ InclusionCommits) =>
                run.phase = "including" /\ run'.phase = "finish"
           /\ Finish => run.phase = "finish" /\ run'.phase = "send"
           /\ Abandon => run.phase = "abandon" /\ run'.phase = "abandoning"
           /\ Resend => run.phase = "send" /\ run'.phase = "resend"
           /\ NoResend => run.phase = "send" /\ run'.phase = "gate"
           /\ SendEnds => run.phase \in {"resend", "sending"}
                          /\ run'.phase \in {"gate", "idle"}
           /\ Accept => run.phase = "gate" /\ run'.phase = "prepare"
           /\ Prepare => run.phase = "prepare" /\ run'.phase = "preparing"
           /\ PrepareEnds => run.phase = "preparing"
                             /\ run'.phase \in {"broadcast", "idle"}
           /\ Broadcast => run.phase = "broadcast" /\ run'.phase = "sending"
           /\ (WriteFailure \/ RequestFailure \/ Interrupt) =>
                run'.phase \in {"abandon", "idle"}
           /\ (Stop \/ Abandoned \/ Report) => run'.phase = "idle"
<1>1. run \in Run
  BY CParts
<1>2. \A p \in Phases : Goto(p) => run'.phase = p
  BY <1>1, GotoMoves
<1>3. run' = Idle => run'.phase = "idle"
  BY IdleIs
<1>4. (Create \/ InclusionReads \/ SendMarks \/ PrepareSigns \/ Elapse \/ Chain
        \/ UNCHANGED allVars) => run' = run
  BY DEF Create, InclusionReads, SendMarks, PrepareSigns, Elapse, Chain, allVars,
     cycleVars
<1>5. BeginAny => run.phase = "idle" /\ run'.phase = "begin"
  <2>1. ASSUME BeginAny PROVE run.phase = "idle" /\ run'.phase = "begin"
    <3>1. At("idle") /\ \E x, y, z : run' = [Idle EXCEPT !.phase = "begin", !.submit = x,
                                                        !.anchor = y, !.head = z]
      BY <2>1 DEF BeginAny, BeginRun
    <3> QED
      BY <3>1 DEF Idle, At
  <2> QED
    BY <2>1
<1>6. /\ RetryFirst => run.phase = "begin" /\ run'.phase = "retry"
      /\ Retried => run.phase = "retry" /\ run'.phase = "begin"
      /\ Recover => run.phase = "recover" /\ run'.phase = "recovering"
      /\ Include => run.phase = "include" /\ run'.phase = "including"
      /\ SkipInclude => run.phase = "include" /\ run'.phase = "finish"
      /\ (InclusionHeadMoved \/ InclusionCommits) =>
           run.phase = "including" /\ run'.phase = "finish"
      /\ Finish => run.phase = "finish" /\ run'.phase = "send"
      /\ Abandon => run.phase = "abandon" /\ run'.phase = "abandoning"
  BY <1>2 DEF RetryFirst, Retried, Recover, Include, SkipInclude, InclusionHeadMoved,
     InclusionCommits, Finish, Abandon, At, Phases, CyclePhase
<1>7. /\ Resend => run.phase = "send" /\ run'.phase = "resend"
      /\ NoResend => run.phase = "send" /\ run'.phase = "gate"
      /\ Accept => run.phase = "gate" /\ run'.phase = "prepare"
      /\ Prepare => run.phase = "prepare" /\ run'.phase = "preparing"
      /\ Broadcast => run.phase = "broadcast" /\ run'.phase = "sending"
  BY <1>2 DEF Resend, NoResend, Accept, Prepare, Broadcast, At, Phases, CyclePhase,
     SubmitPhase
<1>8. /\ Reuse => run.phase = "begin" /\ run'.phase = "include"
      /\ Repass => run.phase = "begin" /\ run'.phase = "recover"
      /\ (PassReads \/ PassBootstraps) =>
           run.phase = "recovering" /\ run'.phase = "recovering"
      /\ PassReturns => run.phase = "recovering" /\ run'.phase = "include"
  BY <1>1 DEF Reuse, Repass, PassReads, PassBootstraps, PassReturns, Answered, At, Run
<1>9. PassCommits => run.phase = "recovering" /\ run'.phase \in {"recover", "include"}
  <2>1. PassCommits =>
          /\ At("recovering")
          /\ run' = [run EXCEPT !.phase = "recover", !.passes = @ - 1] \/ Goto("include")
    BY DEF PassCommits
  <2>2. [run EXCEPT !.phase = "recover", !.passes = @ - 1].phase = "recover"
    BY <1>1 DEF Run
  <2> QED
    BY <1>2, <2>1, <2>2 DEF At, Phases, CyclePhase
<1>10. /\ SendEnds => run.phase \in {"resend", "sending"}
                      /\ run'.phase \in {"gate", "idle"}
       /\ PrepareEnds => run.phase = "preparing" /\ run'.phase \in {"broadcast", "idle"}
  BY <1>2, <1>3 DEF SendEnds, PrepareEnds, At, Phases, SubmitPhase
<1>11. (WriteFailure \/ RequestFailure \/ Interrupt) => run'.phase \in {"abandon", "idle"}
  <2>1. Throw => run'.phase \in {"abandon", "idle"}
    BY <1>2, <1>3 DEF Throw, Phases, CyclePhase
  <2> QED
    BY <2>1 DEF WriteFailure, RequestFailure, Interrupt
<1>12. (Stop \/ Abandoned \/ Report) => run'.phase = "idle"
  BY <1>3 DEF Stop, Abandoned, Report
<1> QED
  BY <1>4, <1>5, <1>6, <1>7, <1>8, <1>9, <1>10, <1>11, <1>12

\* What a run was begun with stays until it is over.
LEMMA RunMoves ==
    ASSUME CInv, [CycleNext]_allVars
    PROVE  \/ run' = Idle
           \/ BeginAny
           \/ /\ run'.submit = run.submit /\ run'.anchor = run.anchor
              /\ run'.head = run.head
              /\ Reuse \/ run'.reused = run.reused
              /\ \/ PassReads \/ PassBootstraps \/ PassReturns
                 \/ run'.result = run.result /\ run'.settled = run.settled
              /\ Repass \/ PassCommits \/ run'.passes = run.passes
<1> DEFINE Rest == /\ run'.submit = run.submit /\ run'.anchor = run.anchor
                   /\ run'.head = run.head
                   /\ Reuse \/ run'.reused = run.reused
                   /\ \/ PassReads \/ PassBootstraps \/ PassReturns
                      \/ run'.result = run.result /\ run'.settled = run.settled
                   /\ Repass \/ PassCommits \/ run'.passes = run.passes
<1>1. run \in Run
  BY CParts
<1>2. ASSUME NEW p \in Phases, Goto(p) PROVE Rest
  BY <1>1, <1>2, GotoMoves
<1>3. run' = run => Rest
  OBVIOUS
<1>4. (Reuse \/ Repass \/ PassReads \/ PassBootstraps \/ PassReturns) => Rest
  BY <1>1 DEF Reuse, Repass, PassReads, PassBootstraps, PassReturns, Answered, Run
<1>5. PassCommits => Rest
  <2>1. ASSUME PassCommits,
               run' = [run EXCEPT !.phase = "recover", !.passes = @ - 1]
        PROVE  Rest
    <3>1. /\ run'.submit = run.submit /\ run'.anchor = run.anchor
          /\ run'.head = run.head /\ run'.reused = run.reused
          /\ run'.result = run.result /\ run'.settled = run.settled
      BY <1>1, <2>1 DEF Run
    <3> QED
      BY <2>1, <3>1
  <2>2. PassCommits => \/ run' = [run EXCEPT !.phase = "recover", !.passes = @ - 1]
                       \/ Goto("include")
    BY DEF PassCommits
  <2>3. "include" \in Phases
    BY DEF Phases, CyclePhase
  <2> HIDE DEF Rest
  <2> QED
    BY <1>2, <2>1, <2>2, <2>3
<1> HIDE DEF Rest
<1>6. CASE \/ RetryFirst \/ Retried \/ Recover \/ Include \/ SkipInclude
           \/ InclusionHeadMoved \/ InclusionCommits \/ Finish \/ Abandon
  BY <1>2, <1>6 DEF RetryFirst, Retried, Recover, Include, SkipInclude,
     InclusionHeadMoved, InclusionCommits, Finish, Abandon, Phases, CyclePhase, Rest
<1>7. CASE Resend \/ NoResend \/ Accept \/ Prepare \/ Broadcast
  BY <1>2, <1>7 DEF Resend, NoResend, Accept, Prepare, Broadcast, Phases, CyclePhase,
     SubmitPhase, Rest
<1>8. CASE SendEnds \/ PrepareEnds
  BY <1>2, <1>8 DEF SendEnds, PrepareEnds, Phases, SubmitPhase, Rest
<1>9. CASE WriteFailure \/ RequestFailure \/ Interrupt
  <2>1. run' = Idle \/ Goto("abandon")
    BY <1>9 DEF WriteFailure, RequestFailure, Interrupt, Throw
  <2> QED
    BY <1>2, <2>1 DEF Rest, Phases, CyclePhase
<1>10. CASE Stop \/ Abandoned \/ Report
  BY <1>10 DEF Stop, Abandoned, Report
<1>11. CASE Create \/ InclusionReads \/ SendMarks \/ PrepareSigns \/ Elapse \/ Chain
            \/ UNCHANGED allVars
  BY <1>3, <1>11, PhaseMoves
<1> QED
  BY <1>4, <1>5, <1>6, <1>7, <1>8, <1>9, <1>10, <1>11, Actions DEF Rest

\* Which operation a run waits for.
LEMMA KindsOf ==
    ASSUME CInv, [CycleNext]_allVars, op' # None
    PROVE  /\ op'.kind = "broadcast" => run'.phase \in {"resend", "sending"}
           /\ op'.kind = "prepare" => run'.phase = "preparing"
           /\ op'.kind = "recover" => run'.phase = "recovering"
           /\ op'.kind = "inclusions" => run'.phase = "including"
           /\ op'.kind = "retry" => run'.phase = "retry"
<1>1. Place' /\ run'.phase \in Phases
  BY PlaceStays, RunIsTyped DEF Run, Phases
<1> QED
  BY <1>1 DEF Place, Phases, CyclePhase, SubmitPhase, Free, Pausing, Holding

-----------------------------------------------------------------------------
(* Broadcasts, and the schedule of resends.                                *)

LEMMA SameFirst ==
    ASSUME NEW q \in Seq(Attempt), NEW r \in Seq(Attempt), Len(q) = Len(r),
           \A i \in 1..Len(q) : q[i].phase = "included" <=> r[i].phase = "included"
    PROVE  FirstUnresolved(q) = FirstUnresolved(r)
<1>1. {i \in 1..Len(q) : q[i].phase # "included"} = {i \in 1..Len(r) : r[i].phase # "included"}
  OBVIOUS
<1> QED
  BY <1>1 DEF FirstUnresolved

\* Where a run stands while the journal is not touched and no phase is left.
Rests == Elapse \/ Chain \/ UNCHANGED allVars

LEMMA RestsAre ==
    ASSUME CInv, Rests
    PROVE  /\ UNCHANGED <<disk, up, current, pending, pstate, write, recovered,
                          inclusions, op, permit, blockers, owner>>
           /\ UNCHANGED <<run, completed, faults>>
           /\ quiet' \subseteq quiet
<1>1. CASE Elapse
  BY <1>1 DEF Elapse, vars, memVars
<1>2. CASE Chain
  BY <1>2, ChainIs
<1>3. CASE UNCHANGED allVars
  BY <1>3 DEF allVars, vars, memVars, cycleVars
<1> QED
  BY <1>1, <1>2, <1>3 DEF Rests

\* Steps that do not move a run.
LEMMA StaysAre ==
    ASSUME CInv, [CycleNext]_allVars, run'.phase = run.phase
    PROVE  \/ Rests
           \/ Create /\ run.phase = "idle"
           \/ Stop /\ run.phase = "idle"
           \/ (PassReads \/ PassBootstraps) /\ run.phase = "recovering"
           \/ InclusionReads /\ run.phase = "including"
           \/ SendMarks /\ run.phase \in {"resend", "sending"}
           \/ PrepareSigns /\ run.phase = "preparing"
           \/ (WriteFailure \/ RequestFailure \/ Interrupt)
                /\ run.phase \in {"abandon", "idle"}
           \/ (Abandoned \/ Report) /\ run.phase = "idle"
<1>1. Create => run.phase = "idle"
  BY PlaceIs DEF Create, Start
<1>2. InclusionReads => run.phase = "including"
  BY DEF InclusionReads, At
<1>3. SendMarks => run.phase \in {"resend", "sending"}
  BY DEF SendMarks, At
<1>4. PrepareSigns => run.phase = "preparing"
  BY DEF PrepareSigns, At
<1> QED
  BY <1>1, <1>2, <1>3, <1>4, PhaseMoves, Actions DEF Rests

LEMMA SendingStays ==
    ASSUME CInv, [CycleNext]_allVars
    PROVE  Sending'
<1>1. SUFFICES ASSUME op' # None, op'.kind = "broadcast"
               PROVE  /\ op'.stage = "write" => op'.permit = Unresolved(pending').id
                      /\ op'.stage = "send" => op'.permit = Unresolved(current').id
  BY DEF Sending, Unresolved
<1>2. run'.phase \in {"resend", "sending"}
  BY <1>1, KindsOf
<1>3. CASE Resend \/ Broadcast
  <2>1. BroadcastBegin
    BY <1>3 DEF Resend, Broadcast
  <2>2. PICK i \in 1..Len(current.attempts) :
          /\ i = FirstUnresolved(current.attempts) /\ current # None
          /\ op' = [kind |-> "broadcast",
                    stage |-> IF NeedsMark(current.attempts[i]) THEN "write" ELSE "send",
                    permit |-> current.attempts[i].id, complete |-> FALSE]
          /\ current' = current
          /\ NeedsMark(current.attempts[i]) =>
               \E b : /\ b.id = current.attempts[i].id
                      /\ b.phase = "broadcast-may-have-occurred"
                      /\ b \in Attempt
                      /\ pending'.attempts = [current.attempts EXCEPT ![i] = b]
    BY <2>1, BroadcastIs
  <2>3. current.attempts \in Seq(Attempt)
    BY <2>2, CurrentIsTrue
  <2>4. CASE ~NeedsMark(current.attempts[i])
    BY <2>2, <2>4 DEF Unresolved
  <2>5. CASE NeedsMark(current.attempts[i])
    <3>1. PICK b : /\ b.id = current.attempts[i].id
                   /\ b.phase = "broadcast-may-have-occurred"
                   /\ b \in Attempt
                   /\ pending'.attempts = [current.attempts EXCEPT ![i] = b]
      BY <2>2, <2>5
    <3>2. PICK q : q = pending'.attempts
      OBVIOUS
    <3>3. /\ q \in Seq(Attempt) /\ Len(q) = Len(current.attempts)
          /\ \A j \in 1..Len(current.attempts) :
               q[j] = IF j = i THEN b ELSE current.attempts[j]
      BY <2>3, <3>1, <3>2, ExceptSeq
    <3>4. current.attempts[i].phase # "included"
      BY <2>5 DEF NeedsMark
    <3>5. FirstUnresolved(q) = i
      BY <2>2, <2>3, <3>1, <3>3, <3>4, SameFirst
    <3>6. q[FirstUnresolved(q)].id = current.attempts[i].id
      BY <3>1, <3>3, <3>5
    <3> QED
      BY <2>2, <2>5, <3>2, <3>6 DEF Unresolved
  <2> QED
    BY <2>4, <2>5
<1>4. CASE SendMarks
  <2>1. /\ op # None /\ op.kind = "broadcast" /\ op.stage = "write"
        /\ current' = pending /\ op' = [op EXCEPT !.stage = "send"]
    BY <1>4 DEF SendMarks, BroadcastMarked, Committed
  <2>2. op \in Op
    BY <2>1, PlaceIs
  <2>3. op'.stage = "send" /\ op'.permit = op.permit
    BY <2>1, <2>2 DEF Op
  <2>4. op.permit = Unresolved(pending).id
    BY <2>1, CParts DEF Sending
  <2> QED
    BY <2>1, <2>3, <2>4 DEF Unresolved
<1>5. CASE Rests
  BY <1>1, <1>5, RestsAre, CParts DEF Sending, Unresolved
<1>6. run'.phase = run.phase => SendMarks \/ Rests
  BY <1>2, StaysAre
<1>7. run'.phase # run.phase => Resend \/ Broadcast
  BY <1>2, PhaseMoves, Actions DEF Rests
<1> QED
  BY <1>3, <1>4, <1>5, <1>6, <1>7

\* An attempt that is due does not wait.
LEMMA RetryStays ==
    ASSUME CInv, [CycleNext]_allVars, retry'.due
    PROVE  retry'.id \notin quiet'
<1>1. /\ retry \in Retry /\ (retry.due => retry.id \notin quiet) /\ AllTrue
      /\ \A s \in {disk, current, pending} : s # None => s \in Snapshot
  BY CParts, Held DEF RunTypeOK, Retry, Schedule
<1>2. ASSUME NEW r \in Retry, r.due => r.id \notin quiet,
             NEW s \in {disk, current, pending, None},
             retry' = Tracked(r, RetryAttempt(s)), quiet' = quiet
      PROVE  retry'.id \notin quiet'
  <2>1. s \in Snapshot \cup {None}
    BY <1>1
  <2>2. \/ retry' = r
        \/ /\ s # None
           /\ \E i \in 1..Len(s.attempts) :
                retry'.id = s.attempts[i].id /\ s.attempts[i].phase = "signed"
    BY <1>2, <2>1, TrackedIs
  <2>3. CASE retry' = r
    BY <1>2, <2>3
  <2>4. CASE s # None /\ \E i \in 1..Len(s.attempts) :
               retry'.id = s.attempts[i].id /\ s.attempts[i].phase = "signed"
    BY <1>1, <1>2, <2>4 DEF AllTrue, Unsent
  <2> QED
    BY <2>2, <2>3, <2>4
<1>3. CASE Create
  <2>1. NoRetry \in Retry /\ ~NoRetry.due
    BY DEF NoRetry, Retry
  <2>2. retry' = Tracked(NoRetry, RetryAttempt(disk)) /\ quiet' = quiet
    BY <1>3 DEF Create
  <2> QED
    BY <1>2, <2>1, <2>2
<1>4. CASE BeginAny \/ Finish
  <2>1. retry' = Tracked(retry, RetryAttempt(current)) /\ quiet' = quiet
    BY <1>4 DEF BeginAny, BeginRun, Finish
  <2> QED
    BY <1>1, <1>2, <2>1
<1>5. CASE Retried
  <2>1. retry' = Tracked(retry, RetryAttempt(pending)) /\ quiet' = quiet
    BY <1>5 DEF Retried, RetryCommits, Committed
  <2> QED
    BY <1>1, <1>2, <2>1
<1>6. CASE Stop
  BY <1>6 DEF Stop, NoRetry
<1>7. CASE Elapse
  <2>1. [retry EXCEPT !.due = TRUE].id = retry.id
    BY <1>1 DEF Retry
  <2>2. retry' = [retry EXCEPT !.due = TRUE] /\ quiet' = quiet \ {retry.id}
    BY <1>7 DEF Elapse
  <2> QED
    BY <2>1, <2>2
<1>8. CASE Resend
  BY <1>1, <1>8 DEF Resend, Retry
<1>9. CASE SendEnds
  BY <1>1, <1>9 DEF SendEnds
<1>10. CASE \/ RetryFirst \/ Reuse \/ Repass
            \/ Recover \/ PassReads \/ PassBootstraps \/ PassCommits \/ PassReturns
            \/ Include \/ SkipInclude
            \/ InclusionReads \/ InclusionHeadMoved \/ InclusionCommits
            \/ Abandon \/ Abandoned
  <2>1. UNCHANGED <<retry, quiet>>
    BY <1>10 DEF RetryFirst, Reuse, Repass, Recover, PassReads, PassBootstraps,
       PassCommits, PassReturns, Include, SkipInclude, InclusionReads,
       InclusionHeadMoved, InclusionCommits, Abandon, Abandoned
  <2> QED
    BY <1>1, <2>1
<1>11. CASE \/ NoResend \/ SendMarks
            \/ Report \/ Accept \/ Prepare \/ PrepareSigns \/ PrepareEnds \/ Broadcast
            \/ WriteFailure \/ RequestFailure \/ Interrupt \/ Chain \/ UNCHANGED allVars
  <2>1. UNCHANGED <<retry, quiet>>
    BY <1>11 DEF NoResend, SendMarks, Report, Accept, Prepare, PrepareSigns,
       PrepareEnds, Broadcast, WriteFailure, RequestFailure, Interrupt, Chain,
       allVars, cycleVars
  <2> QED
    BY <1>1, <2>1
<1> QED
  BY <1>3, <1>4, <1>5, <1>6, <1>7, <1>8, <1>9, <1>10, <1>11, Actions

LEMMA SubmitStays ==
    ASSUME CInv, [CycleNext]_allVars, run'.submit \in quiet'
    PROVE  /\ run'.phase \in {"gate", "prepare"}
           /\ current' # None
           /\ \E i \in 1..Len(current'.attempts) : current'.attempts[i].id = run'.submit
<1>1. run' # Idle
  BY IdleIs, SchedulesAreTyped, ChainAssumption
<1>2. CASE BeginAny
  <2>0. PICK n \in 1..durable :
          \E h \in HeadsFor(n) : \E id \in AttemptIds \cup {None} : BeginRun(n, h, id)
    BY <1>2 DEF BeginAny
  <2>1. PICK h \in HeadsFor(n), id \in AttemptIds \cup {None} : BeginRun(n, h, id)
    BY <2>0
  <2>2. id \notin quiet /\ quiet' = quiet
        /\ run' = [Idle EXCEPT !.phase = "begin", !.submit = id,
                               !.anchor = AnchorOf(n), !.head = AnchorOf(h)]
    BY <2>1 DEF BeginRun
  <2>3. run'.submit = id
    BY <2>2 DEF Idle
  <2> QED
    BY <2>2, <2>3
<1>3. CASE SendEnds
  <2>1. run.phase = "resend" /\ Goto("gate")
    BY <1>1, <1>3 DEF SendEnds, At
  <2>2. run'.phase = "gate" /\ run'.submit = run.submit
    BY <2>1, GotoMoves, CParts DEF Phases, SubmitPhase
  <2>3. run.submit \notin quiet
    BY <2>1, CParts DEF Schedule
  <2>4. /\ op # None /\ op.kind = "broadcast" /\ op.stage = "send"
        /\ current' = current /\ quiet' \subseteq quiet \cup {op.permit}
    BY <1>3 DEF SendEnds, BroadcastSend, BroadcastLost
  <2>5. run'.submit = op.permit
    BY <2>2, <2>3, <2>4
  <2> QED
    BY <2>2, <2>4, <2>5, SendingIs
<1>4. CASE ~(BeginAny \/ SendEnds)
  <2>1. run'.submit = run.submit /\ quiet' \subseteq quiet
    BY <1>1, <1>4, RunMoves, QuietMoves
  <2>2. /\ run.phase \in {"gate", "prepare"} /\ current # None
        /\ \E i \in 1..Len(current.attempts) : current.attempts[i].id = run.submit
    BY <2>1, CParts DEF Schedule
  <2>3. owner = None
    BY <2>2, PlaceIs DEF Free
  <2>4. ~(WriteFailure \/ RequestFailure \/ Interrupt)
    BY <1>1, <2>3 DEF WriteFailure, RequestFailure, Interrupt, Throw
  <2>5. ~(Stop \/ Abandoned \/ Report)
    BY <1>1 DEF Stop, Abandoned, Report
  <2>6. ~Prepare
    BY <2>2 DEF Prepare, PrepareBeginFor, Fresh
  <2>7. CASE Accept
    <3>1. current' = current
      BY <2>7 DEF Accept, vars, memVars
    <3> QED
      BY <2>1, <2>2, <2>7, <3>1, PhaseMoves
  <2>8. CASE Rests
    BY <2>1, <2>2, <2>8, RestsAre
  <2>9. run'.phase # run.phase => Accept
    BY <1>4, <2>2, <2>4, <2>5, <2>6, PhaseMoves, Actions DEF Rests
  <2>10. run'.phase = run.phase => Rests
    BY <2>2, StaysAre
  <2> QED
    BY <2>7, <2>8, <2>9, <2>10
<1> QED
  BY <1>2, <1>3, <1>4

LEMMA ScheduleStays ==
    ASSUME CInv, [CycleNext]_allVars
    PROVE  Schedule'
  BY RetryStays, SubmitStays DEF Schedule

-----------------------------------------------------------------------------
(* Durable blocks stay, and so does what was read at them.                 *)

LEMMA PrefixStays ==
    ASSUME CInv, [CycleNext]_allVars, NEW a \in Anchor, a.num \in 1..durable, Canonical(a)
    PROVE  /\ a.num \in 1..durable' /\ Canonical(a)'
           /\ a.num \in 1..Len(chain) /\ chain'[a.num] = chain[a.num]
<1>1. AInv /\ durable \in 1..Len(chain) /\ Len(chain) \in Nat
  BY CParts, ChainFacts
<1>2. a.num \in 1..Len(chain)
  BY <1>1
<1>3. CASE UNCHANGED <<chain, minted, durable>>
  BY <1>2, <1>3 DEF Canonical
<1>4. CASE Chain
  <2>1. /\ durable' \in Nat /\ durable <= durable' /\ durable' <= Len(chain')
        /\ chain'[a.num] = chain[a.num]
    BY <1>1, <1>4, ChainIs, DurablePrefix
  <2>2. a.num \in 1..durable' /\ a.num \in 1..Len(chain')
    <3>1. AInv'
      BY CoordinatorKeeps
    <3>2. Len(chain') \in Nat
      BY <3>1, ReadsAreTyped, Held DEF AInv, ReleaseInv, IInv, TypeOK, ChainTypeOK
    <3> QED
      BY <1>1, <2>1, <3>2
  <2> QED
    BY <1>2, <2>1, <2>2 DEF Canonical
<1> QED
  BY <1>3, <1>4, ChainStands

\* A run is begun, or it was.
LEMMA BegunBefore ==
    ASSUME CInv, [CycleNext]_allVars, run'.phase # "idle"
    PROVE  BeginAny \/ run.phase # "idle"
<1>1. SUFFICES ASSUME run.phase = "idle", ~BeginAny PROVE FALSE
  OBVIOUS
<1>2. owner = None
  BY <1>1, PlaceIs DEF Free
<1>3. (WriteFailure \/ RequestFailure \/ Interrupt) => run' = Idle
  BY <1>2 DEF WriteFailure, RequestFailure, Interrupt, Throw
<1> QED
  BY <1>1, <1>3, IdleIs, PhaseMoves, Actions

LEMMA BeginIs ==
    ASSUME CInv, BeginAny
    PROVE  \E n \in 1..durable, h \in 1..Len(chain) :
             /\ n <= h /\ n \in 1..Len(chain)
             /\ run'.phase = "begin" /\ run'.submit \notin quiet
             /\ run'.anchor = AnchorOf(n) /\ run'.head = AnchorOf(h)
             /\ run'.result = None /\ ~run'.reused
             /\ UNCHANGED <<vars, completed, quiet, faults>>
<1>1. durable \in 1..Len(chain) /\ Len(chain) \in Nat
  BY CParts, ChainFacts
<1>2. PICK n \in 1..durable :
        \E h \in HeadsFor(n) : \E id \in AttemptIds \cup {None} : BeginRun(n, h, id)
  BY DEF BeginAny
<1>3. PICK h \in HeadsFor(n), id \in AttemptIds \cup {None} : BeginRun(n, h, id)
  BY <1>2
<1>4. h \in 1..Len(chain) /\ n <= h /\ n \in 1..Len(chain)
  BY <1>1 DEF HeadsFor
<1>5. PICK x : x = [Idle EXCEPT !.phase = "begin", !.submit = id,
                                !.anchor = AnchorOf(n), !.head = AnchorOf(h)]
  OBVIOUS
<1>6. /\ x.phase = "begin" /\ x.submit = id /\ x.anchor = AnchorOf(n)
      /\ x.head = AnchorOf(h) /\ x.result = None /\ ~x.reused
  BY <1>5 DEF Idle
<1>7. run' = x /\ id \notin quiet /\ UNCHANGED <<vars, completed, quiet, faults>>
  BY <1>3, <1>5 DEF BeginRun
<1> QED
  BY <1>4, <1>6, <1>7

LEMMA AnchoredStays ==
    ASSUME CInv, [CycleNext]_allVars
    PROVE  Anchored'
<1>1. SUFFICES ASSUME run'.phase # "idle" PROVE Anchored'
  BY DEF Anchored
<1>2. CASE BeginAny
  <2>1. PICK n \in 1..durable, h \in 1..Len(chain) :
             /\ n <= h /\ n \in 1..Len(chain)
             /\ run'.anchor = AnchorOf(n) /\ run'.head = AnchorOf(h)
             /\ UNCHANGED vars
    BY <1>2, BeginIs
  <2>2. /\ AnchorOf(n) \in Anchor /\ AnchorOf(h) \in Anchor
        /\ AnchorOf(n).num = n /\ AnchorOf(h).num = h /\ n \in 1..durable
        /\ Canonical(AnchorOf(n)) /\ UNCHANGED <<chain, durable>>
    BY <2>1, CParts, ChainFacts DEF AnchorOf, Canonical, vars, chainVars
  <2>3. Canonical(AnchorOf(n))'
    BY <2>2 DEF Canonical, AnchorOf
  <2> QED
    BY <2>1, <2>2, <2>3 DEF Anchored, Canonical
<1>3. CASE ~BeginAny
  <2>1. run.phase # "idle"
    BY <1>1, <1>3, BegunBefore
  <2>2. run' # Idle
    BY <1>1, IdleIs
  <2>3. run'.anchor = run.anchor /\ run'.head = run.head
    BY <1>3, <2>2, RunMoves
  <2>4. PICK a : a = run.anchor
    OBVIOUS
  <2>5. /\ a \in Anchor /\ a.num \in 1..durable /\ Canonical(a)
        /\ run.head \in Anchor /\ a.num <= run.head.num
    BY <2>1, <2>4, CParts DEF Anchored
  <2>6. a.num \in 1..durable' /\ Canonical(a)'
    BY <2>5, PrefixStays
  <2> QED
    BY <2>3, <2>4, <2>5, <2>6 DEF Anchored, Canonical
<1> QED
  BY <1>2, <1>3

\* What the revision of a journal keeps of its counters and attempts.
LEMMA RevisionIs ==
    ASSUME NEW s \in Snapshot, s # None, NEW latched, NEW v, v = Revision(s, latched)
    PROVE  /\ v.durableNext = s.durableNext
           /\ v.attempts = <<>> <=> s.attempts = <<>>
           /\ s.attempts # <<>> => v.attempts[1].nonce = s.attempts[1].nonce
<1>1. /\ Len(s.attempts) \in Nat /\ s.attempts \in Seq(Attempt)
      /\ s.attempts # <<>> => 1 \in 1..Len(s.attempts)
      /\ \A i \in 1..Len(s.attempts) : s.attempts[i] \in Attempt
  BY SnapshotFields
<1>2. PICK q : q = [i \in 1..Len(s.attempts) |-> Projected(s.attempts[i])]
  OBVIOUS
<1>3. v.durableNext = s.durableNext /\ v.attempts = q
  BY <1>2 DEF Revision
<1>4. ASSUME s.attempts # <<>>
      PROVE  q # <<>> /\ q[1].nonce = s.attempts[1].nonce
  <2>1. 1 \in DOMAIN q /\ q[1] = Projected(s.attempts[1])
    BY <1>1, <1>2, <1>4
  <2>2. PICK a \in Attempt : a = s.attempts[1]
    BY <1>1, <1>4
  <2>3. Projected(a).nonce = a.nonce
    BY DEF Projected, Attempt
  <2>4. 1 \notin DOMAIN <<>>
    OBVIOUS
  <2> QED
    BY <2>1, <2>2, <2>3, <2>4
<1>5. ASSUME s.attempts = <<>> PROVE q = <<>>
  <2>1. Len(s.attempts) = 0
    BY <1>5
  <2> QED
    BY <1>2, <2>1
<1> QED
  BY <1>3, <1>4, <1>5

\* The pass that may be reused is kept, forgotten, or was just completed.
LEMMA CompletedMoves ==
    ASSUME [CycleNext]_allVars
    PROVE  \/ completed' = completed \/ completed' = None
           \/ /\ PassCommits /\ DurableComplete
              /\ completed' = [anchor |-> run.anchor,
                               revision |-> Revision(current', blockers')]
<1>1. CASE \/ Create \/ BeginAny \/ RetryFirst \/ Retried \/ Reuse \/ Repass \/ Recover
           \/ PassReads \/ PassBootstraps \/ PassReturns \/ Include \/ SkipInclude
           \/ InclusionReads \/ InclusionHeadMoved \/ InclusionCommits
  BY <1>1 DEF Create, BeginAny, BeginRun, RetryFirst, Retried, Reuse, Repass,
     Recover, PassReads, PassBootstraps, PassReturns, Include, SkipInclude,
     InclusionReads, InclusionHeadMoved, InclusionCommits
<1>2. CASE PassCommits
  BY <1>2 DEF PassCommits
<1>3. CASE \/ Finish \/ Abandon \/ Abandoned
           \/ Resend \/ NoResend \/ SendMarks \/ SendEnds
           \/ Report \/ Accept \/ Prepare \/ PrepareSigns \/ PrepareEnds \/ Broadcast
  BY <1>3 DEF Finish, Abandon, Abandoned, Resend, NoResend, SendMarks, SendEnds, Report,
     Accept, Prepare, PrepareSigns, PrepareEnds, Broadcast, cycleVars
<1>4. CASE \/ Stop \/ WriteFailure \/ RequestFailure \/ Interrupt
           \/ Elapse \/ Chain \/ UNCHANGED allVars
  BY <1>4 DEF Stop, WriteFailure, RequestFailure, Interrupt, Forget, Elapse, Chain,
     allVars, cycleVars
<1> QED
  BY <1>1, <1>2, <1>3, <1>4, Actions

LEMMA CompletedStays ==
    ASSUME CInv, [CycleNext]_allVars
    PROVE  CompletedIsTrue'
<1>1. SUFFICES ASSUME completed' # None PROVE CompletedIsTrue'
  BY DEF CompletedIsTrue
<1>2. CASE completed' = completed
  <2>1. PICK a, v : a = completed.anchor /\ v = completed.revision
    OBVIOUS
  <2>2. a \in Anchor /\ a.num \in 1..durable /\ Canonical(a)
        /\ Released(v, a.num) /\ Unconsumed(v, a.num)
    BY <1>1, <1>2, <2>1, CParts DEF CompletedIsTrue
  <2>3. a.num \in 1..durable' /\ Canonical(a)' /\ chain'[a.num] = chain[a.num]
    BY <2>2, PrefixStays
  <2> QED
    BY <1>2, <2>1, <2>2, <2>3 DEF CompletedIsTrue, Canonical, Released, Unconsumed
<1>3. CASE /\ PassCommits /\ DurableComplete
           /\ completed' = [anchor |-> run.anchor,
                            revision |-> Revision(current', blockers')]
  <2>1. /\ run.phase = "recovering" /\ op.stage = "write" /\ op # None
        /\ op.kind = "recover" /\ current' = pending /\ UNCHANGED <<chain, durable>>
    BY <1>3 DEF PassCommits, RecoverCommits, Committed, At, chainVars
  <2>2. pending # None /\ pending \in Snapshot
    BY <2>1, CParts DEF FileIsKnown, TypeOK
  <2>3. /\ Released(pending, run.anchor.num)
        /\ (run.result = "unresolved" /\ run.settled) =>
             Unconsumed(pending, run.anchor.num)
    BY <2>1, CParts DEF PassState
  <2>4. Unconsumed(pending, run.anchor.num)
    BY <1>3, <2>1, <2>3 DEF DurableComplete, Unconsumed
  <2>5. run.anchor \in Anchor /\ run.anchor.num \in 1..durable /\ Canonical(run.anchor)
    BY <2>1, CParts DEF Anchored
  <2>6. PICK v : v = Revision(pending, blockers')
    OBVIOUS
  <2>7. /\ v.durableNext = pending.durableNext
        /\ v.attempts = <<>> <=> pending.attempts = <<>>
        /\ pending.attempts # <<>> => v.attempts[1].nonce = pending.attempts[1].nonce
    BY <2>2, <2>6, RevisionIs
  <2>8. completed'.anchor = run.anchor /\ completed'.revision = v
    BY <1>3, <2>1, <2>6
  <2> QED
    BY <2>1, <2>3, <2>4, <2>5, <2>7, <2>8
       DEF CompletedIsTrue, Canonical, Released, Unconsumed
<1> QED
  BY <1>1, <1>2, <1>3, CompletedMoves

-----------------------------------------------------------------------------
(* What the passes of a run establish.                                     *)

\* The steps that acknowledge a write.
Commits == Retried \/ PassCommits \/ InclusionCommits \/ SendMarks \/ PrepareEnds

\* What the process knows of the journal after a step.
LEMMA CurrentMoves ==
    ASSUME CInv, [CycleNext]_allVars
    PROVE  \/ current' = current
           \/ Commits /\ current' = pending /\ pending # None
           \/ Create /\ current' = disk /\ ~recovered'
           \/ Stop /\ ~recovered'
<1>1. FileIsKnown /\ OperationState /\ Revoked
  BY CParts
<1>2. CASE \/ BeginAny \/ RetryFirst \/ Reuse \/ Repass
           \/ Recover \/ PassReads \/ PassBootstraps \/ PassReturns
           \/ Include \/ SkipInclude
  BY <1>2 DEF BeginAny, BeginRun, RetryFirst, Reuse, Repass, Recover, PassReads,
     PassBootstraps, PassReturns, Include, SkipInclude, RetryPersistence,
     BeginInspection, RecoverBegin, RecoverInspectsAt, RecoverBootstrapsAt,
     RecoverGivesUp, InclusionsBegin, vars, memVars
<1>3. CASE InclusionReads \/ InclusionHeadMoved \/ Finish \/ Abandon \/ Abandoned
  BY <1>3 DEF InclusionReads, InclusionHeadMoved, Finish, Abandon, Abandoned,
     InclusionsInspectAt, InclusionsGiveUp, FinishInspection, AbandonInspection,
     CompleteAbandonment
<1>4. CASE \/ Resend \/ NoResend \/ SendEnds \/ Report \/ Accept \/ Prepare
           \/ PrepareSigns \/ Broadcast
  <2>1. PrepareSigns => current' = current
    BY Zenon DEF PrepareSigns, PrepareSigned
  <2> QED
    BY <1>4, <2>1 DEF Resend, NoResend, SendEnds, Report, Accept, Prepare, Broadcast,
       BroadcastBegin, BroadcastSend, BroadcastLost, PrepareBeginFor, vars, memVars
<1>5. CASE WriteFailure \/ RequestFailure \/ Interrupt \/ Rests
  BY <1>5, RestsAre DEF WriteFailure, RequestFailure, Interrupt, WriteFails,
     RecoverGivesUp, InclusionsGiveUp, vars, memVars
<1>6. CASE Retried \/ PassCommits \/ InclusionCommits \/ SendMarks
  <2>1. op # None /\ op.stage = "write" /\ current' = pending
    BY <1>1, <1>6 DEF Retried, PassCommits, InclusionCommits, SendMarks, RetryCommits,
       RecoverCommits, InclusionsCommit, BroadcastMarked, Committed, OperationState
  <2>2. pending # None
    BY <1>1, <2>1 DEF FileIsKnown
  <2> QED
    BY <1>6, <2>1, <2>2 DEF Commits
<1>7. CASE PrepareEnds
  <2>1. CASE PrepareRefused
    BY <2>1 DEF PrepareRefused
  <2>2. CASE PrepareCommits
    <3>1. op # None /\ op.stage = "write" /\ current' = pending
      BY <2>2 DEF PrepareCommits, Committed
    <3>2. pending # None
      BY <1>1, <3>1 DEF FileIsKnown
    <3> QED
      BY <1>7, <3>1, <3>2 DEF Commits
  <2> QED
    BY <1>7, <2>1, <2>2 DEF PrepareEnds
<1>8. CASE Create \/ Stop
  BY <1>1, <1>8 DEF Create, Stop, Start, Crash, Down, Revoked
<1> QED
  BY <1>2, <1>3, <1>4, <1>5, <1>6, <1>7, <1>8, Actions DEF Rests

\* Only a committed pass completes recovery.
LEMMA RecoveredMoves ==
    ASSUME CInv, [CycleNext]_allVars, recovered'
    PROVE  recovered \/ PassCommits
<1>1. CASE \/ Create \/ BeginAny \/ RetryFirst \/ Retried \/ Reuse \/ Repass
           \/ Recover \/ PassReads \/ PassBootstraps \/ PassReturns
           \/ Include \/ SkipInclude
  BY <1>1 DEF Create, Start, BeginAny, BeginRun, RetryFirst, Retried, Reuse, Repass,
     Recover, PassReads, PassBootstraps, PassReturns, Include, SkipInclude,
     RetryPersistence, RetryCommits, BeginInspection, RecoverBegin, RecoverInspectsAt,
     RecoverBootstrapsAt, RecoverGivesUp, InclusionsBegin, vars, memVars
<1>2. CASE \/ InclusionReads \/ InclusionHeadMoved \/ InclusionCommits
           \/ Finish \/ Abandon \/ Abandoned
  BY <1>2 DEF InclusionReads, InclusionHeadMoved, InclusionCommits, Finish, Abandon,
     Abandoned, InclusionsInspectAt, InclusionsGiveUp, InclusionsCommit,
     FinishInspection, AbandonInspection, CompleteAbandonment
<1>3. CASE PrepareSigns
  BY <1>3, Zenon DEF PrepareSigns, PrepareSigned
<1>4. CASE \/ Resend \/ NoResend \/ SendMarks \/ SendEnds \/ Report \/ Accept \/ Prepare
           \/ PrepareEnds \/ Broadcast
  BY <1>4 DEF Resend, NoResend, SendMarks, SendEnds, Report, Accept, Prepare,
     PrepareEnds, Broadcast, BroadcastBegin, BroadcastMarked, BroadcastSend,
     BroadcastLost, PrepareBeginFor, PrepareCommits, PrepareRefused, vars, memVars
<1>5. CASE Stop \/ WriteFailure \/ RequestFailure \/ Interrupt \/ Rests
  BY <1>5, RestsAre DEF Stop, Crash, Down, WriteFailure, RequestFailure, Interrupt,
     WriteFails, RecoverGivesUp, InclusionsGiveUp, vars, memVars
<1> QED
  BY <1>1, <1>2, <1>3, <1>4, <1>5, Actions DEF Rests

\* The anchor of a run is read alike before and after a step.
LEMMA AnchorReads ==
    ASSUME CInv, [CycleNext]_allVars, run.phase # "idle"
    PROVE  /\ run.anchor \in Anchor /\ run.anchor.num \in 1..durable
           /\ run.anchor.num \in 1..Len(chain)
           /\ chain'[run.anchor.num] = chain[run.anchor.num]
           /\ chain[run.anchor.num].nonce \in Nat
  BY CParts, PrefixStays, ChainFacts DEF Anchored

\* A pass that read leaves a snapshot that fits what it answered.
LEMMA PassReadsFits ==
    ASSUME CInv, PassReads
    PROVE  /\ pending' # None
           /\ Released(pending, run.anchor.num)'
           /\ run'.result = "resolution-available" =>
                Len(pending'.attempts) < run'.passes
           /\ (run'.result = "unresolved" /\ run'.settled) =>
                Unconsumed(pending, run.anchor.num)'
<1>1. PICK served \in BOOLEAN :
        \E r \in {InspectRecovery(current, run.anchor.num, served)}, b \in BOOLEAN :
            /\ RecoverInspectsAt(run.anchor.num, served)
            /\ Answered(r.status, b)
            /\ b => r.obs.nonce <= current.attempts[1].nonce
  BY DEF PassReads
<1>2. PICK r : r = InspectRecovery(current, run.anchor.num, served)
  OBVIOUS
<1>3. PICK t : t = RecoverySnapshot(current, r)
  OBVIOUS
<1>4. PICK n : n = run.anchor.num
  OBVIOUS
<1>5. At("recovering") /\ current # None
  BY DEF PassReads
<1>6. /\ pending' = t /\ chain' = chain /\ ~ReturnsEarly(current, r)
  BY <1>1, <1>2, <1>3 DEF RecoverInspectsAt, Save, chainVars
<1>7. /\ run'.result = r.status /\ run'.passes = run.passes /\ run'.anchor = run.anchor
      /\ run'.settled => r.obs.nonce <= current.attempts[1].nonce
  BY <1>1, <1>2, CParts DEF Answered, Run
<1>8. AInv /\ n \in 1..Len(chain) /\ ChainTypeOK /\ chain[n].nonce \in Nat
  BY <1>4, <1>5, CParts, Held, ChainFacts DEF At, Anchored
<1>9. current \in Snapshot /\ ValidSnapshot(current) /\ Len(current.attempts) \in Nat
      /\ current.attempts \in Seq(Attempt)
  BY <1>5, CurrentIsTrue
<1>10. /\ t \in Snapshot /\ t # None
       /\ r.status = "resolution-available" =>
            /\ current.attempts # <<>>
            /\ t.durableNext = current.attempts[1].nonce + 1
            /\ chain[n].nonce > current.attempts[1].nonce
            /\ Len(t.attempts) = Len(current.attempts) - 1
       /\ r.status # "resolution-available" =>
            /\ t.durableNext = current.durableNext
            /\ Len(t.attempts) = Len(current.attempts)
            /\ \A i \in 1..Len(current.attempts) :
                 Same(current.attempts[i], t.attempts[i])
  <2>1. r = InspectRecovery(current, n, served)
    BY <1>2, <1>4
  <2> QED
    BY <2>1, <1>3, <1>8, <1>9, RecoveryRecords
<1>11. r.status # "nonce-behind-journal" /\ chain[n].nonce >= current.durableNext
  BY <1>2, <1>4, <1>6, <1>8, <1>9, RecoveryStatus DEF ReturnsEarly
<1>12. chain[n].nonce >= t.durableNext
  <2>1. current.attempts # <<>> => current.attempts[1].nonce \in Nat
    BY <1>9, SnapshotFields
  <2> QED
    BY <1>8, <1>10, <1>11, <2>1
<1>13. r.status = "resolution-available" => Len(t.attempts) < run.passes
  <2>1. run.phase = "recovering" /\ op.stage = "read"
    BY <1>1, <1>5 DEF RecoverInspectsAt, Reading, At
  <2>2. Len(current.attempts) <= run.passes /\ run.passes \in Nat
    BY <1>5, <2>1, CParts DEF PassState, Run
  <2> QED
    BY <1>9, <1>10, <2>2
<1>14. (r.status = "unresolved" /\ r.obs.nonce <= current.attempts[1].nonce) =>
          (t.attempts # <<>> => chain[n].nonce <= t.attempts[1].nonce)
  <2>1. SUFFICES ASSUME r.status = "unresolved",
                        r.obs.nonce <= current.attempts[1].nonce, t.attempts # <<>>
                 PROVE  chain[n].nonce <= t.attempts[1].nonce
    OBVIOUS
  <2>2. r.obs.nonce = chain[n].nonce
    <3>1. r.obs = AnchoredNonce(n)
      BY <1>2, <1>4, <1>8, <1>9, RecoveryAnswers
    <3> QED
      BY <3>1 DEF AnchoredNonce
  <2>3. t.attempts \in Seq(Attempt)
    BY <1>10, SnapshotFields
  <2>4. 1 \in 1..Len(current.attempts)
    BY <1>9, <1>10, <2>1, <2>3
  <2>5. t.attempts[1].nonce = current.attempts[1].nonce
    BY <1>10, <2>1, <2>4 DEF Same
  <2> QED
    BY <2>1, <2>2, <2>5
<1> QED
  BY <1>4, <1>6, <1>7, <1>10, <1>12, <1>13, <1>14 DEF Released, Unconsumed

\* Recovery is complete only with a journal, and never during a pass.
LEMMA RecoveredStays ==
    ASSUME CInv, [CycleNext]_allVars
    PROVE  /\ recovered' => current' # None
           /\ run'.phase = "recovering" => ~recovered'
<1>1. recovered' => current' # None
  <2>1. PassCommits => Commits
    BY DEF Commits
  <2>2. PassCommits => current' # None
    <3>1. ASSUME PassCommits PROVE current' = pending /\ pending # None
      <4>1. op # None /\ op.stage = "write" /\ current' = pending
        BY <3>1 DEF PassCommits, RecoverCommits, Committed
      <4> QED
        BY <4>1, CParts DEF FileIsKnown
    <3> QED
      BY <3>1
  <2>3. recovered => current # None
    BY CParts DEF PassState
  <2> QED
    BY <2>2, <2>3, CurrentMoves, RecoveredMoves
<1>2. ASSUME run'.phase = "recovering" PROVE ~recovered'
  <2>1. CASE Recover
    BY <2>1 DEF Recover, RecoverBegin
  <2>2. CASE PassReads \/ PassBootstraps
    <3>1. run.phase = "recovering" /\ recovered' = recovered
      BY <2>2 DEF PassReads, PassBootstraps, RecoverInspectsAt, RecoverBootstrapsAt, At
    <3> QED
      BY <3>1, CParts DEF PassState
  <2>3. CASE Rests
    BY <1>2, <2>3, RestsAre, CParts DEF PassState
  <2>4. run'.phase # run.phase => Recover
    BY <1>2, PhaseMoves, Actions DEF Rests
  <2>5. run'.phase = run.phase => PassReads \/ PassBootstraps \/ Rests
    BY <1>2, StaysAre
  <2> QED
    BY <2>1, <2>2, <2>3, <2>4, <2>5
<1> QED
  BY <1>1, <1>2

\* A run that has not passed yet has no answer, and reuses nothing.
LEMMA AnswersStay ==
    ASSUME CInv, [CycleNext]_allVars
    PROVE  /\ run'.phase \in {"begin", "retry"} => run'.result = None
           /\ run'.phase \in {"begin", "retry", "recover", "recovering"} => ~run'.reused
<1>1. BeginAny => run'.result = None /\ ~run'.reused
  BY BeginIs
<1>2. /\ run.phase \in {"begin", "retry"} => run.result = None
      /\ run.phase \in {"begin", "retry", "recover", "recovering"} => ~run.reused
  BY CParts DEF PassState
<1>3. SUFFICES ASSUME ~BeginAny,
                      run'.phase \in {"begin", "retry", "recover", "recovering"}
               PROVE  /\ run'.phase \in {"begin", "retry"} => run'.result = None
                      /\ ~run'.reused
  BY <1>1
<1>4. run' # Idle /\ ~Reuse
  BY <1>3, IdleIs, PhaseMoves
<1>5. CASE run'.phase \in {"begin", "retry"}
  <2>1. run'.phase # run.phase => RetryFirst \/ Retried
    BY <1>3, <1>5, PhaseMoves, Actions DEF Rests
  <2>2. run'.phase = run.phase => Rests
    BY <1>5, StaysAre
  <2>3. run.phase \in {"begin", "retry"}
    BY <1>5, <2>1, PhaseMoves
  <2>4. ~(PassReads \/ PassBootstraps \/ PassReturns)
    BY <2>3, PhaseMoves
  <2> QED
    BY <1>2, <1>3, <1>4, <2>3, <2>4, RunMoves
<1>6. CASE run'.phase \in {"recover", "recovering"}
  <2>1. run.phase \in {"begin", "recover", "recovering"}
    <3>1. run'.phase # run.phase => Repass \/ Recover \/ PassCommits
      BY <1>3, <1>6, PhaseMoves, Actions DEF Rests
    <3> QED
      BY <1>6, <3>1, PhaseMoves
  <2> QED
    BY <1>2, <1>3, <1>4, <1>6, <2>1, RunMoves
<1> QED
  BY <1>3, <1>5, <1>6

\* As long as a run may pass again it may do so for every attempt that is left.
LEMMA PassesStay ==
    ASSUME CInv, [CycleNext]_allVars,
           \/ run'.phase = "recover"
           \/ run'.phase = "recovering" /\ op'.stage = "read"
    PROVE  /\ run'.passes >= 1
           /\ current' # None => Len(current'.attempts) <= run'.passes
<1>1. run \in Run /\ run.passes \in Nat
  BY CParts DEF Run
<1>2. CASE Repass
  <2>1. run'.passes = MaxPasses(current) /\ current' = current
    BY <1>1, <1>2 DEF Repass, BeginInspection, Run
  <2>2. current # None => Len(current.attempts) \in Nat
                          /\ current.attempts \in Seq(Attempt)
    BY CurrentIsTrue
  <2> QED
    BY <2>1, <2>2 DEF MaxPasses
<1>3. CASE PassCommits /\ run'.phase = "recover"
  <2>1. /\ run.phase = "recovering" /\ op # None /\ op.stage = "write"
        /\ current' = pending
    BY <1>3 DEF PassCommits, RecoverCommits, Committed, At
  <2>2. pending # None
    BY <2>1, CParts DEF FileIsKnown
  <2>3. ~Goto("include")
    BY <1>1, <1>3, GotoMoves DEF Phases, CyclePhase
  <2>4. /\ run.result = "resolution-available" /\ run.passes > 1
        /\ run' = [run EXCEPT !.phase = "recover", !.passes = @ - 1]
    BY <1>3, <2>3 DEF PassCommits
  <2>5. run'.passes = run.passes - 1
    BY <1>1, <2>4 DEF Run
  <2>6. Len(pending.attempts) < run.passes
    BY <2>1, <2>4, CParts DEF PassState
  <2>7. Len(pending.attempts) \in Nat
    BY <2>2, CParts, Held, SnapshotFields
  <2> QED
    BY <1>1, <2>1, <2>4, <2>5, <2>6, <2>7
<1>4. CASE Recover
  <2>1. run.phase = "recover" /\ current' = current
    BY <1>4 DEF Recover, RecoverBegin, At
  <2>2. run'.passes = run.passes
    BY <1>1, <1>4, GotoMoves DEF Recover, Phases, CyclePhase
  <2> QED
    BY <2>1, <2>2, CParts DEF PassState
<1>5. CASE Rests
  BY <1>5, RestsAre, CParts DEF PassState
<1>6. CASE PassReads \/ PassBootstraps
  <2>1. op'.stage = "write"
    <3>1. op \in Op
      BY <1>6, PlaceIs DEF PassReads, PassBootstraps, At
    <3>2. \/ op' = [op EXCEPT !.stage = "write"]
          \/ \E x : op' = [op EXCEPT !.stage = "write", !.permit = x]
      BY <1>6 DEF PassReads, PassBootstraps, RecoverInspectsAt, RecoverBootstrapsAt
    <3> QED
      BY <3>1, <3>2 DEF Op
  <2>2. run'.phase = "recovering"
    BY <1>6, PhaseMoves
  <2> QED
    BY <2>1, <2>2
<1>7. run'.phase # run.phase => Repass \/ (PassCommits /\ run'.phase = "recover") \/ Recover
  BY PhaseMoves, Actions DEF Rests
<1>8. run'.phase = run.phase => PassReads \/ PassBootstraps \/ Rests
  BY StaysAre
<1> QED
  BY <1>2, <1>3, <1>4, <1>5, <1>6, <1>7, <1>8

\* What a pass is about to write fits the anchor and the answer.
LEMMA PendingFits ==
    ASSUME CInv, [CycleNext]_allVars, run'.phase = "recovering", op'.stage = "write"
    PROVE  /\ Released(pending, run.anchor.num)'
           /\ run'.result = "resolution-available" =>
                Len(pending'.attempts) < run'.passes
           /\ (run'.result = "unresolved" /\ run'.settled) =>
                Unconsumed(pending, run.anchor.num)'
<1>1. run \in Run
  BY CParts
<1>2. CASE PassReads
  BY <1>2, PassReadsFits
<1>3. CASE PassBootstraps
  <2>1. /\ run.phase = "recovering"
        /\ pending' = [baseline |-> chain[run.anchor.num].nonce,
                       next |-> chain[run.anchor.num].nonce,
                       durableNext |-> chain[run.anchor.num].nonce,
                       lastObs |-> AnchoredNonce(run.anchor.num),
                       repairs |-> <<>>, attempts |-> <<>>]
    BY <1>3 DEF PassBootstraps, RecoverBootstrapsAt, Save, At
  <2>2. run'.result = "bootstrapped" /\ run'.anchor = run.anchor
    BY <1>1, <1>3 DEF PassBootstraps, Answered, Run
  <2>3. chain'[run.anchor.num] = chain[run.anchor.num]
        /\ chain[run.anchor.num].nonce \in Nat
    BY <2>1, AnchorReads
  <2>4. pending'.durableNext = chain[run.anchor.num].nonce
    BY <2>1
  <2> QED
    BY <2>2, <2>3, <2>4 DEF Released
<1>4. CASE Rests
  <2>1. /\ run.phase = "recovering" /\ run' = run /\ op' = op /\ pending' = pending
    BY <1>4, RestsAre
  <2>2. chain'[run.anchor.num] = chain[run.anchor.num]
    BY <2>1, AnchorReads
  <2>3. /\ Released(pending, run.anchor.num)
        /\ run.result = "resolution-available" =>
             Len(pending.attempts) < run.passes
        /\ (run.result = "unresolved" /\ run.settled) =>
             Unconsumed(pending, run.anchor.num)
    BY <2>1, CParts DEF PassState
  <2> QED
    BY <2>1, <2>2, <2>3 DEF Released, Unconsumed
<1>5. CASE Recover
  <2>1. op' = [kind |-> "recover", stage |-> "read", permit |-> None, complete |-> FALSE]
    BY <1>5 DEF Recover, RecoverBegin, Begin
  <2> QED
    BY <2>1
<1>6. run'.phase # run.phase => Recover
  BY PhaseMoves, Actions DEF Rests
<1>7. run'.phase = run.phase => PassReads \/ PassBootstraps \/ Rests
  BY StaysAre
<1> QED
  BY <1>2, <1>3, <1>4, <1>5, <1>6, <1>7

\* What a run may rely on when the passes are over.
LEMMA IncludeFits ==
    ASSUME CInv, [CycleNext]_allVars, run'.phase = "include"
    PROVE  /\ recovered' => Released(current, run.anchor.num)'
           /\ run'.result = "resolution-available" =>
                current' # None /\ current'.attempts = <<>>
           /\ run'.reused => recovered' /\ Unconsumed(current, run.anchor.num)'
<1>1. run \in Run /\ run.passes \in Nat
  BY CParts DEF Run
<1>2. CASE Reuse
  <2>1. /\ run.phase = "begin" /\ recovered /\ completed # None
        /\ completed.revision = Revision(current, blockers)
        /\ completed.anchor = run.anchor /\ UNCHANGED <<recovered, current, chain>>
    BY <1>2 DEF Reuse, CanReuse, SameDurable, BeginInspection, At, chainVars
  <2>r. recovered'
    BY <2>1
  <2>2. current # None /\ current \in Snapshot /\ run.result = None
    BY <2>1, CParts DEF PassState, TypeOK
  <2>3. PICK v : v = Revision(current, blockers)
    OBVIOUS
  <2>4. /\ v.durableNext = current.durableNext
        /\ v.attempts = <<>> <=> current.attempts = <<>>
        /\ current.attempts # <<>> => v.attempts[1].nonce = current.attempts[1].nonce
    BY <2>2, <2>3, RevisionIs
  <2>5. Released(v, run.anchor.num) /\ Unconsumed(v, run.anchor.num)
    BY <2>1, <2>3, CParts DEF CompletedIsTrue
  <2>6. run'.result = None /\ run'.anchor = run.anchor
    BY <1>1, <1>2, <2>2 DEF Reuse, Run
  <2>7. Released(current, run.anchor.num)' /\ Unconsumed(current, run.anchor.num)'
    BY <2>1, <2>4, <2>5, <2>6 DEF Released, Unconsumed
  <2>8. run'.result # "resolution-available"
    <3>1. "resolution-available" \in Answers
      BY DEF Answers
    <3> QED
      BY <2>6, <3>1, AnswerAssumption
  <2> QED
    BY <2>r, <2>7, <2>8
<1>3. CASE PassCommits
  <2>1. /\ run.phase = "recovering" /\ op # None /\ op.stage = "write"
        /\ current' = pending /\ recovered' /\ chain' = chain
    BY <1>3 DEF PassCommits, RecoverCommits, Committed, At, chainVars
  <2>2. pending # None
    BY <2>1, CParts DEF FileIsKnown
  <2>3. [run EXCEPT !.phase = "recover", !.passes = @ - 1].phase = "recover"
    BY <1>1 DEF Run
  <2>4. /\ Goto("include")
        /\ ~(run.result = "resolution-available" /\ run.passes > 1
             /\ current'.attempts # <<>>)
    BY <1>3, <2>3 DEF PassCommits
  <2>5. run'.result = run.result /\ run'.anchor = run.anchor /\ run'.reused = run.reused
    BY <1>1, <2>4, GotoMoves DEF Phases, CyclePhase
  <2>6. /\ ~run.reused /\ Released(pending, run.anchor.num)
        /\ run.result = "resolution-available" => Len(pending.attempts) < run.passes
    BY <2>1, CParts DEF PassState
  <2>7. pending.attempts \in Seq(Attempt) /\ Len(pending.attempts) \in Nat
    BY <2>2, CParts, Held, SnapshotFields
  <2>8. run.result = "resolution-available" => pending.attempts = <<>>
    BY <1>1, <2>1, <2>4, <2>6, <2>7
  <2> QED
    BY <2>1, <2>2, <2>5, <2>6, <2>8 DEF Released
<1>4. CASE PassReturns
  <2>1. run.phase = "recovering" /\ recovered' = recovered
    BY <1>4 DEF PassReturns, RecoverGivesUp, At
  <2>2. ~recovered /\ ~run.reused
    BY <2>1, CParts DEF PassState
  <2>3. run'.result = "returned" /\ run'.reused = run.reused
    BY <1>1, <1>4 DEF PassReturns, Run
  <2> QED
    BY <2>1, <2>2, <2>3
<1>5. CASE Rests
  <2>1. /\ run.phase = "include" /\ run' = run /\ current' = current
        /\ recovered' = recovered
    BY <1>5, RestsAre
  <2>2. chain'[run.anchor.num] = chain[run.anchor.num]
    BY <2>1, AnchorReads
  <2>3. /\ recovered => Released(current, run.anchor.num)
        /\ run.result = "resolution-available" =>
             current # None /\ current.attempts = <<>>
        /\ run.reused => recovered /\ Unconsumed(current, run.anchor.num)
    BY <2>1, CParts DEF PassState
  <2> QED
    BY <2>1, <2>2, <2>3 DEF Released, Unconsumed
<1>6. run'.phase # run.phase => Reuse \/ PassCommits \/ PassReturns
  BY PhaseMoves, Actions DEF Rests
<1>7. run'.phase = run.phase => Rests
  BY StaysAre
<1> QED
  BY <1>2, <1>3, <1>4, <1>5, <1>6, <1>7

LEMMA IncludingFits ==
    ASSUME CInv, [CycleNext]_allVars, run'.phase = "including"
    PROVE  /\ current' # None
           /\ op'.stage = "read" => Released(current, run.anchor.num)'
<1>1. run \in Run
  BY CParts
<1>2. CASE Include
  <2>1. run.phase = "include" /\ recovered /\ UNCHANGED <<chain, current>>
    BY <1>2 DEF Include, InclusionsBegin, At, chainVars
  <2>2. Released(current, run.anchor.num) /\ current # None
    BY <2>1, CParts DEF PassState
  <2>3. run'.anchor = run.anchor
    BY <1>1, <1>2, GotoMoves DEF Include, Phases, CyclePhase
  <2> QED
    BY <2>1, <2>2, <2>3 DEF Released
<1>3. CASE InclusionReads
  <2>1. run.phase = "including" /\ current' = current
    BY <1>3 DEF InclusionReads, InclusionsInspectAt, At
  <2>2. op \in Op
    BY <2>1, PlaceIs
  <2>3. PICK servedAt : InclusionsInspectAt(run.head.num, servedAt)
    BY <1>3 DEF InclusionReads
  <2>4. PICK r : r = InspectInclusions(current, run.head.num, servedAt)
    OBVIOUS
  <2>5. op' = [op EXCEPT !.stage = "write", !.permit = r.permit,
                         !.complete = r.complete]
    BY <2>3, <2>4 DEF InclusionsInspectAt
  <2>6. op'.stage = "write"
    BY <2>2, <2>5 DEF Op
  <2> QED
    BY <2>1, <2>6, CParts DEF PassState
<1>4. CASE Rests
  <2>1. run.phase = "including" /\ run' = run /\ current' = current /\ op' = op
    BY <1>4, RestsAre
  <2>2. chain'[run.anchor.num] = chain[run.anchor.num]
    BY <2>1, AnchorReads
  <2>3. current # None /\ (op.stage = "read" => Released(current, run.anchor.num))
    BY <2>1, CParts DEF PassState
  <2> QED
    BY <2>1, <2>2, <2>3 DEF Released
<1>5. run'.phase # run.phase => Include
  BY PhaseMoves, Actions DEF Rests
<1>6. run'.phase = run.phase => InclusionReads \/ Rests
  BY StaysAre
<1> QED
  BY <1>2, <1>3, <1>4, <1>5, <1>6

LEMMA PassStateStays ==
    ASSUME CInv, [CycleNext]_allVars
    PROVE  PassState'
<1>1. /\ recovered' => current' # None
      /\ run'.phase = "recovering" => ~recovered'
  BY RecoveredStays
<1>2. /\ run'.phase \in {"begin", "retry"} => run'.result = None
      /\ run'.phase \in {"begin", "retry", "recover", "recovering"} => ~run'.reused
  BY AnswersStay
<1>3. (\/ run'.phase = "recover"
       \/ run'.phase = "recovering" /\ op'.stage = "read") =>
          /\ run'.passes >= 1
          /\ current' # None => Len(current'.attempts) <= run'.passes
  BY PassesStay
<1>4. (run'.phase = "recovering" /\ op'.stage = "write") =>
          /\ Released(pending, run.anchor.num)'
          /\ run'.result = "resolution-available" =>
               Len(pending'.attempts) < run'.passes
          /\ (run'.result = "unresolved" /\ run'.settled) =>
               Unconsumed(pending, run.anchor.num)'
  BY PendingFits
<1>5. run'.phase = "include" =>
          /\ recovered' => Released(current, run.anchor.num)'
          /\ run'.result = "resolution-available" =>
               current' # None /\ current'.attempts = <<>>
          /\ run'.reused => recovered' /\ Unconsumed(current, run.anchor.num)'
  BY IncludeFits
<1>6. run'.phase = "including" =>
          /\ current' # None
          /\ op'.stage = "read" => Released(current, run.anchor.num)'
  BY IncludingFits
<1> QED
  BY <1>1, <1>2, <1>3, <1>4, <1>5, <1>6 DEF PassState

-----------------------------------------------------------------------------
(* A prepared attempt can be sent.                                         *)

\* An attempt appended behind included ones is the first that is not.
LEMMA AppendedIsFirst ==
    ASSUME NEW q \in Seq(Attempt), FirstUnresolved(q) = 0,
           NEW a \in Attempt, a.phase = "signed"
    PROVE  /\ FirstUnresolved(Append(q, a)) = Len(q) + 1
           /\ Append(q, a)[Len(q) + 1] = a
<1>1. PICK r : r = Append(q, a)
  OBVIOUS
<1>2. /\ r \in Seq(Attempt) /\ Len(q) \in Nat /\ Len(r) = Len(q) + 1
      /\ \A i \in 1..Len(q) : r[i] = q[i]
      /\ r[Len(q) + 1] = a
  BY <1>1, AppendProperties, LenProperties
<1>3. FirstUnresolved(r) \in 1..(Len(q) + 1)
  BY <1>2, FirstUnresolvedIsFirst
<1>4. r[FirstUnresolved(r)].phase # "included"
  BY <1>2, <1>3, FirstUnresolvedRange
<1>5. ~(FirstUnresolved(r) <= Len(q))
  <2> SUFFICES ASSUME FirstUnresolved(r) <= Len(q) PROVE FALSE
    OBVIOUS
  <2>1. PICK k \in 1..Len(q) : k = FirstUnresolved(r)
    BY <1>2, <1>3
  <2>2. q[k].phase # "included"
    BY <1>2, <1>4, <2>1
  <2>3. FirstUnresolved(q) \in 1..k
    BY <2>2, FirstUnresolvedIsFirst
  <2> QED
    BY <2>3
<1> QED
  BY <1>1, <1>2, <1>3, <1>5

\* What prepareAttempt signed is all that the snapshot has unresolved, and has the
\* nonce that was observed.
LEMMA SignedIsReady ==
    ASSUME CInv, PrepareSigns
    PROVE  /\ op'.permit = run'.submit /\ op'.stage = "write"
           /\ recovered' /\ blockers' = {}
           /\ write'.kind = "prepared" /\ Ready(pending)'
<1>1. PICK a : a = [id |-> op.permit, nonce |-> current.next, phase |-> "signed",
                    incl |-> None, seen |-> None,
                    search |-> [lower |-> current.lastObs, through |-> None]]
  OBVIOUS
<1>2. PICK t : t = [current EXCEPT !.next = @ + 1, !.attempts = Append(@, a)]
  OBVIOUS
<1>3. /\ pending' = t /\ write' = [kind |-> "prepared", exhausted |-> FALSE]
      /\ At("preparing") /\ op # None /\ op.kind = "prepare" /\ op.stage = "sign"
      /\ op' = [op EXCEPT !.stage = "write"] /\ up
      /\ UNCHANGED <<recovered, blockers, run>>
  BY <1>1, <1>2, Zenon DEF PrepareSigns, PrepareSigned, Save, cycleVars
<1>4. /\ current # None /\ op \in Op /\ op.permit \in AttemptIds
      /\ op.permit = run.submit /\ recovered /\ blockers = {} /\ inclusions
      /\ FirstUnresolved(current.attempts) = 0
  BY <1>3, CParts DEF OperationState, Preparing, At, Revoked, TypeOK
<1>5. current \in Snapshot /\ current.next \in Nat /\ current.lastObs \in Observation
      /\ current.attempts \in Seq(Attempt)
  BY <1>4, CParts, SnapshotFields DEF TypeOK
<1>6. current.lastObs.nonce = current.next
  <2>1. current.lastObs.nonce >= current.next
    BY <1>4, CParts DEF Grounds, AllIn
  <2>2. ~(current.lastObs.nonce > current.next)
    BY <1>3, <1>4, CParts DEF Latch, UnattributedIn
  <2>3. current.lastObs.nonce \in Nat
    BY <1>5 DEF Observation
  <2> QED
    BY <1>5, <2>1, <2>2, <2>3
<1>7. /\ a \in Attempt /\ a.id = op.permit /\ a.phase = "signed"
      /\ a.nonce = current.next /\ a.search = [lower |-> current.lastObs, through |-> None]
  BY <1>1, <1>4, <1>5 DEF Attempt, Phase, Search
<1>8. a.search.through = None
  BY <1>7
<1>9. /\ t.attempts = Append(current.attempts, a)
      /\ t.lastObs = current.lastObs /\ t.next = current.next + 1
  BY <1>2, <1>5 DEF Snapshot
<1>10. t # None
  BY <1>2, <1>5, <1>7, PreparationKeeps, AbsentAssumption
<1>11. /\ FirstUnresolved(t.attempts) = Len(current.attempts) + 1
       /\ t.attempts[Len(current.attempts) + 1] = a
  BY <1>4, <1>5, <1>7, <1>9, AppendedIsFirst
<1>12. Unresolved(t) = a /\ FirstUnresolved(t.attempts) # 0
  BY <1>5, <1>11, LenProperties DEF Unresolved
<1>13. t.lastObs.nonce = a.nonce /\ t.lastObs.nonce <= t.next
  BY <1>5, <1>6, <1>7, <1>9
<1>14. /\ t # None /\ FirstUnresolved(t.attempts) # 0
       /\ Unresolved(t).id = run.submit
       /\ Unresolved(t).phase = "signed"
       /\ Unresolved(t).search.through = None
       /\ t.lastObs.nonce = Unresolved(t).nonce
       /\ t.lastObs.nonce <= t.next
  BY <1>4, <1>7, <1>8, <1>10, <1>12, <1>13
<1>15. Ready(t)
  BY <1>14 DEF Ready
<1>16. Ready(pending)'
  BY <1>3, <1>14 DEF Ready, Unresolved
<1>17. op'.stage = "write" /\ op'.permit = op.permit
  BY <1>3, <1>4 DEF Op
<1>18. recovered'
  BY <1>3, <1>4
<1>19. write'.kind = "prepared" /\ blockers' = {} /\ run' = run
  BY <1>3, <1>4
<1> QED
  BY <1>4, <1>16, <1>17, <1>18, <1>19

\* Recording it raises no blocker, and authorises its broadcast.
LEMMA RecordedIsSendable ==
    ASSUME CInv, PrepareEnds, PrepareCommits, run'.phase = "broadcast"
    PROVE  /\ CanBroadcast' /\ permit' = run'.submit
           /\ Unresolved(current)'.phase = "signed"
<1>1. /\ At("preparing") /\ op # None /\ op.kind = "prepare" /\ op.stage = "write"
      /\ Committed /\ FinishWrite /\ permit' = op.permit /\ op' = None
      /\ UNCHANGED <<up, recovered, owner>>
  BY DEF PrepareEnds, PrepareCommits
<1>2. /\ op.permit = run.submit /\ recovered /\ blockers = {}
      /\ write.kind = "prepared" /\ Ready(pending) /\ owner = None /\ up
  BY <1>1, CParts, PlaceIs DEF Preparing, At
<1>3. run' # Idle /\ run'.submit = run.submit
  <2>1. run' # Idle
    BY IdleIs
  <2>2. ~BeginAny
    BY <1>1, PhaseMoves DEF CycleNext, At
  <2> QED
    BY <2>1, <2>2, RunMoves DEF CycleNext, SubmitStep
<1>4. Latched(pending) = {}
  <2>1. pending # None /\ pending \in Snapshot
    BY <1>2, CParts DEF Ready, TypeOK
  <2>2. ~UnattributedIn(pending)
    <3>1. pending.lastObs.nonce \in Nat /\ pending.next \in Nat
      BY <2>1, SnapshotFields DEF Observation
    <3> QED
      BY <1>2, <3>1 DEF Ready, UnattributedIn
  <2>3. ~ExhaustedIn(pending)
    BY <1>2 DEF Ready, ExhaustedIn
  <2> QED
    BY <2>2, <2>3 DEF Latched
<1>5. blockers' = {} /\ write' = None
  BY <1>1, <1>2, <1>4 DEF FinishWrite
<1>6. current' = pending /\ pstate' = "idle"
  BY <1>1 DEF Committed
<1>7. recovered'
  BY <1>1, <1>2
<1>8. /\ current' # None /\ FirstUnresolved(current'.attempts) # 0
      /\ permit' = Unresolved(pending).id
      /\ current'.lastObs.nonce = Unresolved(pending).nonce
      /\ Unresolved(pending).phase = "signed"
  BY <1>1, <1>2, <1>6 DEF Ready
<1>9. CanBroadcast'
  BY <1>1, <1>2, <1>5, <1>6, <1>7, <1>8 DEF CanBroadcast, Unresolved
<1> QED
  BY <1>1, <1>2, <1>3, <1>6, <1>8, <1>9 DEF Unresolved

LEMMA PreparingStays ==
    ASSUME CInv, [CycleNext]_allVars
    PROVE  Preparing'
<1>1. run'.phase = "prepare" => run'.submit # None
  <2> SUFFICES ASSUME run'.phase = "prepare" PROVE run'.submit # None
    OBVIOUS
  <2>1. CASE Accept
    <3>1. run.submit # None /\ run \in Run /\ Goto("prepare")
      BY <2>1, CParts DEF Accept, Submittable
    <3> QED
      BY <3>1, GotoMoves DEF Phases, SubmitPhase
  <2>2. CASE Rests
    BY <2>2, RestsAre, CParts DEF Preparing
  <2>3. run'.phase # run.phase => Accept
    BY PhaseMoves, Actions DEF Rests
  <2>4. run'.phase = run.phase => Rests
    BY StaysAre
  <2> QED
    BY <2>1, <2>2, <2>3, <2>4
<1>2. run'.phase = "preparing" =>
        /\ op'.permit = run'.submit /\ op'.stage \in {"sign", "write"}
        /\ recovered' /\ blockers' = {}
        /\ op'.stage = "write" => write'.kind = "prepared" /\ Ready(pending)'
  <2> SUFFICES ASSUME run'.phase = "preparing"
               PROVE  /\ op'.permit = run'.submit /\ op'.stage \in {"sign", "write"}
                      /\ recovered' /\ blockers' = {}
                      /\ op'.stage = "write" =>
                           write'.kind = "prepared" /\ Ready(pending)'
    OBVIOUS
  <2>1. CASE Prepare
    <3>1. /\ op' = [kind |-> "prepare", stage |-> "sign", permit |-> run.submit,
                    complete |-> FALSE]
          /\ recovered /\ blockers = {} /\ UNCHANGED <<recovered, blockers>>
          /\ Goto("preparing") /\ run \in Run
      BY <2>1, CParts DEF Prepare, PrepareBeginFor, GateOpen
    <3>2. run'.submit = run.submit
      BY <3>1, GotoMoves DEF Phases, SubmitPhase
    <3>3. op'.permit = run.submit /\ op'.stage = "sign"
      BY <3>1
    <3>4. recovered' /\ blockers' = {}
      BY <3>1
    <3> QED
      BY <3>2, <3>3, <3>4
  <2>2. CASE PrepareSigns
    BY <2>2, SignedIsReady
  <2>3. CASE Rests
    <3>1. UNCHANGED <<op, recovered, blockers, write, pending, run>>
      BY <2>3, RestsAre
    <3>2. /\ op.permit = run.submit /\ op.stage \in {"sign", "write"}
          /\ recovered /\ blockers = {}
          /\ op.stage = "write" => write.kind = "prepared" /\ Ready(pending)
      BY <3>1, CParts DEF Preparing
    <3>3. Ready(pending) => Ready(pending)'
      BY <3>1 DEF Ready, Unresolved
    <3>4. recovered'
      BY <3>1, <3>2
    <3> QED
      BY <3>1, <3>2, <3>3, <3>4
  <2>4. run'.phase # run.phase => Prepare
    BY PhaseMoves, Actions DEF Rests
  <2>5. run'.phase = run.phase => PrepareSigns \/ Rests
    BY StaysAre
  <2> QED
    BY <2>1, <2>2, <2>3, <2>4, <2>5
<1>3. run'.phase = "broadcast" =>
        /\ CanBroadcast' /\ permit' = run'.submit
        /\ Unresolved(current)'.phase = "signed"
  <2> SUFFICES ASSUME run'.phase = "broadcast"
               PROVE  /\ CanBroadcast' /\ permit' = run'.submit
                      /\ Unresolved(current)'.phase = "signed"
    OBVIOUS
  <2>1. CASE PrepareEnds
    <3>1. PrepareCommits
      BY <2>1, IdleIs DEF PrepareEnds
    <3> QED
      BY <2>1, <3>1, RecordedIsSendable
  <2>2. CASE Rests
    <3>1. UNCHANGED <<up, op, owner, write, pstate, current, recovered, blockers,
                      permit, run>>
      BY <2>2, RestsAre
    <3>2. /\ CanBroadcast /\ permit = run.submit
          /\ Unresolved(current).phase = "signed"
      BY <3>1, CParts DEF Preparing
    <3>3. CanBroadcast'
      BY <3>1, <3>2 DEF CanBroadcast, Unresolved
    <3> QED
      BY <3>1, <3>2, <3>3 DEF Unresolved
  <2>3. run'.phase # run.phase => PrepareEnds
    BY PhaseMoves, Actions DEF Rests
  <2>4. run'.phase = run.phase => Rests
    BY StaysAre
  <2> QED
    BY <2>1, <2>2, <2>3, <2>4
<1> QED
  BY <1>1, <1>2, <1>3 DEF Preparing

-----------------------------------------------------------------------------
(* The invariant.                                                          *)

LEMMA CycleKeeps == CInv /\ [CycleNext]_allVars => CInv'
<1> SUFFICES ASSUME CInv, [CycleNext]_allVars PROVE CInv'
  OBVIOUS
<1>1. AInv' /\ Steps'
  BY CoordinatorKeeps
<1>2. RunTypeOK' /\ Place' /\ AllTrue' /\ Sending' /\ Schedule'
  BY RunTypeStays, PlaceStays, TruthStays, SendingStays, ScheduleStays
<1>3. Anchored' /\ PassState' /\ CompletedIsTrue' /\ Preparing'
  BY AnchoredStays, PassStateStays, CompletedStays, PreparingStays
<1> QED
  BY <1>1, <1>2, <1>3 DEF CInv, RunState

LEMMA CycleStarts == CycleInit => CInv
<1> SUFFICES ASSUME CycleInit PROVE CInv
  OBVIOUS
<1>1. Init /\ run = Idle /\ completed = None /\ retry = NoRetry /\ quiet = {} /\ faults = 0
  BY DEF CycleInit
<1>2. AInv
  BY <1>1, InitHasNoAuthority
<1>3. Steps
  <2>1. chain[1].tx = None /\ Len(chain) = 1
    BY <1>1 DEF Init, ChainInit
  <2> QED
    BY <2>1 DEF Steps
<1>4. /\ ~up /\ disk = None /\ current = None /\ pending = None /\ op = None
      /\ owner = None /\ ~recovered /\ blockers = {}
  BY <1>1 DEF Init
<1>5. RunTypeOK
  BY <1>1, IdleIs, CycleAssumption DEF RunTypeOK, NoRetry
<1>6. Place
  BY <1>1, <1>4, IdleIs DEF Place, Free, Pausing, Holding
<1>7. AllTrue /\ Sending
  BY <1>4 DEF AllTrue, Sending
<1>8. Schedule /\ Anchored /\ CompletedIsTrue
  BY <1>1, IdleIs DEF Schedule, Anchored, CompletedIsTrue, NoRetry
<1>9. PassState /\ Preparing
  BY <1>1, <1>4, IdleIs DEF PassState, Preparing
<1> QED
  BY <1>2, <1>3, <1>5, <1>6, <1>7, <1>8, <1>9 DEF CInv, RunState

\* The invariant holds: whatever is read late, lost, refused or interrupted, a run goes
\* on only from what its earlier steps established (SignerRecoveryCycle.run, submit).
THEOREM CycleInvariance == CycleSafety => []CInv
<1>1. CInv /\ UNCHANGED allVars => CInv'
  BY CycleKeeps
<1> QED
  BY CycleStarts, CycleKeeps, PTL DEF CycleSafety

\* The manager drives the coordinator by its public operations only, in the states in
\* which it accepts them: every behaviour of TransactionManager is one of
\* SignerCoordinator, and what is proved of it holds for the relayer's own calls.
THEOREM ManagerImplementsCoordinator == CycleSafety => Spec
<1>1. CycleInit => Init
  BY DEF CycleInit
<1>2. CInv /\ [CycleNext]_allVars => [Next]_vars
  BY ManagerStepsAreSteps
<1> QED
  BY <1>1, <1>2, CycleInvariance, PTL DEF CycleSafety, Spec

-----------------------------------------------------------------------------
(* The passes of a run agree.                                              *)

\* The anchor of a run, and a canonical head, are blocks of the chain.
LEMMA RunReads ==
    ASSUME CInv, run.phase # "idle"
    PROVE  /\ run.anchor.num \in 1..Len(chain)
           /\ Canonical(run.head) =>
                /\ run.head.num \in 1..Len(chain)
                /\ chain[run.anchor.num].nonce <= chain[run.head.num].nonce
<1>1. /\ run.anchor \in Anchor /\ run.anchor.num \in 1..durable
      /\ run.head \in Anchor /\ run.anchor.num <= run.head.num
  BY CParts DEF Anchored
<1>2. AInv /\ Len(chain) \in Nat /\ durable \in Nat /\ durable <= Len(chain)
  BY CParts, ChainFacts
<1>3. run.anchor.num \in 1..Len(chain)
  BY <1>1, <1>2
<1>4. ASSUME Canonical(run.head)
      PROVE  /\ run.head.num \in 1..Len(chain)
             /\ chain[run.anchor.num].nonce <= chain[run.head.num].nonce
  <2>1. run.head.num \in 1..Len(chain)
    BY <1>1, <1>2, <1>4 DEF Anchor, Canonical
  <2> QED
    BY <1>1, <1>2, <1>3, <2>1, Grows
<1> QED
  BY <1>3, <1>4

LEMMA RunIsWellTyped == CInv => CycleTypeOK
<1> SUFFICES ASSUME CInv PROVE CycleTypeOK
  OBVIOUS
<1>1. TypeOK /\ RunTypeOK /\ CompletedIsTrue
  BY CParts
<1> QED
  BY <1>1 DEF CycleTypeOK, RunTypeOK, Run, CompletedIsTrue

LEMMA ReusedPassFindsNothing == CInv => ReuseIsSound
<1> SUFFICES ASSUME CInv, At("include"), run.reused, NEW served \in BOOLEAN
             PROVE  LET r == InspectRecovery(current, run.anchor.num, served)
                    IN  r.status \in {"no-attempt", "unresolved"}
                        /\ r.search = NoSearch
  BY DEF ReuseIsSound
<1>1. /\ recovered /\ current # None
      /\ Released(current, run.anchor.num) /\ Unconsumed(current, run.anchor.num)
  BY CParts DEF PassState, At
<1>2. current \in Snapshot /\ AInv /\ Steps
  BY <1>1, CParts DEF TypeOK
<1>3. run.anchor.num \in 1..Len(chain)
  BY RunReads DEF At
<1> QED
  BY <1>1, <1>2, <1>3, UnconsumedIsUnresolved

LEMMA HeadAgrees == CInv => HeadNeverContradicts
<1> SUFFICES ASSUME CInv, At("including"), op.stage = "read", Canonical(run.head),
                    NEW servedAt \in SUBSET (1..Len(current.attempts))
             PROVE  InspectInclusions(current, run.head.num, servedAt).status
                      = "inspected"
  BY DEF HeadNeverContradicts
<1>1. current # None /\ Released(current, run.anchor.num)
  BY CParts DEF PassState, At
<1>2. current \in Snapshot /\ ValidSnapshot(current) /\ AInv /\ Steps
  BY <1>1, CParts, Held DEF TypeOK, AllValid
<1>3. /\ run.anchor.num \in 1..Len(chain) /\ run.head.num \in 1..Len(chain)
      /\ chain[run.anchor.num].nonce <= chain[run.head.num].nonce
  BY RunReads DEF At
<1>4. Released(current, run.head.num)
  <2>1. /\ current.durableNext \in Nat /\ chain[run.anchor.num].nonce \in Nat
        /\ chain[run.head.num].nonce \in Nat
    BY <1>2, <1>3, SnapshotFields, ChainFacts
  <2> QED
    BY <1>1, <1>3, <2>1 DEF Released
<1>5. \A i \in 1..Len(current.attempts) : Consumed(current.attempts[i])
  BY <1>1, CParts DEF AllTrue
<1> QED
  BY <1>2, <1>3, <1>4, <1>5, InclusionPasses

\* CycleInv: a durable pass that was skipped would have found nothing, the passes of
\* one run stop only when nothing is left to resolve at their anchor, and the head
\* never contradicts what they recorded (canReuseDurablePass, maxRecoveryPasses, the
\* head check of run), whatever the chain does between the reads.
THEOREM PassesAgree == CycleSafety => []CycleInv
<1>1. CInv => ResolutionsAreDrained
  BY CParts DEF PassState, ResolutionsAreDrained, At
<1>2. CInv => CycleInv
  BY <1>1, RunIsWellTyped, ReusedPassFindsNothing, HeadAgrees DEF CycleInv
<1> QED
  BY <1>2, CycleInvariance, PTL

-----------------------------------------------------------------------------
(* What the manager sends.                                                 *)

\* PreparedIsSendable: between the preparation of an attempt and its broadcast no
\* check of the coordinator can refuse it (submitTransaction, canBroadcast).
THEOREM PreparedCanBeSent == CycleSafety => []PreparedIsSendable
<1>1. CInv => PreparedIsSendable
  BY CParts DEF Preparing, PreparedIsSendable, At
<1> QED
  BY <1>1, CycleInvariance, PTL

LEMMA SendsAreDue ==
    ASSUME CInv, [CycleNext]_allVars,
           op = None, op' # None, op'.kind = "broadcast", op'.stage = "send"
    PROVE  op'.permit \notin quiet
<1>1. run'.phase \in {"resend", "sending"}
  BY KindsOf
<1>2. CASE BroadcastBegin
  <2>1. PICK i \in 1..Len(current.attempts) :
          /\ i = FirstUnresolved(current.attempts)
          /\ op' = [kind |-> "broadcast",
                    stage |-> IF NeedsMark(current.attempts[i]) THEN "write"
                              ELSE "send",
                    permit |-> current.attempts[i].id, complete |-> FALSE]
    BY <1>2, BroadcastIs
  <2>2. op'.permit = Unresolved(current).id /\ Unresolved(current).phase # "signed"
    BY <2>1 DEF Unresolved, NeedsMark
  <2>3. Resend => op'.permit \notin quiet
    BY <2>2, CParts DEF Resend, ClaimDue, Schedule
  <2>4. ~Broadcast
    BY <2>2, CParts DEF Broadcast, Preparing, At
  <2>5. run.phase = run'.phase => FALSE
    BY <1>1, <1>2, CParts DEF BroadcastBegin, CanBroadcast, Place
  <2>6. run'.phase # run.phase => Resend \/ Broadcast
    BY <1>1, PhaseMoves, Actions
  <2> QED
    BY <2>3, <2>4, <2>5, <2>6
<1>3. CASE ~BroadcastBegin
  <2>1. run'.phase # run.phase => Resend \/ Broadcast
    BY <1>1, PhaseMoves, Actions
  <2>2. ~Resend /\ ~Broadcast
    BY <1>3 DEF Resend, Broadcast
  <2>3. run.phase \in {"resend", "sending"}
    BY <1>1, <2>1, <2>2
  <2> QED
    BY <2>3, PlaceIs
<1> QED
  BY <1>2, <1>3

\* ResendsAreSpaced: no transaction that may have been sent leaves again before its
\* retry delay has elapsed, whoever sent it last: the claim of a due attempt, a send
\* by submit, or a process that stopped in between (BroadcastRetrySchedule).
THEOREM SendsAreSpaced == CycleSafety => ResendsAreSpaced
<1>1. CInv /\ [CycleNext]_allVars =>
        [(op = None /\ op' # None /\ op'.kind = "broadcast" /\ op'.stage = "send")
           => op'.permit \notin quiet]_allVars
  BY SendsAreDue
<1> QED
  BY <1>1, CycleInvariance, PTL DEF CycleSafety, ResendsAreSpaced
=============================================================================
