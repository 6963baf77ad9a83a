----------------------- MODULE SignerCoordinatorProofs -----------------------
(***************************************************************************)
(* Proofs about SignerCoordinator, for every set of attempts, assignment   *)
(* of works, bound on the chain and limit of retained attempts.            *)
(*                                                                         *)
(* First what the journal remembers of what escaped (IInv).  Then what the *)
(* signer may act on (AInv): the gate and the permit stand on verified     *)
(* facts, only a finished inspection or a preparation grants them, and the *)
(* journal file only advances.  Last what StatusProjection publishes: the  *)
(* journal stays within its limit, and the reader accepts the status.      *)
(***************************************************************************)
EXTENDS StatusProjection, SequenceTheorems, FiniteSetTheorems,
        WellFoundedInduction, TLAPS

(***************************************************************************)
(* The inductive invariant.                                                *)
(***************************************************************************)

\* Every transaction that escaped and whose nonce s has not released is marked in
\* snapshot s; EscapedIsJournaled says so of the file.
Records(s) ==
    \A t \in escaped :
        /\ s # None
        /\ t.nonce >= s.durableNext => t \in Marked(s)

\* What the file may hold, given what the process knows.
FileIsKnown ==
    /\ ~up => current = None /\ pstate = "idle" /\ op = None
    /\ up /\ pstate = "idle" => current = disk
    /\ pstate = "idle" => pending = None
    /\ pstate # "idle" => pending # None /\ disk \in {current, pending}
    /\ pstate = "writing" <=> (op # None /\ op.stage = "write")

\* Whatever is, or may become, the journal accounts for all that escaped.
AllRecord ==
    /\ Records(disk)
    /\ up => Records(current)
    /\ pending # None => Records(pending)

AllValid == \A s \in {disk, current, pending} : s # None => ValidSnapshot(s)

\* A broadcast is of an attempt that carries its mark.
Sendable(s) ==
    /\ s # None
    /\ FirstUnresolved(s.attempts) # 0
    /\ Unresolved(s).phase # "signed"

OperationState ==
    op # None =>
        /\ op.kind = "retry" => op.stage = "write"
        /\ op.kind = "open-head" => op.stage = "read"
        /\ op.kind # "open-head" /\ op.stage # "write" => pstate = "idle"
        /\ op.kind \in {"recover", "inclusions", "open-head"} => owner # None
        /\ op.kind \in {"inclusions", "prepare", "broadcast"} => current # None
        /\ op.kind = "prepare" => op.permit \in AttemptIds
        /\ op.kind = "broadcast" /\ op.stage = "write" => Sendable(pending)
        /\ op.kind = "broadcast" /\ op.stage = "send" => Sendable(current)

IInv ==
    /\ TypeOK
    /\ FileIsKnown
    /\ AllRecord
    /\ AllValid
    /\ OperationState
    /\ NoEquivocation

-----------------------------------------------------------------------------
(* Reading the chain and the journal.                                      *)

\* A non-empty set of naturals has the minimum that FirstUnresolved takes.
LEMMA MinNat ==
    ASSUME NEW S, S \subseteq Nat, S # {}
    PROVE  Min(S) \in S /\ \A y \in S : Min(S) <= y
<1>1. PICK x \in S : \A y \in S : ~(<<y, x>> \in OpToRel(<, Nat))
  BY NatLessThanWellFounded, WFMin, Zenon
<1>2. \A y \in S : x <= y
  <2> SUFFICES ASSUME NEW y \in S PROVE x <= y
    OBVIOUS
  <2>1. ~(y < x)
    BY <1>1 DEF OpToRel
  <2> QED
    BY <2>1
<1> QED
  BY <1>2 DEF Min

\* FirstUnresolved is 0 or the index of an attempt that is not included.
LEMMA FirstUnresolvedRange ==
    ASSUME NEW q \in Seq(Attempt)
    PROVE  /\ FirstUnresolved(q) \in 0..Len(q)
           /\ FirstUnresolved(q) # 0 =>
                q[FirstUnresolved(q)].phase # "included"
<1> DEFINE open == {i \in 1..Len(q) : q[i].phase # "included"}
<1>1. open \subseteq Nat /\ open \subseteq 1..Len(q) /\ Len(q) \in Nat
  BY LenProperties
<1>2. open # {} => Min(open) \in open
  BY <1>1, MinNat
<1>3. FirstUnresolved(q) = IF open = {} THEN 0 ELSE Min(open)
  BY DEF FirstUnresolved
<1> HIDE DEF open
<1>4. CASE open = {}
  BY <1>1, <1>3, <1>4
<1>5. CASE open # {}
  <2>1. FirstUnresolved(q) \in open
    BY <1>2, <1>3, <1>5
  <2>2. \A i \in open : i \in 0..Len(q) /\ q[i].phase # "included"
    BY <1>1 DEF open
  <2> QED
    BY <2>1, <2>2
<1> QED
  BY <1>4, <1>5

\* Reading a block gives an anchor and a nonce.
LEMMA ReadsAreTyped ==
    ASSUME ChainTypeOK, NEW n \in 1..Len(chain)
    PROVE  /\ AnchorOf(n) \in Anchor /\ AnchoredNonce(n) \in Observation
           /\ chain[n].nonce \in Nat
<1>1. chain[n] \in Block
  BY DEF ChainTypeOK
<1> QED
  BY <1>1 DEF AnchorOf, AnchoredNonce, Anchor, Observation, Block

\* A receipt that was found is anchored to a block.
LEMMA ReceiptIsTyped ==
    ASSUME ChainTypeOK, NEW a, NEW n, NEW served
    PROVE  Receipt(a, n, served).status # "absent" =>
             Receipt(a, n, served).at \in Anchor
<1> DEFINE at == {k \in 1..Len(chain) : chain[k].tx = TxOf(a)}
           pick == CHOOSE k \in at : TRUE
<1>1. CASE ~served \/ at = {}
  BY <1>1 DEF Receipt
<1>2. CASE served /\ at # {}
  <2>1. pick \in at
    BY <1>2
  <2>2. AnchorOf(pick) \in Anchor
    BY <2>1, ReadsAreTyped
  <2>3. Receipt(a, n, served).at = AnchorOf(pick)
    BY <1>2 DEF Receipt
  <2> QED
    BY <2>2, <2>3
<1> QED
  BY <1>1, <1>2

\* A replacement search answers blocks of the chain and a resumable position.
LEMMA SearchIsTyped ==
    ASSUME ChainTypeOK, NEW n \in 1..Len(chain),
           NEW a, NEW s \in Search \cup {None}
    PROVE  LET r == SearchReplacement(a, s, n)
           IN  /\ r.exhausted \in BOOLEAN
               /\ r.status \in {"not-found", "replacement-found"} =>
                    s # None /\ r.at \in Anchor
<1> DEFINE r        == SearchReplacement(a, s, n)
           lower    == AnchorPart(s.lower)
           boundary == IF s.through = None THEN lower ELSE s.through
           last     == Min({boundary.num + MaxBlockRange, n})
           hits     == {k \in Scanned(boundary, last) :
                          chain[k].tx # None /\ chain[k].tx.nonce = a.nonce}
           behind   == lower.num >= n \/ boundary.num > n
           same     == Canonical(lower) /\ Canonical(boundary)
<1>a. s # None => lower.num \in Nat \ {0} /\ boundary.num \in Nat \ {0}
  BY DEF Search, Observation, Anchor, AnchorPart
<1>b. n \in Nat /\ Len(chain) \in Nat
  BY DEF ChainTypeOK
<1>1. CASE s = None
  <2>1. r = SearchResult("missing-lower-bound", None, FALSE)
    BY <1>1 DEF SearchReplacement
  <2> QED
    BY <2>1 DEF SearchResult
<1>2. CASE s # None /\ behind
  <2>0. ~(lower.num < n /\ boundary.num <= n)
    BY <1>a, <1>b, <1>2
  <2>1. r = SearchResult("anchor-behind-search", None, FALSE)
    BY <1>2, <2>0, Zenon DEF SearchReplacement
  <2> QED
    BY <2>1 DEF SearchResult
<1>3. CASE s # None /\ ~behind /\ ~same
  <2>0. lower.num < n /\ boundary.num <= n
    BY <1>a, <1>b, <1>3
  <2>1. r = SearchResult("boundary-changed", None, FALSE)
    BY <1>3, <2>0, Zenon DEF SearchReplacement
  <2> QED
    BY <2>1 DEF SearchResult
<1>4. CASE s # None /\ ~behind /\ same
  <2>1. boundary.num \in Nat \ {0} /\ boundary.num <= n
    BY <1>a, <1>b, <1>4
  <2> HIDE DEF boundary
  <2>2. last \in {boundary.num + MaxBlockRange, n} /\ last <= n
    <3>1. {boundary.num + MaxBlockRange, n} \subseteq Nat
      BY <1>b, <2>1, InspectionAssumption
    <3> QED
      BY <3>1, MinNat
  <2>3. last \in 1..Len(chain)
    BY <1>b, <2>1, <2>2, InspectionAssumption
  <2> HIDE DEF last
  <2>4. CASE hits = {}
    <3>1. r = SearchResult(IF last > boundary.num THEN "not-found"
                                                  ELSE "nothing-scanned",
                           AnchorOf(last), Exhausts(last, n))
      BY <1>a, <1>b, <1>4, <2>4 DEF SearchReplacement, boundary, last
    <3> QED
      BY <1>4, <2>3, <3>1, ReadsAreTyped DEF SearchResult, Exhausts
  <2>5. CASE hits # {}
    <3>1. hits \subseteq Nat /\ hits \subseteq 1..Len(chain)
      BY <2>1, <2>3 DEF Scanned, ChainTypeOK
    <3>2. Min(hits) \in 1..Len(chain)
      BY <3>1, <2>5, MinNat
    <3>3. r = SearchResult(IF chain[Min(hits)].tx = TxOf(a)
                           THEN "recorded-transaction-found"
                           ELSE "replacement-found",
                           AnchorOf(Min(hits)), FALSE)
      BY <1>a, <1>b, <1>4, <2>5 DEF SearchReplacement, boundary, last
    <3> QED
      BY <1>4, <3>2, <3>3, ReadsAreTyped DEF SearchResult
  <2> QED
    BY <2>4, <2>5
<1> QED
  BY <1>1, <1>2, <1>3, <1>4

\* A block of the chain is canonical.
LEMMA ReadIsCanonical ==
    ASSUME ChainTypeOK, NEW n \in 1..Len(chain), NEW k \in 1..n
    PROVE  AnchorOf(k).num <= n /\ Canonical(AnchorOf(k)) /\ AnchorOf(k) \in Anchor
<1>1. Len(chain) \in Nat
  BY DEF ChainTypeOK
<1>2. k \in 1..Len(chain) /\ k <= n /\ k <= Len(chain)
  BY <1>1
<1> QED
  BY <1>2, ReadsAreTyped DEF AnchorOf, Canonical

\* A replacement is found in a block not above the anchor, and is another
\* transaction with the nonce.
LEMMA SearchFinds ==
    ASSUME ChainTypeOK, NEW n \in 1..Len(chain),
           NEW a, NEW s \in Search \cup {None},
           SearchReplacement(a, s, n).status = "replacement-found"
    PROVE  \E k \in 1..n : /\ SearchReplacement(a, s, n).at = AnchorOf(k)
                           /\ chain[k].tx # None /\ chain[k].tx.nonce = a.nonce
                           /\ chain[k].tx # TxOf(a)
<1> DEFINE r        == SearchReplacement(a, s, n)
           lower    == AnchorPart(s.lower)
           boundary == IF s.through = None THEN lower ELSE s.through
           last     == Min({boundary.num + MaxBlockRange, n})
           hits     == {k \in Scanned(boundary, last) :
                          chain[k].tx # None /\ chain[k].tx.nonce = a.nonce}
           behind   == lower.num >= n \/ boundary.num > n
           same     == Canonical(lower) /\ Canonical(boundary)
<1>a. s # None => lower.num \in Nat \ {0} /\ boundary.num \in Nat \ {0}
  BY DEF Search, Observation, Anchor, AnchorPart
<1>b. n \in Nat /\ Len(chain) \in Nat
  BY DEF ChainTypeOK
<1>1. s # None
  <2>1. s = None => r = SearchResult("missing-lower-bound", None, FALSE)
    BY DEF SearchReplacement
  <2> QED
    BY <2>1 DEF SearchResult
<1>2. ~behind
  <2> SUFFICES ASSUME behind PROVE FALSE
    OBVIOUS
  <2>0. ~(lower.num < n /\ boundary.num <= n)
    BY <1>a, <1>b, <1>1
  <2>1. r = SearchResult("anchor-behind-search", None, FALSE)
    BY <1>1, <2>0, Zenon DEF SearchReplacement
  <2> QED
    BY <2>1 DEF SearchResult
<1>3. same
  <2> SUFFICES ASSUME ~same PROVE FALSE
    OBVIOUS
  <2>0. lower.num < n /\ boundary.num <= n
    BY <1>a, <1>b, <1>1, <1>2
  <2>1. r = SearchResult("boundary-changed", None, FALSE)
    BY <1>1, <1>2, <2>0, Zenon DEF SearchReplacement
  <2> QED
    BY <2>1 DEF SearchResult
<1>4. boundary.num \in Nat \ {0} /\ boundary.num <= n
  BY <1>a, <1>b, <1>1, <1>2
<1> HIDE DEF boundary
<1>5. last \in {boundary.num + MaxBlockRange, n} /\ last <= n
  <2>1. {boundary.num + MaxBlockRange, n} \subseteq Nat
    BY <1>b, <1>4, InspectionAssumption
  <2> QED
    BY <2>1, MinNat
<1>6. last \in 1..n
  BY <1>b, <1>4, <1>5, InspectionAssumption
<1> HIDE DEF last
<1>7. hits # {}
  <2> SUFFICES ASSUME hits = {} PROVE FALSE
    OBVIOUS
  <2>1. r = SearchResult(IF last > boundary.num THEN "not-found"
                                                ELSE "nothing-scanned",
                         AnchorOf(last), Exhausts(last, n))
    BY <1>a, <1>b, <1>1, <1>2, <1>3 DEF SearchReplacement, boundary, last
  <2> QED
    BY <2>1 DEF SearchResult
<1>8. hits \subseteq Nat /\ hits \subseteq 1..n
  BY <1>4, <1>6 DEF Scanned
<1>9. Min(hits) \in 1..n
  BY <1>7, <1>8, MinNat
<1>10. r = SearchResult(IF chain[Min(hits)].tx = TxOf(a)
                        THEN "recorded-transaction-found"
                        ELSE "replacement-found",
                        AnchorOf(Min(hits)), FALSE)
  BY <1>a, <1>b, <1>1, <1>2, <1>3, <1>7 DEF SearchReplacement, boundary, last
<1>11. /\ chain[Min(hits)].tx # None /\ chain[Min(hits)].tx.nonce = a.nonce
       /\ chain[Min(hits)].tx # TxOf(a)
  <2>1. Min(hits) \in hits
    BY <1>7, <1>8, MinNat
  <2> QED
    BY <1>10, <2>1 DEF SearchResult
<1>12. PICK m : m = Min(hits)
  OBVIOUS
<1>13. /\ m \in 1..n /\ r.at = AnchorOf(m)
       /\ chain[m].tx # None /\ chain[m].tx.nonce = a.nonce /\ chain[m].tx # TxOf(a)
  BY <1>9, <1>10, <1>11, <1>12 DEF SearchResult
<1> HIDE DEF hits
<1> QED
  BY <1>13

-----------------------------------------------------------------------------
(* Every snapshot an operation derives keeps what the previous one marks.  *)

\* t releases no more than the nonces below its own durableNext.
Keeps(s, t) ==
    /\ t.durableNext >= s.durableNext
    /\ \A x \in Marked(s) : x.nonce >= t.durableNext => x \in Marked(t)

\* A transaction is marked when some attempt carries it and is past signing.
LEMMA MarkedIs ==
    ASSUME NEW s, NEW x
    PROVE  x \in Marked(s) <=>
             \E i \in 1..Len(s.attempts) :
                 s.attempts[i].phase # "signed" /\ x = TxOf(s.attempts[i])
  BY Zenon DEF Marked

\* A receipt lookup has three answers.
LEMMA ReceiptStatus ==
    ASSUME NEW a, NEW n, NEW served
    PROVE  Receipt(a, n, served).status
             \in {"absent", "verified", "included-not-durable"}
<1> DEFINE at == {k \in 1..Len(chain) : chain[k].tx = TxOf(a)}
           pick == CHOOSE k \in at : TRUE
<1>1. CASE ~served \/ at = {}
  BY <1>1 DEF Receipt
<1>2. CASE served /\ at # {}
  BY <1>2 DEF Receipt
<1> QED
  BY <1>1, <1>2

\* What a recovery pass may answer.
LEMMA RecoveryAnswers ==
    ASSUME ChainTypeOK, NEW n \in 1..Len(chain), NEW s \in Snapshot, NEW served
    PROVE  LET r     == InspectRecovery(s, n, served)
               found == SearchReplacement(s.attempts[1],
                            ResolvedSearch(s.attempts[1], s.lastObs), n)
           IN  /\ r.obs = AnchoredNonce(n)
               /\ r.search = NoSearch \/ (s.attempts # <<>> /\ r.search = found)
               /\ r.status \in {"resolution-available", "unresolved"} =>
                    s.attempts # <<>>
               /\ r.status = "resolution-available" =>
                    AnchoredNonce(n).nonce > s.attempts[1].nonce
<1> DEFINE r        == InspectRecovery(s, n, served)
           obs      == AnchoredNonce(n)
           a        == s.attempts[1]
           receipt  == Receipt(a, n, served)
           consumed == obs.nonce > a.nonce
           found    == SearchReplacement(a, ResolvedSearch(a, s.lastObs), n)
<1>1. obs.nonce \in Nat /\ s.durableNext \in Nat
  BY ReadsAreTyped DEF Observation, Snapshot
<1>2. CASE obs.nonce < s.durableNext
  <2>1. ~(obs.nonce >= s.durableNext)
    BY <1>1, <1>2
  <2>2. r = [status |-> "nonce-behind-journal", obs |-> obs,
             receipt |-> None, search |-> NoSearch]
    BY <1>2, <2>1, Zenon DEF InspectRecovery
  <2> QED
    BY <2>2
<1>3. CASE obs.nonce >= s.durableNext /\ s.attempts = <<>>
  <2>1. ~(obs.nonce < s.durableNext)
    BY <1>1, <1>3
  <2>2. r = [status |-> "no-attempt", obs |-> obs,
             receipt |-> None, search |-> NoSearch]
    BY <1>3, <2>1, Zenon DEF InspectRecovery
  <2> QED
    BY <2>2
<1>4. CASE obs.nonce >= s.durableNext /\ s.attempts # <<>>
  <2>1. ~(obs.nonce < s.durableNext)
    BY <1>1, <1>4
  <2> DEFINE Result(status, search) == [status |-> status, obs |-> obs,
                               receipt |-> receipt.status, search |-> search]
             rest == CASE receipt.status = "verified" ->
                            Result(IF consumed THEN "resolution-available"
                                   ELSE "inconsistent-observations", NoSearch)
                       [] receipt.status = "included-not-durable" /\ consumed ->
                            Result("inconsistent-observations", NoSearch)
                       [] receipt.status # "verified" /\ ~consumed ->
                            Result("unresolved", NoSearch)
                       [] receipt.status = "absent" /\ consumed ->
                            Result(IF found.status = "replacement-found"
                                   THEN "resolution-available"
                                   ELSE "unresolved", found)
  <2>2. r = rest
    BY <1>4, <2>1, Zenon DEF InspectRecovery
  <2>3. receipt.status \in {"absent", "verified", "included-not-durable"}
    BY ReceiptStatus
  <2> HIDE DEF r, receipt, consumed, found, obs
  <2>4. /\ rest.obs = obs /\ rest.search \in {NoSearch, found}
        /\ rest.status = "resolution-available" => consumed
    BY <2>3
  <2> QED
    BY <1>4, <2>2, <2>4 DEF r, found, obs, consumed
<1> QED
  BY <1>1, <1>2, <1>3, <1>4

\* The fields of a journal snapshot.
LEMMA SnapshotFields ==
    ASSUME NEW s \in Snapshot
    PROVE  /\ s.next \in Nat /\ s.durableNext \in Nat /\ s.baseline \in Nat
           /\ s.lastObs \in Observation /\ s.repairs \in Seq(Repair)
           /\ s.attempts \in Seq(Attempt) /\ Len(s.attempts) \in Nat
           /\ \A i \in 1..Len(s.attempts) :
                /\ s.attempts[i] \in Attempt
                /\ TxOf(s.attempts[i]) \in Tx
                /\ s.attempts[i].nonce \in Nat
           /\ s.attempts # <<>> => 1 \in 1..Len(s.attempts)
<1>1. s.attempts \in Seq(Attempt)
  BY DEF Snapshot
<1>2. /\ Len(s.attempts) \in Nat
      /\ \A i \in 1..Len(s.attempts) : s.attempts[i] \in Attempt
      /\ s.attempts # <<>> => Len(s.attempts) \in Nat \ {0}
  BY <1>1, LenProperties, ElementOfSeq, EmptySeq
<1> QED
  BY <1>1, <1>2 DEF Snapshot, Attempt, TxOf, Tx

\* The nonce observation that a snapshot keeps is one of the two.
LEMMA KeptObservation ==
    ASSUME NEW s \in Snapshot, NEW obs \in Observation
    PROVE  ObservationToKeep(s, obs) \in Observation
  BY SnapshotFields DEF ObservationToKeep

\* The search that recovery resumes and records fits the snapshot.
LEMMA RecoverySearchIsTyped ==
    ASSUME ChainTypeOK, NEW n \in 1..Len(chain), NEW s \in Snapshot, NEW served,
           s.attempts # <<>>, NEW lastObs \in Observation
    PROVE  LET r     == InspectRecovery(s, n, served)
               bound == RecordedSearch(s.attempts[1], s, lastObs)
           IN  /\ bound \in Search \cup {None}
               /\ r.search.exhausted \in BOOLEAN
               /\ r.search.status = "not-found" =>
                    [bound EXCEPT !.through = r.search.at] \in Search
<1> DEFINE r     == InspectRecovery(s, n, served)
           a     == s.attempts[1]
           res   == ResolvedSearch(a, s.lastObs)
           found == SearchReplacement(a, res, n)
           bound == RecordedSearch(a, s, lastObs)
<1>1. a \in Attempt /\ s.lastObs \in Observation
  BY SnapshotFields
<1>2. res \in Search \cup {None}
  BY <1>1 DEF ResolvedSearch, Search, Attempt
<1>3. bound = res \/ bound \in Search
  BY <1>1 DEF RecordedSearch, Search
<1>4. r.search = NoSearch \/ r.search = found
  BY RecoveryAnswers
<1>5. /\ found.exhausted \in BOOLEAN
      /\ found.status = "not-found" => res # None /\ found.at \in Anchor
  BY <1>2, SearchIsTyped
<1>6. NoSearch.status = "none" /\ NoSearch.exhausted = FALSE
  BY DEF NoSearch, SearchResult
<1> HIDE DEF r, a, res, found, bound
<1>7. r.search.status = "not-found" => bound \in Search /\ r.search.at \in Anchor
  BY <1>2, <1>3, <1>4, <1>5, <1>6
<1>8. r.search.status = "not-found" =>
        [bound EXCEPT !.through = r.search.at] \in Search
  BY <1>7 DEF Search
<1>9. bound \in Search \cup {None} /\ r.search.exhausted \in BOOLEAN
  BY <1>2, <1>3, <1>4, <1>5, <1>6
<1> QED
  BY <1>8, <1>9 DEF r, a, bound

\* Recovery drops at most the oldest attempt, and releases its nonce with it.
LEMMA RecoveryKeeps ==
    ASSUME ChainTypeOK, NEW n \in 1..Len(chain), NEW served,
           NEW s \in Snapshot, ValidSnapshot(s)
    PROVE  LET t == RecoverySnapshot(s, InspectRecovery(s, n, served))
           IN  t \in Snapshot /\ Keeps(s, t)
<1> DEFINE r       == InspectRecovery(s, n, served)
           lastObs == ObservationToKeep(s, r.obs)
           oldest  == s.attempts[1]
           bound   == RecordedSearch(oldest, s, lastObs)
           search  == IF r.search.status = "not-found"
                      THEN [bound EXCEPT !.through = r.search.at] ELSE bound
           t       == RecoverySnapshot(s, r)
<1>1. lastObs \in Observation
  BY RecoveryAnswers, ReadsAreTyped, KeptObservation
<1>2. \A i \in 1..Len(s.attempts) : s.attempts[i].nonce = s.durableNext + i - 1
  BY DEF ValidSnapshot
<1>3. CASE s.attempts = <<>>
  <2>1. t = [s EXCEPT !.lastObs = lastObs]
    BY <1>3, Zenon DEF RecoverySnapshot
  <2> HIDE DEF t, lastObs
  <2>2. t \in Snapshot /\ t.durableNext = s.durableNext /\ t.attempts = s.attempts
    BY <1>1, <2>1 DEF Snapshot
  <2>3. Marked(t) = Marked(s)
    BY <2>2 DEF Marked
  <2> QED
    BY <2>2, <2>3, SnapshotFields DEF Keeps, t
<1>4. CASE s.attempts # <<>> /\ r.status = "resolution-available"
  <2>1. t = [s EXCEPT !.lastObs = lastObs, !.durableNext = oldest.nonce + 1,
                      !.attempts = Tail(@)]
    BY <1>4, Zenon DEF RecoverySnapshot
  <2>2. oldest.nonce = s.durableNext
    BY <1>2, <1>4, SnapshotFields
  <2>3. /\ Tail(s.attempts) \in Seq(Attempt)
        /\ Len(Tail(s.attempts)) = Len(s.attempts) - 1
        /\ \A i \in 1..Len(Tail(s.attempts)) :
             Tail(s.attempts)[i] = s.attempts[i + 1]
    BY <1>4, SnapshotFields, HeadTailProperties
  <2> HIDE DEF t, lastObs, oldest
  <2>4. /\ t \in Snapshot /\ t.durableNext = s.durableNext + 1
        /\ t.attempts = Tail(s.attempts)
    <3>1. t = [s EXCEPT !.lastObs = lastObs, !.durableNext = s.durableNext + 1,
                        !.attempts = Tail(s.attempts)]
      BY <2>1, <2>2, Zenon
    <3>2. s.durableNext + 1 \in Nat
      BY SnapshotFields
    <3> QED
      BY <1>1, <2>3, <3>1, <3>2 DEF Snapshot
  <2>5. ASSUME NEW x \in Marked(s), x.nonce >= t.durableNext
        PROVE  x \in Marked(t)
    <3>1. PICK i \in 1..Len(s.attempts) :
            s.attempts[i].phase # "signed" /\ x = TxOf(s.attempts[i])
      BY MarkedIs
    <3>2. x.nonce = s.durableNext + i - 1
      BY <1>2, <3>1 DEF TxOf
    <3>3. i - 1 \in 1..Len(t.attempts) /\ t.attempts[i - 1] = s.attempts[i]
      BY <2>3, <2>4, <2>5, <3>2, SnapshotFields
    <3> QED
      BY <3>1, <3>3, MarkedIs
  <2>6. s.durableNext <= t.durableNext
    BY <2>4, SnapshotFields
  <2>7. Keeps(s, t)
    BY <2>5, <2>6 DEF Keeps
  <2> QED
    BY <2>4, <2>7 DEF t
<1>5. CASE s.attempts # <<>> /\ r.status # "resolution-available"
  <2>1. t = [s EXCEPT !.lastObs = lastObs, !.attempts[1].search = search]
    BY <1>5, Zenon DEF RecoverySnapshot
  <2>2. search \in Search \cup {None}
    BY <1>1, <1>5, RecoverySearchIsTyped
  <2> HIDE DEF t, lastObs, search
  <2> DEFINE b == [oldest EXCEPT !.search = search]
  <2>3. /\ oldest \in Attempt /\ 1 \in 1..Len(s.attempts)
        /\ b \in Attempt /\ TxOf(b) = TxOf(oldest) /\ b.phase = oldest.phase
    <3>1. oldest \in Attempt /\ 1 \in 1..Len(s.attempts)
      BY <1>5, SnapshotFields
    <3> HIDE DEF oldest
    <3> QED
      BY <2>2, <3>1 DEF Attempt, TxOf
  <2>4. t = [s EXCEPT !.lastObs = lastObs,
                      !.attempts = [s.attempts EXCEPT ![1] = b]]
    BY <2>1, <2>3 DEF Snapshot
  <2> HIDE DEF oldest, b
  <2>5. /\ [s.attempts EXCEPT ![1] = b] \in Seq(Attempt)
        /\ Len([s.attempts EXCEPT ![1] = b]) = Len(s.attempts)
        /\ \A j \in 1..Len(s.attempts) :
             [s.attempts EXCEPT ![1] = b][j] = IF j = 1 THEN b ELSE s.attempts[j]
    BY <2>3, SnapshotFields, ExceptSeq
  <2>6. /\ t \in Snapshot /\ t.durableNext = s.durableNext
        /\ Len(t.attempts) = Len(s.attempts)
        /\ \A j \in 1..Len(s.attempts) :
             t.attempts[j] = IF j = 1 THEN b ELSE s.attempts[j]
    BY <1>1, <2>4, <2>5, SnapshotFields DEF Snapshot
  <2>7. \A j \in 1..Len(s.attempts) :
          /\ TxOf(t.attempts[j]) = TxOf(s.attempts[j])
          /\ t.attempts[j].phase = s.attempts[j].phase
    BY <2>3, <2>6 DEF oldest
  <2>8. ASSUME NEW x \in Marked(s)
        PROVE  x \in Marked(t)
    <3>1. PICK i \in 1..Len(s.attempts) :
            s.attempts[i].phase # "signed" /\ x = TxOf(s.attempts[i])
      BY MarkedIs
    <3> QED
      BY <2>6, <2>7, <3>1, MarkedIs
  <2> QED
    BY <2>6, <2>8, SnapshotFields DEF Keeps, t
<1> QED
  BY <1>3, <1>4, <1>5

\* b is a with only its phase, inclusion and search changed, and still marked if a was.
SameTransaction(a, b) ==
    /\ b \in Attempt
    /\ TxOf(b) = TxOf(a)
    /\ a.phase # "signed" => b.phase # "signed"

\* Demoting an attempt after a reorganisation keeps its transaction and its mark.
LEMMA DemotedIsSame ==
    ASSUME NEW a \in Attempt
    PROVE  SameTransaction(a, Demoted(a))
<1> DEFINE kept == IF a.search = None THEN None
                   ELSE [a.search EXCEPT !.through = None]
<1>1. kept \in Search \cup {None}
  BY DEF Attempt, Search
<1>2. Demoted(a) = [a EXCEPT !.phase = "broadcast-may-have-occurred",
                             !.incl = None, !.seen = None, !.search = kept]
  BY DEF Demoted
<1> HIDE DEF kept
<1> QED
  BY <1>1, <1>2 DEF SameTransaction, Attempt, Phase, TxOf

\* What the record of an observed inclusion is.
LEMMA IncludedIs ==
    ASSUME ChainTypeOK, NEW n \in 1..Len(chain), NEW a \in Attempt, NEW at \in Anchor,
           NEW tx \in Tx, NEW nonce \in Nat \cup {None}
    PROVE  LET b == Included(a, at, tx, n, nonce)
           IN  /\ b \in Attempt /\ b.id = a.id /\ b.nonce = a.nonce /\ b.search = a.search
               /\ b.phase = "included" /\ b.incl = at
               /\ b.seen.head = AnchorOf(n) /\ b.seen.tx = tx /\ b.seen.nonce = nonce
               /\ b.seen \in Sighting /\ SameTransaction(a, b)
<1>1. PICK e : e = [head |-> AnchorOf(n), tx |-> tx, nonce |-> nonce]
  OBVIOUS
<1>2. e \in Sighting
  BY <1>1, ReadsAreTyped DEF Sighting
<1>3. PICK b : b = [a EXCEPT !.phase = "included", !.incl = at, !.seen = e]
  OBVIOUS
<1>4. b = Included(a, at, tx, n, nonce)
  BY <1>1, <1>3 DEF Included
<1>5. /\ b \in Attempt /\ b.id = a.id /\ b.nonce = a.nonce /\ b.search = a.search
      /\ b.phase = "included" /\ b.incl = at /\ b.seen = e
  BY <1>2, <1>3 DEF Attempt, Phase
<1>6. SameTransaction(a, b)
  BY <1>5 DEF SameTransaction, TxOf
<1> QED
  BY <1>1, <1>2, <1>4, <1>5, <1>6

\* The record of an inclusion that was seen again, under head n.
SeenAgain(a, n) == [a EXCEPT !.seen.head = AnchorOf(n)]

\* It differs from the old record in that head only.
LEMMA SeenAgainIs ==
    ASSUME ChainTypeOK, NEW n \in 1..Len(chain), NEW a \in Attempt, a.seen \in Sighting
    PROVE  LET b == SeenAgain(a, n)
           IN  /\ b \in Attempt /\ b.id = a.id /\ b.nonce = a.nonce /\ b.search = a.search
               /\ b.phase = a.phase /\ b.incl = a.incl
               /\ b.seen \in Sighting /\ b.seen.head = AnchorOf(n)
               /\ b.seen.tx = a.seen.tx /\ b.seen.nonce = a.seen.nonce
               /\ SameTransaction(a, b)
<1>1. PICK e : e = [a.seen EXCEPT !.head = AnchorOf(n)]
  OBVIOUS
<1>2. /\ e \in Sighting /\ e.head = AnchorOf(n)
      /\ e.tx = a.seen.tx /\ e.nonce = a.seen.nonce
  BY <1>1, ReadsAreTyped DEF Sighting
<1>3. PICK b : b = [a EXCEPT !.seen = e]
  OBVIOUS
<1>4. b = SeenAgain(a, n)
  BY <1>1, <1>3 DEF SeenAgain, Attempt
<1>5. /\ b \in Attempt /\ b.id = a.id /\ b.nonce = a.nonce /\ b.search = a.search
      /\ b.phase = a.phase /\ b.incl = a.incl /\ b.seen = e
  BY <1>2, <1>3 DEF Attempt
<1>6. SameTransaction(a, b)
  BY <1>5 DEF SameTransaction, TxOf
<1> QED
  BY <1>2, <1>4, <1>5, <1>6

\* What the receipt pass makes of one attempt: it is kept or demoted, its inclusion
\* is seen again in a canonical block, or it is found in one.
LEMMA InspectCases ==
    ASSUME ChainTypeOK, NEW n \in 1..Len(chain), NEW served \in BOOLEAN,
           NEW a \in Attempt, ValidAttempt(a)
    PROVE  LET k == InspectAttempt(a, n, served)
           IN  /\ k = [attempt |-> k.attempt, verified |-> k.verified,
                       candidate |-> k.candidate]
               /\ \/ k.attempt = a /\ ~k.verified
                  \/ a.phase = "included" /\ k.attempt = Demoted(a) /\ ~k.verified
                  \/ /\ a.phase = "included" /\ a.seen \in Sighting
                     /\ k.attempt = SeenAgain(a, n) /\ k.verified
                     /\ a.incl.num <= n /\ Canonical(a.incl)
                  \/ \E j \in 1..n :
                       /\ chain[j].tx = TxOf(a) /\ Receipt(a, n, served).at = AnchorOf(j)
                       /\ Receipt(a, n, served).status = "verified"
                       /\ a.phase # "included" /\ k.verified
                       /\ k.attempt = Included(a, AnchorOf(j), TxOf(a), n, None)
<1> DEFINE receipt == Receipt(a, n, served)
           Keep(b, verified, candidate) ==
               [attempt |-> b, verified |-> verified, candidate |-> candidate]
<1>0. PICK k : k = InspectAttempt(a, n, served)
  OBVIOUS
<1>1. CASE a.phase = "included"
  <2>1. k = CASE n < a.incl.num -> Keep(a, FALSE, FALSE)
              [] n >= a.incl.num /\ ~Canonical(a.incl) ->
                   Keep(Demoted(a), FALSE, FALSE)
              [] n >= a.incl.num /\ Canonical(a.incl) ->
                   IF served THEN Keep(SeenAgain(a, n), TRUE, FALSE)
                             ELSE Keep(a, FALSE, FALSE)
    BY <1>0, <1>1, Zenon DEF InspectAttempt, SeenAgain
  <2>2. n \in Nat /\ a.incl.num \in Nat /\ a.seen \in Sighting
    BY <1>1 DEF ValidAttempt, Attempt, Anchor, ChainTypeOK
  <2>3. \/ k = Keep(a, FALSE, FALSE)
        \/ k = Keep(Demoted(a), FALSE, FALSE)
        \/ k = Keep(SeenAgain(a, n), TRUE, FALSE) /\ a.incl.num <= n /\ Canonical(a.incl)
    BY <2>1, <2>2
  <2> QED
    BY <1>0, <1>1, <2>2, <2>3
<1>2. CASE a.phase # "included" /\ receipt.status = "verified"
  <2>1. k = Keep(Included(a, receipt.at, TxOf(a), n, None), TRUE, FALSE)
    BY <1>0, <1>2, Zenon DEF InspectAttempt
  <2>2. \E j \in 1..n : receipt.at = AnchorOf(j) /\ chain[j].tx = TxOf(a)
    <3> DEFINE at == {j \in 1..Len(chain) : chain[j].tx = TxOf(a)}
               pick == CHOOSE j \in at : TRUE
    <3>1. served /\ at # {}
      BY <1>2 DEF Receipt
    <3>2. pick \in at
      BY <3>1
    <3>3. receipt = [status |-> IF pick <= n THEN "verified" ELSE "included-not-durable",
                     at |-> AnchorOf(pick)]
      BY <3>1 DEF Receipt
    <3> HIDE DEF pick
    <3>4. pick <= n /\ pick \in 1..Len(chain) /\ chain[pick].tx = TxOf(a)
      BY <1>2, <3>2, <3>3
    <3> QED
      BY <3>3, <3>4
  <2>3. PICK j \in 1..n : receipt.at = AnchorOf(j) /\ chain[j].tx = TxOf(a)
    BY <2>2
  <2> HIDE DEF receipt
  <2>4. /\ k.attempt = Included(a, AnchorOf(j), TxOf(a), n, None) /\ k.verified
        /\ k = Keep(k.attempt, k.verified, k.candidate)
    BY <2>1, <2>3
  <2> QED
    BY <1>0, <1>2, <2>3, <2>4 DEF receipt
<1>3. CASE a.phase # "included" /\ receipt.status # "verified"
  <2>1. k = Keep(a, FALSE, receipt.status = "absent")
    BY <1>0, <1>3, Zenon DEF InspectAttempt
  <2> QED
    BY <1>0, <2>1
<1> QED
  BY <1>1, <1>2, <1>3

\* What the replacement search makes of it: the nonce was taken by another
\* transaction, or nothing changes.
LEMMA SearchCases ==
    ASSUME ChainTypeOK, NEW n \in 1..Len(chain), NEW lastObs \in Observation, NEW k,
           k.attempt \in Attempt,
           k = [attempt |-> k.attempt, verified |-> k.verified,
                candidate |-> k.candidate]
    PROVE  LET f == SearchCandidate(k, lastObs, n)
           IN  \/ f = k
               \/ \E j \in 1..n :
                    /\ chain[j].tx \in Tx /\ chain[j].tx.nonce = k.attempt.nonce
                    /\ chain[j].tx # TxOf(k.attempt)
                    /\ chain[n].nonce \in Nat /\ chain[n].nonce > k.attempt.nonce
                    /\ f.attempt = Included(k.attempt, AnchorOf(j), chain[j].tx, n,
                                            chain[n].nonce)
<1> DEFINE b     == k.attempt
           res   == ResolvedSearch(b, lastObs)
           found == SearchReplacement(b, res, n)
           taken == /\ k.candidate
                    /\ chain[n].nonce > k.attempt.nonce
                    /\ found.status = "replacement-found"
<1>1. CASE ~taken
  BY <1>1 DEF SearchCandidate
<1>2. CASE taken
  <2>1. b \in Attempt
    OBVIOUS
  <2>2. res \in Search \cup {None}
    BY <2>1 DEF ResolvedSearch, Search, Attempt
  <2>3. PICK j \in 1..n : /\ found.at = AnchorOf(j)
                          /\ chain[j].tx # None /\ chain[j].tx.nonce = b.nonce
                          /\ chain[j].tx # TxOf(b)
    BY <1>2, <2>2, SearchFinds
  <2>4. SearchCandidate(k, lastObs, n)
          = [k EXCEPT !.attempt = Included(b, found.at, chain[found.at.num].tx, n,
                                           chain[n].nonce),
                      !.verified = TRUE]
    BY <1>2, Zenon DEF SearchCandidate
  <2>5. found.at.num = j
    BY <2>3 DEF AnchorOf
  <2>6. chain[j].tx \in Tx /\ chain[n].nonce \in Nat
    <3>1. j \in 1..Len(chain)
      BY DEF ChainTypeOK
    <3>2. chain[j] \in Block /\ chain[n] \in Block
      BY <3>1 DEF ChainTypeOK
    <3> QED
      BY <2>3, <3>2 DEF Block
  <2> HIDE DEF found
  <2>7. PICK c : c = Included(b, AnchorOf(j), chain[j].tx, n, chain[n].nonce)
    OBVIOUS
  <2>8. SearchCandidate(k, lastObs, n) = [k EXCEPT !.attempt = c, !.verified = TRUE]
    BY <2>3, <2>4, <2>5, <2>7
  <2>9. SearchCandidate(k, lastObs, n).attempt = c
    BY <2>8
  <2> QED
    BY <1>2, <2>3, <2>6, <2>7, <2>9
<1> QED
  BY <1>1, <1>2

\* Inspecting one attempt changes neither its transaction nor its mark.
LEMMA InspectAttemptIsSame ==
    ASSUME ChainTypeOK, NEW n \in 1..Len(chain), NEW served \in BOOLEAN,
           NEW a \in Attempt, ValidAttempt(a)
    PROVE  LET k == InspectAttempt(a, n, served)
           IN  /\ k = [attempt |-> k.attempt, verified |-> k.verified,
                       candidate |-> k.candidate]
               /\ SameTransaction(a, k.attempt)
<1>1. PICK k : k = InspectAttempt(a, n, served)
  OBVIOUS
<1>2. TxOf(a) \in Tx /\ n \in Nat
  BY DEF Attempt, TxOf, Tx, ChainTypeOK
<1>3. SameTransaction(a, a) /\ SameTransaction(a, Demoted(a))
  BY DemotedIsSame DEF SameTransaction
<1>4. a.seen \in Sighting => SameTransaction(a, SeenAgain(a, n))
  BY SeenAgainIs
<1>5. \A j \in 1..n : SameTransaction(a, Included(a, AnchorOf(j), TxOf(a), n, None))
  BY <1>2, ReadIsCanonical, IncludedIs
<1>6. /\ k = [attempt |-> k.attempt, verified |-> k.verified, candidate |-> k.candidate]
      /\ \/ k.attempt \in {a, Demoted(a)}
         \/ a.seen \in Sighting /\ k.attempt = SeenAgain(a, n)
         \/ \E j \in 1..n : k.attempt = Included(a, AnchorOf(j), TxOf(a), n, None)
  BY <1>1, InspectCases
<1> QED
  BY <1>1, <1>3, <1>4, <1>5, <1>6

\* Searching a replacement changes neither the transaction nor the mark.
LEMMA SearchCandidateIsSame ==
    ASSUME ChainTypeOK, NEW n \in 1..Len(chain), NEW lastObs \in Observation,
           NEW a \in Attempt, NEW k, SameTransaction(a, k.attempt),
           k = [attempt |-> k.attempt, verified |-> k.verified,
                candidate |-> k.candidate]
    PROVE  SameTransaction(a, SearchCandidate(k, lastObs, n).attempt)
<1>1. PICK f : f = SearchCandidate(k, lastObs, n)
  OBVIOUS
<1>2. k.attempt \in Attempt
  BY DEF SameTransaction
<1>3. CASE f = k
  BY <1>1, <1>3
<1>4. ASSUME NEW j \in 1..n, chain[j].tx \in Tx, chain[n].nonce \in Nat,
             f.attempt = Included(k.attempt, AnchorOf(j), chain[j].tx, n, chain[n].nonce)
      PROVE  SameTransaction(a, f.attempt)
  <2>1. AnchorOf(j) \in Anchor
    BY ReadIsCanonical
  <2>2. PICK at, tx, m : at = AnchorOf(j) /\ tx = chain[j].tx /\ m = chain[n].nonce
    OBVIOUS
  <2>3. at \in Anchor /\ tx \in Tx /\ m \in Nat \cup {None}
    BY <1>4, <2>1, <2>2
  <2>4. f.attempt = Included(k.attempt, at, tx, n, m)
    BY <1>4, <2>2
  <2>5. SameTransaction(k.attempt, f.attempt) /\ f.attempt.phase = "included"
    BY <1>2, <2>3, <2>4, IncludedIs
  <2> QED
    BY <2>5 DEF SameTransaction
<1> QED
  BY <1>1, <1>2, <1>3, <1>4, SearchCases

\* A function on 1..m is a sequence of length m.
LEMMA FunctionIsSeq ==
    ASSUME NEW S, NEW m \in Nat, NEW f \in [1..m -> S]
    PROVE  f \in Seq(S) /\ Len(f) = m
<1>1. f \in Seq(S)
  BY SeqDef
<1> QED
  BY <1>1, LenProperties

\* An inclusion pass changes neither which transactions are recorded nor their
\* order, and unmarks none.
LEMMA InclusionsKeep ==
    ASSUME ChainTypeOK, NEW n \in 1..Len(chain), NEW servedAt,
           NEW s \in Snapshot, ValidSnapshot(s)
    PROVE  LET r == InspectInclusions(s, n, servedAt)
               t == [s EXCEPT !.lastObs = ObservationToKeep(s, r.obs),
                              !.attempts = r.attempts]
           IN  /\ t \in Snapshot /\ Keeps(s, t)
               /\ r.permit \in AttemptIds \cup {None}
               /\ r.complete \in BOOLEAN
<1> DEFINE r     == InspectInclusions(s, n, servedAt)
           len   == Len(s.attempts)
           seen  == [i \in 1..len |-> InspectAttempt(s.attempts[i], n, i \in servedAt)]
           final == [i \in 1..Len(seen) |-> SearchCandidate(seen[i], s.lastObs, n)]
           out   == [i \in 1..Len(final) |-> final[i].attempt]
           lastObs == ObservationToKeep(s, r.obs)
           t     == [s EXCEPT !.lastObs = lastObs, !.attempts = r.attempts]
           u     == FirstUnresolved(out)
<1>1. /\ r.obs = AnchoredNonce(n)
      /\ r.attempts = out
      /\ r.complete = AllVerified(final)
      /\ r.permit = IF /\ u # 0
                       /\ seen[u].candidate
                       /\ AnchoredNonce(n).nonce = out[u].nonce
                       /\ EarlierVerified(final, u)
                    THEN out[u].id ELSE None
  BY Zenon DEF InspectInclusions
<1>2. len \in Nat /\ Len(seen) = len /\ Len(final) = len
  BY SnapshotFields
<1>3. ASSUME NEW i \in 1..len
      PROVE  SameTransaction(s.attempts[i], out[i])
  <2>1. s.attempts[i] \in Attempt /\ ValidAttempt(s.attempts[i])
    BY SnapshotFields DEF ValidSnapshot
  <2>2. (i \in servedAt) \in BOOLEAN
    OBVIOUS
  <2>3. LET k == InspectAttempt(s.attempts[i], n, i \in servedAt)
        IN  /\ k = [attempt |-> k.attempt, verified |-> k.verified,
                    candidate |-> k.candidate]
            /\ SameTransaction(s.attempts[i], k.attempt)
    BY <2>1, <2>2, InspectAttemptIsSame
  <2>4. seen[i] = InspectAttempt(s.attempts[i], n, i \in servedAt)
    OBVIOUS
  <2>5. SameTransaction(s.attempts[i], SearchCandidate(seen[i], s.lastObs, n).attempt)
    BY <2>1, <2>3, <2>4, SearchCandidateIsSame, SnapshotFields
  <2>6. out[i] = SearchCandidate(seen[i], s.lastObs, n).attempt
    BY <1>2
  <2> QED
    BY <2>5, <2>6
<1>4. out \in [1..len -> Attempt]
  BY <1>2, <1>3 DEF SameTransaction
<1> HIDE DEF out
<1>5. out \in Seq(Attempt) /\ Len(out) = len
  BY <1>2, <1>4, FunctionIsSeq
<1>6. lastObs \in Observation
  BY <1>1, ReadsAreTyped, KeptObservation
<1>7. r.permit \in AttemptIds \cup {None}
  <2>1. u # 0 => u \in 1..len
    <3>1. u \in 0..Len(out)
      BY <1>5, FirstUnresolvedRange
    <3> QED
      BY <1>2, <1>5, <3>1
  <2>2. u # 0 => out[u] \in Attempt
    BY <1>4, <2>1
  <2>3. u # 0 => out[u].id \in AttemptIds
    BY <2>2 DEF Attempt
  <2> HIDE DEF u, seen, final, r
  <2> QED
    BY <1>1, <2>3
<1>8. r.complete \in BOOLEAN
  BY <1>1 DEF AllVerified
<1> HIDE DEF lastObs, r
<1>9. /\ t \in Snapshot /\ t.durableNext = s.durableNext
      /\ t.attempts = out
  BY <1>1, <1>5, <1>6 DEF Snapshot
<1>10. ASSUME NEW x \in Marked(s)
       PROVE  x \in Marked(t)
  <2>1. PICK i \in 1..len :
          s.attempts[i].phase # "signed" /\ x = TxOf(s.attempts[i])
    BY MarkedIs
  <2>2. t.attempts[i].phase # "signed" /\ x = TxOf(t.attempts[i])
    BY <1>3, <1>9, <2>1 DEF SameTransaction
  <2> QED
    BY <1>5, <1>9, <2>2, MarkedIs
<1> QED
  BY <1>7, <1>8, <1>9, <1>10, SnapshotFields DEF Keeps, r, lastObs

\* Preparing appends an attempt that is not marked yet.
LEMMA PreparationKeeps ==
    ASSUME NEW s \in Snapshot, NEW a \in Attempt
    PROVE  LET t == [s EXCEPT !.next = @ + 1, !.attempts = Append(@, a)]
           IN  t \in Snapshot /\ Keeps(s, t)
<1> DEFINE longer == Append(s.attempts, a)
           t == [s EXCEPT !.next = @ + 1, !.attempts = Append(@, a)]
<1>1. /\ longer \in Seq(Attempt)
      /\ Len(longer) = Len(s.attempts) + 1
      /\ \A i \in 1..Len(s.attempts) : longer[i] = s.attempts[i]
  BY SnapshotFields, AppendProperties
<1>2. t = [s EXCEPT !.next = s.next + 1, !.attempts = longer]
  BY Zenon
<1> HIDE DEF longer, t
<1>3. /\ t \in Snapshot /\ t.durableNext = s.durableNext
      /\ t.attempts = longer
  <2>1. s.next + 1 \in Nat
    BY SnapshotFields
  <2> QED
    BY <1>1, <1>2, <2>1 DEF Snapshot
<1>4. ASSUME NEW x \in Marked(s)
      PROVE  x \in Marked(t)
  <2>1. PICK i \in 1..Len(s.attempts) :
          s.attempts[i].phase # "signed" /\ x = TxOf(s.attempts[i])
    BY MarkedIs
  <2>2. i \in 1..Len(t.attempts) /\ t.attempts[i] = s.attempts[i]
    BY <1>1, <1>3, SnapshotFields
  <2> QED
    BY <2>1, <2>2, MarkedIs
<1> QED
  BY <1>3, <1>4, SnapshotFields DEF Keeps, t

\* The mark written before the first broadcast makes the attempt sendable.
LEMMA MarkKeeps ==
    ASSUME NEW s \in Snapshot, FirstUnresolved(s.attempts) # 0
    PROVE  LET i == FirstUnresolved(s.attempts)
               t == [s EXCEPT !.attempts[i].phase = "broadcast-may-have-occurred",
                              !.attempts[i].incl = None, !.attempts[i].seen = None]
           IN  t \in Snapshot /\ Keeps(s, t) /\ (t # None => Sendable(t))
<1> DEFINE i == FirstUnresolved(s.attempts)
           t == [s EXCEPT !.attempts[i].phase = "broadcast-may-have-occurred",
                          !.attempts[i].incl = None, !.attempts[i].seen = None]
           a == s.attempts[i]
           b == [a EXCEPT !.phase = "broadcast-may-have-occurred", !.incl = None, !.seen = None]
           marked == [s.attempts EXCEPT ![i] = b]
<1>1. i \in 1..Len(s.attempts) /\ a.phase # "included"
  BY SnapshotFields, FirstUnresolvedRange
<1> HIDE DEF i
<1>2. a \in Attempt /\ s.attempts \in Seq(Attempt) /\ Len(s.attempts) \in Nat
  BY <1>1, SnapshotFields
<1>3. /\ b \in Attempt /\ TxOf(b) = TxOf(a)
      /\ b.phase = "broadcast-may-have-occurred"
  BY <1>2 DEF Attempt, Phase, TxOf
<1>4. t = [s EXCEPT !.attempts = marked]
  BY <1>1, <1>2 DEF Snapshot, Attempt
<1> HIDE DEF b
<1>5. /\ marked \in Seq(Attempt) /\ Len(marked) = Len(s.attempts)
      /\ \A j \in 1..Len(s.attempts) :
           marked[j] = IF j = i THEN b ELSE s.attempts[j]
  BY <1>1, <1>2, <1>3, ExceptSeq
<1> HIDE DEF marked, t
<1>6. t \in Snapshot /\ t.durableNext = s.durableNext /\ t.attempts = marked
  BY <1>4, <1>5 DEF Snapshot
<1>7. ASSUME NEW x \in Marked(s)
      PROVE  x \in Marked(t)
  <2>1. PICK j \in 1..Len(s.attempts) :
          s.attempts[j].phase # "signed" /\ x = TxOf(s.attempts[j])
    BY MarkedIs
  <2>2. t.attempts[j].phase # "signed" /\ x = TxOf(t.attempts[j])
    BY <1>3, <1>5, <1>6, <2>1
  <2> QED
    BY <1>5, <1>6, <2>2, MarkedIs
<1>8. FirstUnresolved(t.attempts) = FirstUnresolved(s.attempts)
  <2>1. \A j \in 1..Len(s.attempts) :
          marked[j].phase # "included" <=> s.attempts[j].phase # "included"
    BY <1>1, <1>3, <1>5
  <2>2. {j \in 1..Len(marked) : marked[j].phase # "included"}
          = {j \in 1..Len(s.attempts) : s.attempts[j].phase # "included"}
    BY <1>5, <2>1
  <2> QED
    BY <1>6, <2>2 DEF FirstUnresolved
<1>9. t # None => Sendable(t)
  <2>1. Unresolved(t) = b
    BY <1>1, <1>5, <1>6, <1>8 DEF Unresolved, i
  <2> QED
    BY <1>3, <1>8, <2>1 DEF Sendable
<1> QED
  BY <1>6, <1>7, <1>9, SnapshotFields DEF Keeps, t, i

-----------------------------------------------------------------------------
(* How the steps of the coordinator treat the journal.                     *)

\* What an action proves about the journal and what escaped.
JournalHolds == AllRecord /\ AllValid /\ NoEquivocation

\* Nothing of it is touched.
LEMMA JournalFrame ==
    ASSUME IInv, UNCHANGED <<escaped, disk, up, current, pending>>
    PROVE  JournalHolds'
<1>1. AllRecord'
  BY DEF IInv, AllRecord, Records
<1>2. AllValid'
  BY DEF IInv, AllValid
<1>3. NoEquivocation'
  BY DEF IInv, NoEquivocation
<1> QED
  BY <1>1, <1>2, <1>3 DEF JournalHolds

\* A snapshot derived from the acknowledged one is about to be written.
LEMMA JournalSaves ==
    ASSUME IInv, up, UNCHANGED <<escaped, disk, up, current>>,
           NEW t \in Snapshot, pending' = t, ValidSnapshot(t),
           IF current = None THEN TRUE ELSE Keeps(current, t)
    PROVE  JournalHolds'
<1>1. t # None
  BY AbsentAssumption
<1>2. Records(current) /\ escaped \subseteq Tx /\ current \in Snapshot \cup {None}
  BY DEF IInv, AllRecord, TypeOK, ChainTypeOK
<1>3. \A x \in escaped : x.nonce >= t.durableNext => x \in Marked(t)
  <2> SUFFICES ASSUME NEW x \in escaped, x.nonce >= t.durableNext
               PROVE  x \in Marked(t)
    OBVIOUS
  <2>1. current # None /\ current \in Snapshot
    BY <1>2 DEF Records
  <2>2. Keeps(current, t)
    BY <2>1
  <2>3. x.nonce \in Nat /\ t.durableNext \in Nat /\ current.durableNext \in Nat
    BY <1>2, <2>1, SnapshotFields DEF Tx
  <2>4. x.nonce >= current.durableNext
    BY <2>2, <2>3 DEF Keeps
  <2>5. x \in Marked(current)
    BY <1>2, <2>4 DEF Records
  <2> QED
    BY <2>2, <2>5 DEF Keeps
<1>4. AllRecord'
  BY <1>1, <1>3 DEF IInv, AllRecord, Records
<1>5. AllValid'
  BY DEF IInv, AllValid
<1>6. NoEquivocation'
  BY DEF IInv, NoEquivocation
<1> QED
  BY <1>4, <1>5, <1>6 DEF JournalHolds

\* The pending snapshot becomes the journal.
LEMMA JournalCommits ==
    ASSUME IInv, pstate # "idle", Committed, UNCHANGED <<escaped, up>>
    PROVE  JournalHolds'
<1>1. pending # None
  BY DEF IInv, FileIsKnown
<1>2. AllRecord'
  BY <1>1 DEF IInv, AllRecord, Records, Committed
<1>3. AllValid'
  BY <1>1 DEF IInv, AllValid, Committed
<1>4. NoEquivocation'
  BY DEF IInv, NoEquivocation
<1> QED
  BY <1>2, <1>3, <1>4 DEF JournalHolds

\* The process stops, or a write fails: the file holds one of the two snapshots.
LEMMA JournalUncertain ==
    ASSUME IInv, UNCHANGED escaped,
           disk' = disk \/ (pending # None /\ disk' = pending),
           \/ current' = current /\ pending' = pending /\ up' = up
           \/ current' = None /\ pending' = None /\ up' = FALSE
    PROVE  JournalHolds'
<1>1. AllRecord'
  BY DEF IInv, AllRecord, Records
<1>2. AllValid'
  BY DEF IInv, AllValid
<1>3. NoEquivocation'
  BY DEF IInv, NoEquivocation
<1> QED
  BY <1>1, <1>2, <1>3 DEF JournalHolds

-----------------------------------------------------------------------------
(* The invariant holds initially and every action preserves it.            *)

\* The invariant holds before the process first starts.
LEMMA InitEstablishes == Init => IInv
<1> SUFFICES ASSUME Init PROVE IInv
  OBVIOUS
<1>1. chain \in Seq(Block) /\ Len(chain) = 1
  <2>1. [hash |-> 0, tx |-> None, nonce |-> 0] \in Block
    BY DEF Block
  <2> QED
    BY <2>1 DEF Init, ChainInit
<1>2. TypeOK
  <2>1. ChainTypeOK
    BY <1>1 DEF Init, ChainInit, ChainTypeOK
  <2> QED
    BY <2>1 DEF Init, TypeOK
<1>3. FileIsKnown /\ AllRecord /\ AllValid /\ OperationState /\ NoEquivocation
  BY DEF Init, ChainInit, FileIsKnown, AllRecord, Records, AllValid,
         OperationState, NoEquivocation
<1> QED
  BY <1>2, <1>3 DEF IInv

\* The environment: blocks, reorganisations, the durable tag.
LEMMA ChainPreserves ==
    ASSUME IInv, ChainNext, UNCHANGED <<disk, memVars>>
    PROVE  IInv'
<1>1. ChainTypeOK /\ Len(chain) \in Nat
  BY DEF IInv, TypeOK, ChainTypeOK
<1>2. LatestNonce \in Nat
  <2>1. chain[Len(chain)] \in Block
    BY <1>1, ElementOfSeq DEF ChainTypeOK
  <2> QED
    BY <2>1 DEF LatestNonce, Block
<1>3. ASSUME NEW tx \in Tx \cup {None}, NEW m \in Nat, Extend(tx, m)
      PROVE  ChainTypeOK' /\ escaped' = escaped
  <2>1. [hash |-> minted + 1, tx |-> tx, nonce |-> m] \in Block
    BY <1>1 DEF ChainTypeOK, Block
  <2>2. chain' \in Seq(Block) /\ Len(chain') = Len(chain) + 1
    BY <1>1, <1>3, <2>1, AppendProperties DEF Extend, ChainTypeOK
  <2> QED
    BY <1>1, <1>3, <2>2 DEF Extend, ChainTypeOK
<1>4. ChainTypeOK' /\ escaped' = escaped
  <2>1. CASE MineEmpty
    BY <1>2, <1>3, <2>1 DEF MineEmpty
  <2>2. CASE MineOwn
    <3>1. PICK t \in escaped : Extend(t, LatestNonce + 1)
      BY <2>2 DEF MineOwn
    <3>2. t \in Tx \cup {None} /\ LatestNonce + 1 \in Nat
      BY <1>1, <1>2 DEF ChainTypeOK
    <3> QED
      BY <1>3, <3>1, <3>2
  <2>3. CASE MineForeign
    <3>1. PICK t \in {[nonce |-> LatestNonce, id |-> Foreign], None} :
            Extend(t, LatestNonce + 1)
      BY <2>3 DEF MineForeign
    <3>2. t \in Tx \cup {None} /\ LatestNonce + 1 \in Nat
      BY <1>2 DEF Tx
    <3> QED
      BY <1>3, <3>1, <3>2
  <2>4. CASE Reorg
    <3>1. PICK k \in durable..(Len(chain) - 1) : chain' = SubSeq(chain, 1, k)
      BY <2>4 DEF Reorg
    <3>2. k \in Int /\ 1 <= k /\ \A j \in 1..k : chain[j] \in Block
      BY <1>1, <3>1, ElementOfSeq DEF ChainTypeOK
    <3>3. chain' \in Seq(Block) /\ Len(chain') = k
      BY <3>1, <3>2, SubSeqProperties
    <3> QED
      BY <1>1, <2>4, <3>1, <3>3 DEF Reorg, ChainTypeOK
  <2>5. CASE Finalize
    BY <1>1, <2>5 DEF Finalize, ChainTypeOK
  <2> QED
    BY <2>1, <2>2, <2>3, <2>4, <2>5 DEF ChainNext
<1>5. JournalHolds'
  BY <1>4, JournalFrame DEF memVars
<1>6. TypeOK'
  BY <1>4 DEF IInv, TypeOK, memVars
<1>7. FileIsKnown' /\ OperationState'
  BY DEF IInv, FileIsKnown, OperationState, memVars
<1> QED
  BY <1>5, <1>6, <1>7 DEF IInv, JournalHolds

\* A new operation.
LEMMA BeginIsTyped ==
    ASSUME NEW kind \in OpKind, NEW stage \in OpStage, Begin(kind, stage)
    PROVE  op' \in Op /\ op' # None /\ op'.kind = kind /\ op'.stage = stage
<1>1. op' \in Op /\ op'.kind = kind /\ op'.stage = stage
  BY DEF Begin, Op
<1> QED
  BY <1>1, AbsentAssumption

\* persistPending succeeded and the pending write is finished.
LEMMA CommitIsTyped ==
    ASSUME IInv, Committed, FinishWrite, UNCHANGED <<chainVars, up>>,
           recovered' \in BOOLEAN, inclusions' \in BOOLEAN, op' = None,
           permit' \in AttemptIds \cup {None}, owner' \in Owner \cup {None}
    PROVE  TypeOK'
<1>1. ChainTypeOK'
  BY DEF IInv, TypeOK, ChainTypeOK, chainVars
<1>2. write' = None /\ blockers' \subseteq {Unattributed, Exhausted}
  BY DEF IInv, TypeOK, FinishWrite, Latched
<1> QED
  BY <1>1, <1>2 DEF IInv, TypeOK, Committed

\* A write that is acknowledged leaves memory and file equal.
LEMMA CommitSettles ==
    ASSUME IInv, Committed, up, op' = None, UNCHANGED up
    PROVE  FileIsKnown'
  BY DEF Committed, FileIsKnown

\* Starting from the file, and crashing at any step.
LEMMA ProcessPreserves ==
    ASSUME IInv, Process
    PROVE  IInv'
<1>1. CASE Start
  <2> USE <1>1 DEF Start, chainVars
  <2>1. TypeOK'
    BY DEF IInv, TypeOK, ChainTypeOK, Latched
  <2>2. FileIsKnown'
    BY DEF IInv, FileIsKnown
  <2>3. OperationState'
    BY DEF IInv, FileIsKnown, OperationState
  <2>4. JournalHolds'
    BY DEF IInv, JournalHolds, AllRecord, Records, AllValid, NoEquivocation
  <2> QED
    BY <2>1, <2>2, <2>3, <2>4 DEF IInv, JournalHolds
<1>2. CASE Crash
  <2> USE <1>2 DEF Crash, Down, chainVars
  <2>1. TypeOK'
    BY DEF IInv, TypeOK, ChainTypeOK
  <2>2. FileIsKnown'
    BY DEF IInv, FileIsKnown
  <2>3. OperationState'
    BY DEF OperationState
  <2>4. JournalHolds'
    BY JournalUncertain DEF IInv, FileIsKnown
  <2> QED
    BY <2>1, <2>2, <2>3, <2>4 DEF IInv, JournalHolds
<1> QED
  BY <1>1, <1>2 DEF Process

\* Journal writes: failed, retried and resolved.
LEMMA PersistencePreserves ==
    ASSUME IInv, Persistence
    PROVE  IInv'
<1>1. CASE WriteFails
  <2> USE <1>1 DEF WriteFails, chainVars
  <2>1. TypeOK'
    <3>1. owner' \in Owner \cup {None}
      BY DEF IInv, TypeOK, FailBracket, Owner
    <3>2. recovered' \in BOOLEAN
      BY Zenon
    <3> QED
      BY <3>1, <3>2 DEF IInv, TypeOK, ChainTypeOK
  <2>2. FileIsKnown'
    BY DEF IInv, FileIsKnown
  <2>3. OperationState'
    BY DEF OperationState
  <2>4. JournalHolds'
    BY JournalUncertain DEF IInv, FileIsKnown
  <2> QED
    BY <2>1, <2>2, <2>3, <2>4 DEF IInv, JournalHolds
<1>2. CASE RetryPersistence
  <2> USE <1>2 DEF RetryPersistence, chainVars, Available
  <2>0. op' \in Op /\ op' # None /\ op'.kind = "retry" /\ op'.stage = "write"
    BY BeginIsTyped DEF OpKind, OpStage
  <2>1. TypeOK'
    BY <2>0 DEF IInv, TypeOK, ChainTypeOK
  <2>2. FileIsKnown'
    BY <2>0 DEF IInv, FileIsKnown
  <2>3. OperationState'
    BY <2>0 DEF OperationState
  <2>4. JournalHolds'
    BY JournalFrame
  <2> QED
    BY <2>1, <2>2, <2>3, <2>4 DEF IInv, JournalHolds
<1>3. CASE RetryCommits
  <2> USE <1>3 DEF RetryCommits, chainVars
  <2>1. pstate = "writing"
    BY DEF IInv, FileIsKnown, OperationState
  <2>2. TypeOK'
    <3>1. /\ recovered' \in BOOLEAN /\ inclusions' \in BOOLEAN
          /\ permit' \in AttemptIds \cup {None} /\ owner' \in Owner \cup {None}
      BY DEF IInv, TypeOK
    <3> QED
      BY <3>1, CommitIsTyped
  <2>3. FileIsKnown'
    BY CommitSettles
  <2>4. OperationState'
    BY DEF OperationState
  <2>5. JournalHolds'
    BY <2>1, JournalCommits
  <2> QED
    BY <2>2, <2>3, <2>4, <2>5 DEF IInv, JournalHolds
<1> QED
  BY <1>1, <1>2, <1>3 DEF Persistence

\* Head brackets and inspections.
LEMMA InspectionPreserves ==
    ASSUME IInv, Inspection
    PROVE  IInv'
<1>1. CASE BeginInspection
  <2> USE <1>1 DEF BeginInspection, chainVars, Available
  <2>1. TypeOK'
    BY DEF IInv, TypeOK, ChainTypeOK, Op, Owner, OpKind, OpStage
  <2>2. FileIsKnown'
    BY AbsentAssumption DEF IInv, FileIsKnown, TypeOK, Op, OpKind, OpStage
  <2>3. OperationState'
    BY AbsentAssumption DEF IInv, OperationState, FileIsKnown, TypeOK, Sendable, Owner
  <2>4. JournalHolds'
    BY JournalFrame
  <2> QED
    BY <2>1, <2>2, <2>3, <2>4 DEF IInv, JournalHolds
<1>2. CASE FinishInspection
  <2> USE <1>2 DEF FinishInspection, chainVars, OwnerAvailable
  <2>1. TypeOK'
    BY DEF IInv, TypeOK, ChainTypeOK, Op, Owner, OpKind, OpStage
  <2>2. FileIsKnown'
    BY AbsentAssumption DEF IInv, FileIsKnown, TypeOK, Op, OpKind, OpStage
  <2>3. OperationState'
    BY AbsentAssumption DEF IInv, OperationState, FileIsKnown, TypeOK, Sendable, Owner
  <2>4. JournalHolds'
    BY JournalFrame
  <2> QED
    BY <2>1, <2>2, <2>3, <2>4 DEF IInv, JournalHolds
<1>3. CASE AbandonInspection
  <2> USE <1>3 DEF AbandonInspection, chainVars
  <2>0. owner' \in Owner /\ owner' # None
    BY AbsentAssumption DEF IInv, TypeOK, Owner
  <2>1. TypeOK'
    BY <2>0 DEF IInv, TypeOK, ChainTypeOK
  <2>2. FileIsKnown'
    BY DEF IInv, FileIsKnown
  <2>3. OperationState'
    BY <2>0 DEF IInv, OperationState
  <2>4. JournalHolds'
    BY JournalFrame
  <2> QED
    BY <2>1, <2>2, <2>3, <2>4 DEF IInv, JournalHolds
<1>4. CASE CompleteAbandonment
  <2> USE <1>4 DEF CompleteAbandonment, chainVars
  <2>1. TypeOK'
    BY DEF IInv, TypeOK, ChainTypeOK, Op, Owner, OpKind, OpStage
  <2>2. FileIsKnown'
    BY AbsentAssumption DEF IInv, FileIsKnown, TypeOK, Op, OpKind, OpStage
  <2>3. OperationState'
    BY AbsentAssumption DEF IInv, OperationState, FileIsKnown, TypeOK, Sendable, Owner
  <2>4. JournalHolds'
    BY JournalFrame
  <2> QED
    BY <2>1, <2>2, <2>3, <2>4 DEF IInv, JournalHolds
<1>5. CASE OpenHeadBegin
  <2> USE <1>5 DEF OpenHeadBegin, chainVars, WorkAllowed, OwnerAvailable
  <2>0. op' \in Op /\ op' # None /\ op'.kind = "open-head" /\ op'.stage = "read"
    BY BeginIsTyped DEF OpKind, OpStage
  <2>a. owner' \in Owner /\ owner' # None
    <3>1. PICK n \in 1..Len(chain) :
            owner' = [owner EXCEPT !.bracket = "failed", !.head = AnchorOf(n)]
      OBVIOUS
    <3>2. AnchorOf(n) \in Anchor
      BY ReadsAreTyped DEF IInv, TypeOK
    <3> QED
      BY <3>1, <3>2, AbsentAssumption DEF IInv, TypeOK, Owner
  <2>1. TypeOK'
    BY <2>0, <2>a DEF IInv, TypeOK, ChainTypeOK
  <2>2. FileIsKnown'
    BY <2>0 DEF IInv, FileIsKnown
  <2>3. OperationState'
    BY <2>0, <2>a DEF OperationState
  <2>4. JournalHolds'
    BY JournalFrame
  <2> QED
    BY <2>1, <2>2, <2>3, <2>4 DEF IInv, JournalHolds
<1>6. CASE OpenHeadEnd
  <2> USE <1>6 DEF OpenHeadEnd, chainVars
  <2>0. owner' \in Owner
    BY DEF IInv, TypeOK, Owner, OperationState
  <2>a. op.stage # "write"
    BY DEF IInv, OperationState
  <2>1. TypeOK'
    BY <2>0 DEF IInv, TypeOK, ChainTypeOK
  <2>2. FileIsKnown'
    BY <2>a DEF IInv, FileIsKnown
  <2>3. OperationState'
    BY DEF OperationState
  <2>4. JournalHolds'
    BY JournalFrame
  <2> QED
    BY <2>1, <2>2, <2>3, <2>4 DEF IInv, JournalHolds
<1> QED
  BY <1>1, <1>2, <1>3, <1>4, <1>5, <1>6 DEF Inspection

\* An operation hands a snapshot to the journal.
LEMMA SaveWrites ==
    ASSUME IInv, up, pstate = "idle", UNCHANGED <<disk, up, current>>,
           NEW t \in Snapshot, NEW kind \in WriteKind, NEW exhausted \in BOOLEAN,
           Save(t, kind, exhausted), op' \in Op, op'.stage = "write"
    PROVE  /\ FileIsKnown' /\ pending' = t /\ pstate' = "writing"
           /\ ValidSnapshot(t)
           /\ write' \in [kind : WriteKind, exhausted : BOOLEAN]
<1>1. op' # None /\ t # None
  BY AbsentAssumption
<1>2. FileIsKnown'
  BY <1>1 DEF IInv, FileIsKnown, Save
<1> QED
  BY <1>2 DEF Save

\* What a recovery pass permits is an attempt, or nothing.
LEMMA RecoveryAuthorises ==
    ASSUME ChainTypeOK, NEW n \in 1..Len(chain), NEW s \in Snapshot, NEW served
    PROVE  LET r == InspectRecovery(s, n, served)
           IN  /\ r.search.exhausted \in BOOLEAN
               /\ RecoveryPermit(s, r) \in AttemptIds \cup {None}
<1> DEFINE r == InspectRecovery(s, n, served)
<1>1. NoSearch.exhausted = FALSE
  BY DEF NoSearch, SearchResult
<1>2. s.attempts = <<>> => r.search = NoSearch
  BY RecoveryAnswers
<1>3. s.attempts # <<>> => r.search.exhausted \in BOOLEAN
  BY RecoverySearchIsTyped, SnapshotFields
<1>4. s.attempts # <<>> => s.attempts[1].id \in AttemptIds
  BY SnapshotFields DEF Attempt
<1> HIDE DEF r
<1>5. r.search.exhausted \in BOOLEAN
  BY <1>1, <1>2, <1>3
<1>6. RecoveryPermit(s, r) \in AttemptIds \cup {None}
  <2>1. r.status = "unresolved" => s.attempts # <<>>
    BY RecoveryAnswers DEF r
  <2> QED
    BY <1>4, <2>1 DEF RecoveryPermit
<1> QED
  BY <1>5, <1>6 DEF r

\* The recovery of the oldest nonce.
LEMMA RecoveryPreserves ==
    ASSUME IInv, Recovery
    PROVE  IInv'
<1>1. CASE RecoverBegin
  <2> USE <1>1 DEF RecoverBegin, chainVars, WorkAllowed, OwnerAvailable
  <2>0. op' \in Op /\ op' # None /\ op'.kind = "recover" /\ op'.stage = "read"
    BY BeginIsTyped DEF OpKind, OpStage
  <2>a. owner' \in Owner /\ owner' # None
    BY AbsentAssumption DEF IInv, TypeOK, Owner
  <2>1. TypeOK'
    BY <2>0, <2>a DEF IInv, TypeOK, ChainTypeOK
  <2>2. FileIsKnown'
    BY <2>0 DEF IInv, FileIsKnown
  <2>3. OperationState'
    BY <2>0, <2>a DEF OperationState, Settled
  <2>4. JournalHolds'
    BY JournalFrame
  <2> QED
    BY <2>1, <2>2, <2>3, <2>4 DEF IInv, JournalHolds
<1>2. CASE RecoverGivesUp
  <2> USE <1>2 DEF RecoverGivesUp, Reading, chainVars
  <2>0. owner' \in Owner \cup {None}
    BY DEF IInv, TypeOK, Owner, FailBracket
  <2>1. TypeOK'
    BY <2>0 DEF IInv, TypeOK, ChainTypeOK
  <2>2. FileIsKnown'
    BY DEF IInv, FileIsKnown
  <2>3. OperationState'
    BY DEF OperationState
  <2>4. JournalHolds'
    BY JournalFrame
  <2> QED
    BY <2>1, <2>2, <2>3, <2>4 DEF IInv, JournalHolds
<1>3. ASSUME NEW n \in RecoveryAnchors, RecoverBootstrapsAt(n)
      PROVE  IInv'
  <2> USE <1>3 DEF RecoverBootstrapsAt, Reading, chainVars
  <2> DEFINE t == [baseline |-> chain[n].nonce, next |-> chain[n].nonce, durableNext |-> chain[n].nonce,
                   lastObs |-> AnchoredNonce(n), repairs |-> <<>>,
                   attempts |-> <<>>]
  <2>1. ChainTypeOK /\ n \in 1..Len(chain)
    BY DEF IInv, TypeOK, ChainTypeOK, RecoveryAnchors
  <2>2. t \in Snapshot
    <3>1. chain[n].nonce \in Nat
      BY <2>1, ReadsAreTyped
    <3> QED
      BY <2>1, <3>1, ReadsAreTyped DEF Snapshot
  <2>3. pstate = "idle" /\ op \in Op
    BY DEF IInv, OperationState, TypeOK
  <2>4. op' \in Op /\ op'.stage = "write" /\ op'.kind = "recover"
    BY <2>3 DEF Op, OpStage
  <2> HIDE DEF t
  <2>5. /\ FileIsKnown' /\ pending' = t /\ pstate' = "writing"
        /\ ValidSnapshot(t)
        /\ write' \in [kind : WriteKind, exhausted : BOOLEAN]
    BY <2>2, <2>3, <2>4, SaveWrites DEF t, WriteKind
  <2>6. TypeOK'
    BY <2>2, <2>4, <2>5 DEF IInv, TypeOK, ChainTypeOK
  <2>7. OperationState'
    BY <2>4, <2>5 DEF IInv, OperationState
  <2>8. JournalHolds'
    BY <2>2, <2>5, JournalSaves
  <2> QED
    BY <2>5, <2>6, <2>7, <2>8 DEF IInv, JournalHolds
<1>4. ASSUME NEW n \in RecoveryAnchors, NEW served \in BOOLEAN,
             RecoverInspectsAt(n, served)
      PROVE  IInv'
  <2> USE <1>4 DEF RecoverInspectsAt, Reading, chainVars
  <2> DEFINE r == InspectRecovery(current, n, served)
             t == RecoverySnapshot(current, r)
  <2>1. ChainTypeOK /\ n \in 1..Len(chain)
    BY DEF IInv, TypeOK, ChainTypeOK, RecoveryAnchors
  <2>2. current \in Snapshot /\ ValidSnapshot(current)
    BY DEF IInv, TypeOK, AllValid
  <2>3. t \in Snapshot /\ Keeps(current, t)
    BY <2>1, <2>2, RecoveryKeeps
  <2>4. pstate = "idle" /\ op \in Op
    BY DEF IInv, OperationState, TypeOK
  <2>5. RecoveryWriteKind(r) \in WriteKind
    BY DEF RecoveryWriteKind, WriteKind
  <2>6. r.search.exhausted \in BOOLEAN
    BY <2>1, <2>2, RecoveryAuthorises
  <2>7. RecoveryPermit(current, r) \in AttemptIds \cup {None}
    BY <2>1, <2>2, RecoveryAuthorises
  <2>8. /\ Save(t, RecoveryWriteKind(r), r.search.exhausted)
        /\ op' = [op EXCEPT !.stage = "write", !.permit = RecoveryPermit(current, r)]
    OBVIOUS
  <2> HIDE DEF t, r
  <2>9. op' \in Op /\ op'.stage = "write" /\ op'.kind = "recover"
    BY <2>4, <2>7, <2>8 DEF Op, OpStage
  <2>10. /\ FileIsKnown' /\ pending' = t /\ pstate' = "writing"
         /\ ValidSnapshot(t)
         /\ write' \in [kind : WriteKind, exhausted : BOOLEAN]
    BY <2>3, <2>4, <2>5, <2>6, <2>8, <2>9, SaveWrites
  <2>11. TypeOK'
    BY <2>3, <2>9, <2>10 DEF IInv, TypeOK, ChainTypeOK
  <2>12. OperationState'
    BY <2>9, <2>10 DEF IInv, OperationState
  <2>13. JournalHolds'
    BY <2>3, <2>10, JournalSaves
  <2> QED
    BY <2>10, <2>11, <2>12, <2>13 DEF IInv, JournalHolds
<1>5. CASE RecoverCommits
  <2> USE <1>5 DEF RecoverCommits, chainVars
  <2>1. pstate = "writing"
    BY DEF IInv, FileIsKnown
  <2>2. TypeOK'
    <3>1. /\ recovered' \in BOOLEAN /\ inclusions' \in BOOLEAN
          /\ permit' \in AttemptIds \cup {None} /\ owner' \in Owner \cup {None}
      BY DEF IInv, TypeOK, Op
    <3> QED
      BY <3>1, CommitIsTyped
  <2>3. FileIsKnown'
    BY CommitSettles
  <2>4. OperationState'
    BY DEF OperationState
  <2>5. JournalHolds'
    BY <2>1, JournalCommits
  <2> QED
    BY <2>2, <2>3, <2>4, <2>5 DEF IInv, JournalHolds
<1> QED
  BY <1>1, <1>2, <1>3, <1>4, <1>5 DEF Recovery, RecoverBootstraps, RecoverInspects

\* The refresh of the inclusions.
LEMMA InclusionPreserves ==
    ASSUME IInv, Inclusion
    PROVE  IInv'
<1>1. CASE InclusionsBegin
  <2> USE <1>1 DEF InclusionsBegin, chainVars, WorkAllowed, OwnerAvailable
  <2>0. op' \in Op /\ op' # None /\ op'.kind = "inclusions" /\ op'.stage = "read"
    BY BeginIsTyped DEF OpKind, OpStage
  <2>a. owner' \in Owner /\ owner' # None
    BY AbsentAssumption DEF IInv, TypeOK, Owner
  <2>1. TypeOK'
    BY <2>0, <2>a DEF IInv, TypeOK, ChainTypeOK
  <2>2. FileIsKnown'
    BY <2>0 DEF IInv, FileIsKnown
  <2>3. OperationState'
    BY <2>0, <2>a DEF OperationState, Settled
  <2>4. JournalHolds'
    BY JournalFrame
  <2> QED
    BY <2>1, <2>2, <2>3, <2>4 DEF IInv, JournalHolds
<1>2. ASSUME Reading("inclusions"), op' = None, owner' = FailBracket(owner),
             recovered' \in BOOLEAN,
             UNCHANGED <<chainVars, disk, up, current, pending, pstate, write,
                         inclusions, permit, blockers>>
      PROVE  IInv'
  <2> USE <1>2 DEF Reading, chainVars
  <2>0. owner' \in Owner \cup {None}
    BY DEF IInv, TypeOK, Owner, FailBracket
  <2>1. TypeOK'
    BY <2>0 DEF IInv, TypeOK, ChainTypeOK
  <2>2. FileIsKnown'
    BY DEF IInv, FileIsKnown
  <2>3. OperationState'
    BY DEF OperationState
  <2>4. JournalHolds'
    BY JournalFrame
  <2> QED
    BY <2>1, <2>2, <2>3, <2>4 DEF IInv, JournalHolds
<1>3. CASE InclusionsGiveUp
  BY <1>2, <1>3 DEF InclusionsGiveUp, IInv, TypeOK
<1>4. CASE InclusionsContradict
  BY <1>2, <1>4 DEF InclusionsContradict, InclusionsContradictAt
<1>5. ASSUME NEW n \in InclusionHeads,
             NEW servedAt \in SUBSET (1..Len(current.attempts)),
             InclusionsInspectAt(n, servedAt)
      PROVE  IInv'
  <2> USE <1>5 DEF InclusionsInspectAt, Reading, chainVars
  <2> DEFINE r == InspectInclusions(current, n, servedAt)
             t == [current EXCEPT !.lastObs = ObservationToKeep(current, r.obs),
                                  !.attempts = r.attempts]
  <2>1. ChainTypeOK /\ n \in 1..Len(chain)
    BY DEF IInv, TypeOK, InclusionHeads
  <2>2. current # None /\ current \in Snapshot /\ ValidSnapshot(current)
    BY DEF IInv, TypeOK, AllValid, OperationState
  <2>3. /\ t \in Snapshot /\ Keeps(current, t)
        /\ r.permit \in AttemptIds \cup {None}
        /\ r.complete \in BOOLEAN
    BY <2>1, <2>2, InclusionsKeep
  <2>4. pstate = "idle" /\ op \in Op
    BY DEF IInv, OperationState, TypeOK
  <2>5. /\ Save(t, "observation", FALSE)
        /\ op' = [op EXCEPT !.stage = "write", !.permit = r.permit,
                            !.complete = r.complete]
    OBVIOUS
  <2> HIDE DEF t, r
  <2>6. op' \in Op /\ op'.stage = "write" /\ op'.kind = "inclusions"
    BY <2>3, <2>4, <2>5 DEF Op, OpStage
  <2>7. /\ FileIsKnown' /\ pending' = t /\ pstate' = "writing"
        /\ ValidSnapshot(t)
        /\ write' \in [kind : WriteKind, exhausted : BOOLEAN]
    BY <2>3, <2>4, <2>5, <2>6, SaveWrites DEF WriteKind
  <2>8. TypeOK'
    BY <2>3, <2>6, <2>7 DEF IInv, TypeOK, ChainTypeOK
  <2>9. OperationState'
    BY <2>2, <2>6, <2>7 DEF IInv, OperationState
  <2>10. JournalHolds'
    BY <2>3, <2>7, JournalSaves
  <2> QED
    BY <2>7, <2>8, <2>9, <2>10 DEF IInv, JournalHolds
<1>6. CASE InclusionsCommit
  <2> USE <1>6 DEF InclusionsCommit, chainVars
  <2>1. pstate = "writing"
    BY DEF IInv, FileIsKnown
  <2>2. TypeOK'
    <3>0. owner \in Owner
      BY DEF IInv, TypeOK, OperationState
    <3>1. owner' \in Owner \cup {None}
      BY <3>0 DEF Owner
    <3>2. op \in Op
      BY DEF IInv, TypeOK
    <3>3. /\ recovered' \in BOOLEAN /\ inclusions' \in BOOLEAN
          /\ permit' \in AttemptIds \cup {None}
      BY <3>2 DEF IInv, TypeOK, Op
    <3> QED
      BY <3>1, <3>3, CommitIsTyped
  <2>3. FileIsKnown'
    BY CommitSettles
  <2>4. OperationState'
    BY DEF OperationState
  <2>5. JournalHolds'
    BY <2>1, JournalCommits
  <2> QED
    BY <2>2, <2>3, <2>4, <2>5 DEF IInv, JournalHolds
<1> QED
  BY <1>1, <1>3, <1>4, <1>5, <1>6 DEF Inclusion, InclusionsInspect

\* Reserving a nonce, signing and saving the attempt.
LEMMA PreparePreserves ==
    ASSUME IInv, PrepareBegin \/ PrepareSigned \/ PrepareRefused \/ PrepareCommits
    PROVE  IInv'
<1>1. ASSUME NEW id \in AttemptIds, PrepareBeginFor(id)
      PROVE  IInv'
  <2> USE <1>1 DEF PrepareBeginFor, GateOpen, Settled, chainVars
  <2>0. /\ op' \in Op /\ op'.kind = "prepare" /\ op'.stage = "sign"
        /\ op'.permit \in AttemptIds
    BY DEF Op, OpKind, OpStage
  <2>a. op' # None
    BY <2>0, AbsentAssumption
  <2>1. TypeOK'
    BY <2>0 DEF IInv, TypeOK, ChainTypeOK
  <2>2. FileIsKnown'
    BY <2>0, <2>a DEF IInv, FileIsKnown
  <2>3. OperationState'
    BY <2>0 DEF OperationState
  <2>4. JournalHolds'
    BY JournalFrame
  <2> QED
    BY <2>1, <2>2, <2>3, <2>4 DEF IInv, JournalHolds
<1>2. CASE PrepareSigned
  <2> USE <1>2 DEF PrepareSigned, chainVars
  <2> DEFINE a == [id |-> op.permit, nonce |-> current.next, phase |-> "signed",
                   incl |-> None, seen |-> None,
                   search |-> [lower |-> current.lastObs, through |-> None]]
             t == [current EXCEPT !.next = @ + 1, !.attempts = Append(@, a)]
  <2>1. /\ current # None /\ current \in Snapshot
        /\ op \in Op /\ op.permit \in AttemptIds /\ pstate = "idle"
    BY DEF IInv, TypeOK, OperationState
  <2>2. current.next \in Nat /\ current.lastObs \in Observation
    BY <2>1, SnapshotFields
  <2>3. a \in Attempt
    BY <2>1, <2>2 DEF Attempt, Phase, Search
  <2>4. Save(t, "prepared", FALSE) /\ op' = [op EXCEPT !.stage = "write"]
    OBVIOUS
  <2> HIDE DEF a
  <2>5. t \in Snapshot /\ Keeps(current, t)
    BY <2>1, <2>3, PreparationKeeps
  <2> HIDE DEF t
  <2>6. /\ op' \in Op /\ op'.stage = "write" /\ op'.kind = "prepare"
        /\ op'.permit \in AttemptIds
    BY <2>1, <2>4 DEF Op, OpStage
  <2>7. /\ FileIsKnown' /\ pending' = t /\ pstate' = "writing"
        /\ ValidSnapshot(t)
        /\ write' \in [kind : WriteKind, exhausted : BOOLEAN]
    BY <2>1, <2>4, <2>5, <2>6, SaveWrites DEF WriteKind
  <2>8. TypeOK'
    BY <2>5, <2>6, <2>7 DEF IInv, TypeOK, ChainTypeOK
  <2>9. OperationState'
    BY <2>1, <2>6, <2>7 DEF OperationState
  <2>10. JournalHolds'
    BY <2>5, <2>7, JournalSaves
  <2> QED
    BY <2>7, <2>8, <2>9, <2>10 DEF IInv, JournalHolds
<1>3. CASE PrepareRefused
  <2> USE <1>3 DEF PrepareRefused, chainVars
  <2>1. TypeOK'
    BY DEF IInv, TypeOK, ChainTypeOK
  <2>2. FileIsKnown'
    BY DEF IInv, FileIsKnown
  <2>3. OperationState'
    BY DEF OperationState
  <2>4. JournalHolds'
    BY JournalFrame
  <2> QED
    BY <2>1, <2>2, <2>3, <2>4 DEF IInv, JournalHolds
<1>4. CASE PrepareCommits
  <2> USE <1>4 DEF PrepareCommits, chainVars
  <2>1. pstate = "writing"
    BY DEF IInv, FileIsKnown
  <2>2. TypeOK'
    <3>1. /\ recovered' \in BOOLEAN /\ inclusions' \in BOOLEAN
          /\ permit' \in AttemptIds \cup {None} /\ owner' \in Owner \cup {None}
      BY DEF IInv, TypeOK, Op
    <3> QED
      BY <3>1, CommitIsTyped
  <2>3. FileIsKnown'
    BY CommitSettles
  <2>4. OperationState'
    BY DEF OperationState
  <2>5. JournalHolds'
    BY <2>1, JournalCommits
  <2> QED
    BY <2>2, <2>3, <2>4, <2>5 DEF IInv, JournalHolds
<1> QED
  BY <1>1, <1>2, <1>3, <1>4 DEF PrepareBegin

\* A transaction that is sent is marked in the file, and it is the only one that
\* was ever sent under its nonce: any other would be marked there as well.
LEMMA SendPreserves ==
    ASSUME IInv, BroadcastSend
    PROVE  IInv'
<1> USE DEF BroadcastSend, Deliver, chainVars
<1> DEFINE i == FirstUnresolved(current.attempts)
           x == TxOf(Unresolved(current))
<1>1. /\ pstate = "idle" /\ disk = current /\ pending = None /\ Sendable(current)
      /\ current # None /\ current \in Snapshot /\ ValidSnapshot(current)
      /\ Records(current)
  BY DEF IInv, OperationState, FileIsKnown, TypeOK, AllValid, AllRecord, Sendable
<1>2. i \in 1..Len(current.attempts) /\ current.attempts[i].phase # "signed"
  <2>1. i \in 0..Len(current.attempts) /\ Len(current.attempts) \in Nat
    BY <1>1, SnapshotFields, FirstUnresolvedRange
  <2> QED
    BY <1>1, <2>1 DEF Sendable, Unresolved
<1>3. x \in Tx /\ x \in Marked(current)
  BY <1>1, <1>2, SnapshotFields, MarkedIs DEF Unresolved
<1>4. escaped' = escaped \cup {x}
  OBVIOUS
<1>5. ASSUME NEW y \in escaped, y.nonce = x.nonce
      PROVE  y = x
  <2>1. x.nonce = current.durableNext + i - 1
    BY <1>1, <1>2 DEF ValidSnapshot, Unresolved, TxOf
  <2>2. y.nonce >= current.durableNext
    BY <1>1, <1>2, <1>5, <2>1, SnapshotFields
  <2>3. PICK j \in 1..Len(current.attempts) : y = TxOf(current.attempts[j])
    BY <1>1, <2>2, MarkedIs DEF Records
  <2>4. y.nonce = current.durableNext + j - 1
    BY <1>1, <2>3 DEF ValidSnapshot, TxOf
  <2>5. i = j
    BY <1>1, <1>2, <1>5, <2>1, <2>4, SnapshotFields
  <2> QED
    BY <2>3, <2>5 DEF Unresolved
<1> HIDE DEF x
<1>6. NoEquivocation'
  BY <1>4, <1>5 DEF IInv, NoEquivocation
<1>7. AllRecord' /\ AllValid'
  BY <1>1, <1>3, <1>4 DEF IInv, AllRecord, Records, AllValid
<1>8. TypeOK'
  BY <1>3, <1>4 DEF IInv, TypeOK, ChainTypeOK
<1>9. FileIsKnown' /\ OperationState'
  BY <1>1 DEF IInv, FileIsKnown, OperationState
<1> QED
  BY <1>6, <1>7, <1>8, <1>9 DEF IInv

\* Marking, sending, and losing the answer of a send: the only escape.
LEMMA BroadcastPreserves ==
    ASSUME IInv, BroadcastBegin \/ BroadcastMarked \/ BroadcastSend \/ BroadcastLost
    PROVE  IInv'
<1>1. CASE BroadcastBegin
  <2> USE <1>1 DEF BroadcastBegin, CanBroadcast, chainVars
  <2> DEFINE i == FirstUnresolved(current.attempts)
             a == current.attempts[i]
             t == [current EXCEPT
                     !.attempts[i].phase = "broadcast-may-have-occurred",
                     !.attempts[i].incl = None, !.attempts[i].seen = None]
  <2>1. current # None /\ current \in Snapshot /\ pstate = "idle" /\ i # 0
    BY DEF IInv, TypeOK
  <2>2. a.id \in AttemptIds
    <3>1. i \in 0..Len(current.attempts) /\ Len(current.attempts) \in Nat
      BY <2>1, SnapshotFields, FirstUnresolvedRange
    <3>2. a \in Attempt
      BY <2>1, <3>1, SnapshotFields
    <3> QED
      BY <3>2 DEF Attempt
  <2>3. CASE NeedsMark(a)
    <3>1. /\ Save(t, "broadcast", FALSE)
          /\ op' = [kind |-> "broadcast", stage |-> "write", permit |-> a.id,
                    complete |-> FALSE]
      BY <2>3
    <3>2. t \in Snapshot /\ Keeps(current, t) /\ Sendable(t)
      BY <2>1, MarkKeeps, AbsentAssumption
    <3> HIDE DEF t, a
    <3>3. op' \in Op /\ op'.stage = "write" /\ op'.kind = "broadcast"
      BY <2>2, <3>1 DEF Op, OpKind, OpStage
    <3>4. /\ FileIsKnown' /\ pending' = t /\ pstate' = "writing"
          /\ ValidSnapshot(t)
          /\ write' \in [kind : WriteKind, exhausted : BOOLEAN]
      BY <2>1, <3>1, <3>2, <3>3, SaveWrites DEF WriteKind
    <3>5. TypeOK'
      BY <3>2, <3>3, <3>4 DEF IInv, TypeOK, ChainTypeOK
    <3>6. OperationState'
      BY <2>1, <3>2, <3>3, <3>4 DEF OperationState
    <3>7. JournalHolds'
      BY <3>2, <3>4, JournalSaves
    <3> QED
      BY <3>4, <3>5, <3>6, <3>7 DEF IInv, JournalHolds
  <2>4. CASE ~NeedsMark(a)
    <3>1. /\ UNCHANGED <<pending, pstate, write>>
          /\ op' = [kind |-> "broadcast", stage |-> "send", permit |-> a.id,
                    complete |-> FALSE]
      BY <2>4
    <3>2. Sendable(current)
      BY <2>1, <2>4 DEF Sendable, Unresolved, NeedsMark
    <3> HIDE DEF a
    <3>3. op' \in Op /\ op'.stage = "send" /\ op'.kind = "broadcast"
      BY <2>2, <3>1 DEF Op, OpKind, OpStage
    <3>4. TypeOK'
      BY <3>1, <3>3 DEF IInv, TypeOK, ChainTypeOK
    <3>5. FileIsKnown'
      BY <2>1, <3>1, <3>3 DEF IInv, FileIsKnown
    <3>6. OperationState'
      BY <2>1, <3>1, <3>2, <3>3 DEF OperationState
    <3>7. JournalHolds'
      BY <3>1, JournalFrame
    <3> QED
      BY <3>4, <3>5, <3>6, <3>7 DEF IInv, JournalHolds
  <2> QED
    BY <2>3, <2>4
<1>2. CASE BroadcastMarked
  <2> USE <1>2 DEF BroadcastMarked, chainVars
  <2>1. /\ pstate = "writing" /\ op \in Op /\ Sendable(pending)
        /\ pending # None /\ pending \in Snapshot
    BY DEF IInv, FileIsKnown, TypeOK, OperationState
  <2>2. op' \in Op /\ op'.kind = "broadcast" /\ op'.stage = "send"
    BY <2>1 DEF Op, OpStage
  <2>3. TypeOK'
    BY <2>1, <2>2 DEF IInv, TypeOK, ChainTypeOK, Committed
  <2>4. FileIsKnown'
    BY <2>1, <2>2 DEF FileIsKnown, Committed
  <2>5. OperationState'
    BY <2>1, <2>2 DEF OperationState, Committed
  <2>6. JournalHolds'
    BY <2>1, JournalCommits
  <2> QED
    BY <2>3, <2>4, <2>5, <2>6 DEF IInv, JournalHolds
<1>3. CASE BroadcastLost
  <2> USE <1>3 DEF BroadcastLost, chainVars
  <2>1. TypeOK'
    BY DEF IInv, TypeOK, ChainTypeOK
  <2>2. FileIsKnown'
    BY DEF IInv, FileIsKnown
  <2>3. OperationState'
    BY DEF OperationState
  <2>4. JournalHolds'
    BY JournalFrame
  <2> QED
    BY <2>1, <2>2, <2>3, <2>4 DEF IInv, JournalHolds
<1> QED
  BY <1>1, <1>2, <1>3, SendPreserves

\* Every step of the coordinator or of the chain preserves the invariant.
LEMMA NextPreserves == IInv /\ [Next]_vars => IInv'
<1> SUFFICES ASSUME IInv, [Next]_vars PROVE IInv'
  OBVIOUS
<1>1. CASE Next
  <2>1. CASE Submission
    BY <2>1, PreparePreserves, BroadcastPreserves DEF Submission
  <2> QED
    BY <1>1, <2>1, ProcessPreserves, PersistencePreserves, InspectionPreserves,
       RecoveryPreserves, InclusionPreserves, ChainPreserves DEF Next
<1>2. CASE UNCHANGED vars
  <2> USE <1>2 DEF vars, memVars, chainVars
  <2>1. JournalHolds'
    BY JournalFrame
  <2>2. TypeOK'
    BY DEF IInv, TypeOK, ChainTypeOK
  <2>3. FileIsKnown' /\ OperationState'
    BY DEF IInv, FileIsKnown, OperationState
  <2> QED
    BY <2>1, <2>2, <2>3 DEF IInv, JournalHolds
<1> QED
  BY <1>1, <1>2

\* IInv holds in every reachable state: at each instant, crashes included, every
\* snapshot that the journal file may turn out to hold accounts for all that escaped.
THEOREM Invariance == Spec => []IInv
<1>1. Init => IInv
  BY InitEstablishes
<1>2. IInv /\ [Next]_vars => IInv'
  BY NextPreserves
<1> QED
  BY <1>1, <1>2, PTL DEF Spec

-----------------------------------------------------------------------------
(* What follows from it.                                                   *)

\* TypeOK holds in every reachable state of the coordinator.
THEOREM TypeCorrect == Spec => []TypeOK
<1>1. IInv => TypeOK
  BY DEF IInv
<1> QED
  BY <1>1, Invariance, PTL

\* EscapedIsJournaled: whatever left the process is in the journal file until its
\* nonce is released, over every interleaving of crashes, failed writes and
\* reorganisations (broadcastAttempt marks before it sends).
THEOREM NothingIsForgotten == Spec => []EscapedIsJournaled
<1>1. IInv => EscapedIsJournaled
  BY DEF IInv, AllRecord, Records, EscapedIsJournaled
<1> QED
  BY <1>1, Invariance, PTL

\* NoEquivocation: two different transactions never leave under one nonce.
THEOREM OneTransactionPerNonce == Spec => []NoEquivocation
<1>1. IInv => NoEquivocation
  BY DEF IInv
<1> QED
  BY <1>1, Invariance, PTL

-----------------------------------------------------------------------------
(* A nonce is released only once it is durably consumed.                   *)

\* The account nonce never falls along the chain.
NoncesGrow ==
    \A i, j \in 1..Len(chain) : i <= j => chain[i].nonce <= chain[j].nonce

ReleaseInv == IInv /\ NoncesGrow /\ ResolutionIsDurable

\* No new snapshot appears.
LEMMA ReleaseFrame ==
    ASSUME ReleaseInv, UNCHANGED chainVars,
           disk' \in {disk, pending}, current' \in {current, disk, pending, None},
           pending' \in {pending, None}
    PROVE  NoncesGrow' /\ ResolutionIsDurable'
  BY DEF ReleaseInv, NoncesGrow, ResolutionIsDurable, chainVars

\* A new one appears whose released nonces are consumed at a durable block.
LEMMA ReleaseSaves ==
    ASSUME ReleaseInv, UNCHANGED <<chainVars, disk, current>>,
           NEW t, pending' = t, t.durableNext <= chain[durable].nonce
    PROVE  NoncesGrow' /\ ResolutionIsDurable'
  BY DEF ReleaseInv, NoncesGrow, ResolutionIsDurable, chainVars

\* The account nonce at the durable block never falls.
LEMMA DurableNonceGrows ==
    ASSUME ReleaseInv, ChainNext
    PROVE  /\ NoncesGrow'
           /\ chain[durable].nonce <= chain'[durable'].nonce
           /\ chain[durable].nonce \in Nat /\ chain'[durable'].nonce \in Nat
<1>1. /\ chain \in Seq(Block) /\ Len(chain) \in Nat
      /\ durable \in 1..Len(chain)
      /\ \A i \in 1..Len(chain) : chain[i].nonce \in Nat
  BY ReadsAreTyped DEF ReleaseInv, IInv, TypeOK, ChainTypeOK
<1>2. ASSUME NEW tx, NEW m \in Nat, LatestNonce <= m, Extend(tx, m)
      PROVE  /\ NoncesGrow'
             /\ chain[durable].nonce <= chain'[durable'].nonce
             /\ chain'[durable'].nonce \in Nat
  <2> DEFINE b == [hash |-> minted + 1, tx |-> tx, nonce |-> m]
  <2>1. /\ Len(chain') = Len(chain) + 1
        /\ \A i \in 1..Len(chain) : chain'[i] = chain[i]
        /\ chain'[Len(chain) + 1] = b
    BY <1>1, <1>2 DEF Extend
  <2>2. b.nonce = m
    OBVIOUS
  <2>3. \A i \in 1..Len(chain) : chain[i].nonce <= LatestNonce
    BY <1>1 DEF ReleaseInv, NoncesGrow, LatestNonce
  <2> HIDE DEF b
  <2>a. LatestNonce \in Nat
    BY <1>1 DEF LatestNonce
  <2>4. NoncesGrow'
    <3> SUFFICES ASSUME NEW i \in 1..(Len(chain) + 1), NEW j \in 1..(Len(chain) + 1),
                        i <= j
                 PROVE  chain'[i].nonce <= chain'[j].nonce
      BY <2>1 DEF NoncesGrow
    <3>1. CASE j \in 1..Len(chain)
      BY <1>1, <2>1, <3>1 DEF ReleaseInv, NoncesGrow
    <3>2. CASE j = Len(chain) + 1 /\ i \in 1..Len(chain)
      BY <1>1, <1>2, <2>1, <2>2, <2>3, <2>a, <3>2
    <3>3. CASE i = Len(chain) + 1 /\ j = Len(chain) + 1
      BY <2>1, <2>2, <3>3
    <3> QED
      BY <1>1, <3>1, <3>2, <3>3
  <2> QED
    BY <1>1, <1>2, <2>1, <2>4 DEF Extend
<1>3. LatestNonce \in Nat /\ LatestNonce + 1 \in Nat /\ LatestNonce <= LatestNonce + 1
      /\ LatestNonce <= LatestNonce
  BY <1>1 DEF LatestNonce
<1>4. CASE MineEmpty
  BY <1>1, <1>2, <1>3, <1>4 DEF MineEmpty
<1>5. CASE MineOwn
  BY <1>1, <1>2, <1>3, <1>5 DEF MineOwn
<1>6. CASE MineForeign
  BY <1>1, <1>2, <1>3, <1>6 DEF MineForeign
<1>7. CASE Reorg
  <2>1. PICK k \in durable..(Len(chain) - 1) : chain' = SubSeq(chain, 1, k)
    BY <1>7 DEF Reorg
  <2>2. k \in Int /\ 1 <= k /\ k <= Len(chain) /\ \A j \in 1..k : chain[j] \in Block
    BY <1>1, <2>1, ElementOfSeq
  <2>3. Len(chain') = k /\ \A i \in 1..k : chain'[i] = chain[i]
    BY <2>1, <2>2, SubSeqProperties
  <2>4. NoncesGrow'
    BY <1>1, <2>2, <2>3 DEF ReleaseInv, NoncesGrow
  <2> QED
    BY <1>1, <1>7, <2>1, <2>2, <2>3, <2>4 DEF Reorg
<1>8. CASE Finalize
  BY <1>1, <1>8 DEF Finalize, ReleaseInv, NoncesGrow
<1> QED
  BY <1>4, <1>5, <1>6, <1>7, <1>8 DEF ChainNext

\* What was released stays released while the chain moves.
LEMMA ChainReleases ==
    ASSUME ReleaseInv, ChainNext, UNCHANGED <<disk, memVars>>
    PROVE  NoncesGrow' /\ ResolutionIsDurable'
<1>1. \A s \in {disk, current, pending} \ {None} : s.durableNext \in Nat
  BY SnapshotFields DEF ReleaseInv, IInv, TypeOK
<1> QED
  BY <1>1, DurableNonceGrows DEF ReleaseInv, ResolutionIsDurable, memVars

\* Recovery releases the oldest nonce only when it read, at a block not above the
\* durable one, that the account has moved past it.
LEMMA RecoveryReleases ==
    ASSUME ReleaseInv, NEW n \in RecoveryAnchors, NEW served,
           current # None
    PROVE  RecoverySnapshot(current, InspectRecovery(current, n, served)).durableNext
             <= chain[durable].nonce
<1> DEFINE r == InspectRecovery(current, n, served)
           t == RecoverySnapshot(current, r)
<1>1. /\ ChainTypeOK /\ n \in 1..Len(chain) /\ durable \in 1..Len(chain)
      /\ n <= durable /\ current \in Snapshot
  BY DEF ReleaseInv, IInv, TypeOK, ChainTypeOK, RecoveryAnchors
<1>2. current.durableNext <= chain[durable].nonce
  BY DEF ReleaseInv, ResolutionIsDurable
<1>3. /\ chain[n].nonce <= chain[durable].nonce
      /\ chain[n].nonce \in Nat /\ chain[durable].nonce \in Nat
  BY <1>1, ReadsAreTyped DEF ReleaseInv, NoncesGrow
<1>4. CASE current.attempts # <<>> /\ r.status = "resolution-available"
  <2>1. t.durableNext = current.attempts[1].nonce + 1
    <3> HIDE DEF r
    <3> QED
      BY <1>1, <1>4 DEF RecoverySnapshot, Snapshot
  <2>2. chain[n].nonce > current.attempts[1].nonce
    BY <1>1, <1>4, RecoveryAnswers DEF AnchoredNonce
  <2>3. current.attempts[1].nonce \in Nat
    BY <1>1, <1>4, SnapshotFields
  <2> QED
    BY <1>3, <2>1, <2>2, <2>3
<1>5. CASE ~(current.attempts # <<>> /\ r.status = "resolution-available")
  <2>1. t.durableNext = current.durableNext
    <3> HIDE DEF r
    <3> QED
      BY <1>1, <1>5 DEF RecoverySnapshot, Snapshot
  <2> QED
    BY <1>2, <2>1
<1> QED
  BY <1>4, <1>5

\* Every step preserves that released nonces are durably consumed.
LEMMA ReleasePreserves == ReleaseInv /\ [Next]_vars => ReleaseInv'
<1> SUFFICES ASSUME ReleaseInv, [Next]_vars PROVE NoncesGrow' /\ ResolutionIsDurable'
  BY NextPreserves DEF ReleaseInv
<1>1. CASE Start
  BY <1>1, ReleaseFrame DEF Start
<1>2. CASE Crash
  BY <1>2, ReleaseFrame DEF Crash, Down
<1>3. CASE WriteFails
  BY <1>3, ReleaseFrame DEF WriteFails
<1>4. CASE RetryPersistence
  BY <1>4, ReleaseFrame DEF RetryPersistence
<1>5. CASE RetryCommits
  BY <1>5, ReleaseFrame DEF RetryCommits, Committed
<1>6. CASE BeginInspection
  BY <1>6, ReleaseFrame DEF BeginInspection
<1>7. CASE FinishInspection
  BY <1>7, ReleaseFrame DEF FinishInspection
<1>8. CASE AbandonInspection
  BY <1>8, ReleaseFrame DEF AbandonInspection
<1>9. CASE CompleteAbandonment
  BY <1>9, ReleaseFrame DEF CompleteAbandonment
<1>10. CASE OpenHeadBegin
  BY <1>10, ReleaseFrame DEF OpenHeadBegin
<1>11. CASE OpenHeadEnd
  BY <1>11, ReleaseFrame DEF OpenHeadEnd
<1>12. CASE RecoverBegin
  BY <1>12, ReleaseFrame DEF RecoverBegin
<1>13. CASE RecoverGivesUp
  BY <1>13, ReleaseFrame DEF RecoverGivesUp
<1>14. CASE RecoverCommits
  BY <1>14, ReleaseFrame DEF RecoverCommits, Committed
<1>15. CASE InclusionsBegin
  BY <1>15, ReleaseFrame DEF InclusionsBegin
<1>16. CASE InclusionsGiveUp
  BY <1>16, ReleaseFrame DEF InclusionsGiveUp
<1>17. CASE InclusionsContradict
  BY <1>17, ReleaseFrame DEF InclusionsContradict, InclusionsContradictAt
<1>18. CASE InclusionsCommit
  BY <1>18, ReleaseFrame DEF InclusionsCommit, Committed
<1>19. CASE PrepareBegin
  BY <1>19, ReleaseFrame DEF PrepareBegin, PrepareBeginFor
<1>20. CASE PrepareRefused
  BY <1>20, ReleaseFrame DEF PrepareRefused
<1>21. CASE PrepareCommits
  BY <1>21, ReleaseFrame DEF PrepareCommits, Committed
<1>22. CASE BroadcastMarked
  BY <1>22, ReleaseFrame DEF BroadcastMarked, Committed
<1>23. CASE BroadcastLost
  BY <1>23, ReleaseFrame DEF BroadcastLost
<1>24. CASE RecoverBootstraps
  <2>1. PICK n \in RecoveryAnchors : RecoverBootstrapsAt(n)
    BY <1>24 DEF RecoverBootstraps
  <2> DEFINE t == [baseline |-> chain[n].nonce, next |-> chain[n].nonce, durableNext |-> chain[n].nonce,
                   lastObs |-> AnchoredNonce(n), repairs |-> <<>>,
                   attempts |-> <<>>]
  <2>2. pending' = t /\ UNCHANGED <<chainVars, disk, current>>
    BY <2>1 DEF RecoverBootstrapsAt, Save
  <2>3. n \in 1..Len(chain) /\ durable \in 1..Len(chain) /\ n <= durable
    BY DEF ReleaseInv, IInv, TypeOK, ChainTypeOK, RecoveryAnchors
  <2>4. t.durableNext <= chain[durable].nonce
    BY <2>3 DEF ReleaseInv, NoncesGrow
  <2> QED
    BY <2>2, <2>4, ReleaseSaves
<1>25. CASE RecoverInspects
  <2>1. PICK n \in RecoveryAnchors, served \in BOOLEAN : RecoverInspectsAt(n, served)
    BY <1>25 DEF RecoverInspects
  <2>2. /\ pending' = RecoverySnapshot(current, InspectRecovery(current, n, served))
        /\ UNCHANGED <<chainVars, disk, current>> /\ current # None
    BY <2>1 DEF RecoverInspectsAt, Save
  <2>3. RecoverySnapshot(current, InspectRecovery(current, n, served)).durableNext
          <= chain[durable].nonce
    BY <2>2, RecoveryReleases
  <2> QED
    BY <2>2, <2>3, ReleaseSaves
<1>a. (op # None /\ op.kind \in {"inclusions", "prepare", "broadcast"}) \/ CanBroadcast =>
        /\ current \in Snapshot
        /\ current.durableNext <= chain[durable].nonce
  BY DEF ReleaseInv, IInv, TypeOK, OperationState, ResolutionIsDurable, CanBroadcast
<1>26. CASE InclusionsInspect
  <2>1. PICK n \in InclusionHeads, servedAt \in SUBSET (1..Len(current.attempts)) :
          InclusionsInspectAt(n, servedAt)
    BY <1>26 DEF InclusionsInspect
  <2> DEFINE r == InspectInclusions(current, n, servedAt)
             t == [current EXCEPT !.lastObs = ObservationToKeep(current, r.obs),
                                  !.attempts = r.attempts]
  <2>2. /\ pending' = t /\ UNCHANGED <<chainVars, disk, current>>
        /\ op # None /\ op.kind = "inclusions"
    BY <2>1 DEF InclusionsInspectAt, Save, Reading
  <2> HIDE DEF r
  <2>3. t.durableNext <= chain[durable].nonce
    BY <1>a, <2>2 DEF Snapshot
  <2> QED
    BY <2>2, <2>3, ReleaseSaves
<1>27. CASE PrepareSigned
  <2> DEFINE a == [id |-> op.permit, nonce |-> current.next, phase |-> "signed",
                   incl |-> None, seen |-> None,
                   search |-> [lower |-> current.lastObs, through |-> None]]
             t == [current EXCEPT !.next = @ + 1, !.attempts = Append(@, a)]
  <2>1. /\ pending' = t /\ UNCHANGED <<chainVars, disk, current>>
        /\ op # None /\ op.kind = "prepare"
    BY <1>27 DEF PrepareSigned, Save
  <2> HIDE DEF a
  <2>2. t.durableNext <= chain[durable].nonce
    BY <1>a, <2>1 DEF Snapshot
  <2> QED
    BY <2>1, <2>2, ReleaseSaves
<1>28. CASE BroadcastBegin
  <2> DEFINE i == FirstUnresolved(current.attempts)
             t == [current EXCEPT
                     !.attempts[i].phase = "broadcast-may-have-occurred",
                     !.attempts[i].incl = None, !.attempts[i].seen = None]
  <2>1. /\ UNCHANGED <<chainVars, disk, current>> /\ CanBroadcast
        /\ pending' = pending \/ pending' = t
    BY <1>28 DEF BroadcastBegin, Save
  <2>2. CASE pending' = pending
    BY <2>1, <2>2, ReleaseFrame
  <2>3. CASE pending' = t
    <3> HIDE DEF i
    <3>1. t.durableNext <= chain[durable].nonce
      BY <1>a, <2>1 DEF Snapshot
    <3> QED
      BY <2>1, <2>3, <3>1, ReleaseSaves
  <2> QED
    BY <2>1, <2>2, <2>3
<1>29. CASE BroadcastSend
  BY <1>29 DEF BroadcastSend, Deliver, ReleaseInv, NoncesGrow, ResolutionIsDurable
<1>30. CASE ChainNext /\ UNCHANGED <<disk, memVars>>
  BY <1>30, ChainReleases
<1>31. CASE UNCHANGED vars
  BY <1>31, ReleaseFrame DEF vars, memVars
<1> QED
  BY <1>1, <1>2, <1>3, <1>4, <1>5, <1>6, <1>7, <1>8, <1>9, <1>10, <1>11,
     <1>12, <1>13, <1>14, <1>15, <1>16, <1>17, <1>18, <1>19, <1>20, <1>21,
     <1>22, <1>23, <1>24, <1>25, <1>26, <1>27, <1>28, <1>29, <1>30, <1>31 DEF
     Next, Process, Persistence, Inspection, Recovery, Inclusion, Submission

\* ResolutionIsDurable: no snapshot, on disk or in memory, releases a nonce that is
\* not consumed at a durable block (the resolution of recoverOwned).
THEOREM ReleaseIsDurable == Spec => []ResolutionIsDurable
<1>1. Init => ReleaseInv
  <2> SUFFICES ASSUME Init PROVE NoncesGrow /\ ResolutionIsDurable
    BY InitEstablishes DEF ReleaseInv
  <2> QED
    BY DEF Init, ChainInit, NoncesGrow, ResolutionIsDurable
<1>2. ReleaseInv /\ [Next]_vars => ReleaseInv'
  BY ReleasePreserves
<1>3. ReleaseInv => ResolutionIsDurable
  BY DEF ReleaseInv
<1> QED
  BY <1>1, <1>2, <1>3, PTL DEF Spec

-----------------------------------------------------------------------------
(* A work has one transaction until its nonce is durably consumed.         *)

\* Only a send adds to what escaped, and only the environment moves the chain.
LEMMA WhatMoves ==
    ASSUME Next
    PROVE  BroadcastSend \/ ChainNext \/ UNCHANGED chainVars
<1>1. CASE Process
  BY <1>1 DEF Process, Start, Crash
<1>2. CASE Persistence
  BY <1>2 DEF Persistence, WriteFails, RetryPersistence, RetryCommits
<1>3. CASE Inspection
  BY <1>3 DEF Inspection, BeginInspection, FinishInspection, AbandonInspection,
              CompleteAbandonment, OpenHeadBegin, OpenHeadEnd
<1>4. CASE Recovery
  BY <1>4 DEF Recovery, RecoverBegin, RecoverGivesUp, RecoverBootstraps,
              RecoverBootstrapsAt, RecoverInspects, RecoverInspectsAt,
              RecoverCommits
<1>5. CASE Inclusion
  BY <1>5 DEF Inclusion, InclusionsBegin, InclusionsGiveUp, InclusionsContradict,
              InclusionsContradictAt, InclusionsInspect, InclusionsInspectAt,
              InclusionsCommit
<1>6. CASE Submission
  BY <1>6 DEF Submission, PrepareBegin, PrepareBeginFor, PrepareSigned,
              PrepareRefused, PrepareCommits, BroadcastBegin, BroadcastMarked,
              BroadcastLost
<1> QED
  BY <1>1, <1>2, <1>3, <1>4, <1>5, <1>6 DEF Next

\* When a transaction is sent, every other one for the same work is older, and
\* its nonce is released.
LEMMA SendIsAloneForWork ==
    ASSUME ReleaseInv, BroadcastSend, NEW y \in escaped,
           y # TxOf(Unresolved(current)),
           WorkOf[y.id] = WorkOf[TxOf(Unresolved(current)).id]
    PROVE  /\ y.nonce < TxOf(Unresolved(current)).nonce
           /\ y.nonce < chain[durable].nonce
<1> DEFINE i == FirstUnresolved(current.attempts)
           x == TxOf(Unresolved(current))
<1>1. /\ pstate = "idle" /\ Sendable(current)
      /\ current # None /\ current \in Snapshot /\ ValidSnapshot(current)
      /\ Records(current) /\ escaped \subseteq Tx
  BY DEF ReleaseInv, IInv, OperationState, TypeOK, ChainTypeOK, AllValid,
         AllRecord, Sendable, BroadcastSend
<1>2. i \in 1..Len(current.attempts)
  <2>1. i \in 0..Len(current.attempts) /\ Len(current.attempts) \in Nat
    BY <1>1, SnapshotFields, FirstUnresolvedRange
  <2> QED
    BY <1>1, <2>1 DEF Sendable
<1>3. x.nonce = current.durableNext + i - 1 /\ current.durableNext \in Nat
  BY <1>1, <1>2, SnapshotFields DEF ValidSnapshot, Unresolved, TxOf
<1>4. y.nonce \in Nat
  BY <1>1 DEF Tx
<1>5. y.nonce < current.durableNext
  <2> SUFFICES ASSUME y.nonce >= current.durableNext PROVE FALSE
    BY <1>3, <1>4
  <2>1. PICK j \in 1..Len(current.attempts) : y = TxOf(current.attempts[j])
    BY <1>1, MarkedIs DEF Records
  <2>2. WorkOf[current.attempts[j].id] = WorkOf[current.attempts[i].id]
    BY <2>1 DEF TxOf, Unresolved
  <2>3. i = j
    BY <1>1, <1>2, <2>2 DEF ValidSnapshot
  <2> QED
    BY <2>1, <2>3 DEF Unresolved
<1>6. current.durableNext <= chain[durable].nonce
  BY <1>1 DEF ReleaseInv, ResolutionIsDurable
<1>7. chain[durable].nonce \in Nat
  BY ReadsAreTyped DEF ReleaseInv, IInv, TypeOK, ChainTypeOK
<1> QED
  BY <1>2, <1>3, <1>4, <1>5, <1>6, <1>7

\* Every step preserves that a work has one live transaction; only a send matters.
LEMMA WorkPreserves ==
    ASSUME ReleaseInv, OneTransactionPerWork, [Next]_vars
    PROVE  OneTransactionPerWork'
<1>1. escaped \subseteq Tx /\ chain[durable].nonce \in Nat
  BY ReadsAreTyped DEF ReleaseInv, IInv, TypeOK, ChainTypeOK
<1>2. CASE BroadcastSend
  <2> DEFINE x == TxOf(Unresolved(current))
  <2>1. escaped' = escaped \cup {x} /\ chain' = chain /\ durable' = durable
    BY <1>2 DEF BroadcastSend, Deliver
  <2>2. \A y \in escaped : y # x /\ WorkOf[y.id] = WorkOf[x.id] =>
          y.nonce < x.nonce /\ y.nonce < chain[durable].nonce
    BY <1>2, SendIsAloneForWork
  <2>3. x.nonce \in Nat
    <3>1. IInv'
      BY <1>2, NextPreserves DEF ReleaseInv, Next, Submission
    <3>2. x \in Tx
      BY <2>1, <3>1 DEF IInv, TypeOK, ChainTypeOK
    <3> QED
      BY <3>2 DEF Tx
  <2> HIDE DEF x
  <2> SUFFICES ASSUME NEW t \in escaped \cup {x}, NEW u \in escaped \cup {x},
                      WorkOf[t.id] = WorkOf[u.id], t.nonce < u.nonce
               PROVE  t.nonce < chain[durable].nonce
    BY <2>1 DEF OneTransactionPerWork
  <2>4. t.nonce \in Nat /\ u.nonce \in Nat
    BY <1>1, <2>3 DEF Tx
  <2>5. CASE u = x
    BY <2>2, <2>4, <2>5
  <2>6. CASE u # x /\ t = x
    BY <2>2, <2>4, <2>6
  <2>7. CASE u # x /\ t # x
    BY <2>7 DEF OneTransactionPerWork
  <2> QED
    BY <2>5, <2>6, <2>7
<1>3. CASE ChainNext
  <2>1. escaped' = escaped
    BY <1>3 DEF ChainNext, MineEmpty, MineOwn, MineForeign, Extend, Reorg, Finalize
  <2>2. \A t \in escaped : t.nonce \in Nat
    BY <1>1 DEF Tx
  <2> QED
    BY <1>3, <2>1, <2>2, DurableNonceGrows DEF OneTransactionPerWork
<1>4. CASE UNCHANGED chainVars
  BY <1>4 DEF OneTransactionPerWork, chainVars
<1> QED
  BY <1>2, <1>3, <1>4, WhatMoves DEF vars

\* OneTransactionPerWork: a second transaction for a work leaves only after the
\* nonce of the first one is consumed at a durable block, over all crashes,
\* restarts, lost writes and reorganisations (already-retained).
THEOREM WorkIsSentOnce == Spec => []OneTransactionPerWork
<1>1. Init => ReleaseInv /\ OneTransactionPerWork
  BY InitEstablishes
     DEF ReleaseInv, Init, ChainInit, NoncesGrow, ResolutionIsDurable,
         OneTransactionPerWork
<1>2. /\ ReleaseInv /\ OneTransactionPerWork
      /\ [Next]_vars
      => (ReleaseInv /\ OneTransactionPerWork)'
  BY ReleasePreserves, WorkPreserves
<1> QED
  BY <1>1, <1>2, PTL DEF Spec


-----------------------------------------------------------------------------

(***************************************************************************)
(* The authority to sign and to send: the invariant beyond IInv.           *)
(***************************************************************************)

\* The inclusion of attempt i was verified at the block the snapshot observed, and
\* stands as long as that block does.
Verified(s, i) ==
    /\ s.attempts[i].phase = "included"
    /\ s.attempts[i].incl.num <= s.lastObs.num
    /\ Canonical(AnchorPart(s.lastObs)) => Canonical(s.attempts[i].incl)

EarlierIn(s) == \A i \in 1..(FirstUnresolved(s.attempts) - 1) : Verified(s, i)

AllIn(s) ==
    /\ s.lastObs.nonce >= s.next
    /\ \A i \in 1..Len(s.attempts) : Verified(s, i)

\* Only the newest attempt may be signed and not yet marked as sent.
OnlyLastUnsent(s) ==
    \A i \in 1..Len(s.attempts) : i < Len(s.attempts) => s.attempts[i].phase # "signed"

\* What a written snapshot may change of the one before it.
Advances(s, t) ==
    /\ t.next >= s.next
    /\ t.durableNext >= s.durableNext
    /\ UnattributedIn(s) => UnattributedIn(t)
    /\ \A i \in 1..Len(s.attempts) :
         \/ \E j \in 1..Len(t.attempts) : TxOf(t.attempts[j]) = TxOf(s.attempts[i])
         \/ i = 1 /\ s.attempts[1].nonce < chain[durable].nonce

\* A block that was observed is not minted again.
HashesAreOld ==
    /\ \A k \in 1..Len(chain) : chain[k].hash <= minted
    /\ \A s \in {disk, current, pending} : s # None => s.lastObs.hash <= minted

UnsentIsLast == \A s \in {disk, current, pending} : s # None => OnlyLastUnsent(s)

\* Every operation revokes what authority it may contradict before its first await.
Revoked ==
    /\ ~up => ~recovered /\ ~inclusions /\ permit = None /\ owner = None
    /\ pstate # "idle" => ~inclusions /\ permit = None
    /\ op # None =>
        /\ op.kind # "open-head" => permit = None
        /\ op.kind \in {"recover", "inclusions", "broadcast"} => ~inclusions
        /\ op.kind = "broadcast" => ~recovered
        /\ op.kind \in {"retry", "prepare", "broadcast"} => owner = None
        /\ op.kind = "open-head" => owner.bracket = "failed"
        /\ op.kind = "prepare" /\ op.stage = "sign" =>
             inclusions /\ blockers = {} /\ FirstUnresolved(current.attempts) = 0

\* The blocker is what the acknowledged journal records.
Latch == up => (Unattributed \in blockers <=> UnattributedIn(current))

\* What is being written.
Writing ==
    /\ (current # None /\ pending # None) => Advances(current, pending)
    /\ (op # None /\ op.stage = "write") =>
        /\ op.kind = "broadcast" =>
             pending.lastObs = current.lastObs /\ pending.next = current.next
        /\ op.kind = "inclusions" /\ Unattributed \notin blockers =>
             /\ op.complete => AllIn(pending)
             /\ owner.bracket = "open" => AnchorPart(pending.lastObs) = owner.head
        /\ (op.kind \in {"recover", "inclusions", "prepare"} /\ op.permit # None
              /\ Unattributed \notin blockers) => EarlierIn(pending)

\* What authority rests on.
Grounds ==
    /\ (inclusions /\ Unattributed \notin blockers) => current # None /\ AllIn(current)
    /\ (permit # None /\ Unattributed \notin blockers) => current # None /\ EarlierIn(current)
    /\ (owner # None /\ owner.bracket = "closed") =>
         /\ op = None
         /\ current # None
         /\ AnchorPart(current.lastObs) = owner.head \/ Unattributed \in blockers

AuthorityState ==
    HashesAreOld /\ UnsentIsLast /\ Revoked /\ Latch /\ Writing /\ Grounds

AInv == ReleaseInv /\ AuthorityState

-----------------------------------------------------------------------------
(* What an inclusion pass verifies.                                        *)

\* Attempt a is included at or below block n, in a canonical block.
Standing(a, n) == a.phase = "included" /\ a.incl.num <= n /\ Canonical(a.incl)

\* The receipt pass verifies what stands.
LEMMA InspectVerifies ==
    ASSUME ChainTypeOK, NEW n \in 1..Len(chain), NEW served \in BOOLEAN,
           NEW a \in Attempt, ValidAttempt(a), InspectAttempt(a, n, served).verified
    PROVE  Standing(InspectAttempt(a, n, served).attempt, n)
<1>1. PICK k : k = InspectAttempt(a, n, served)
  OBVIOUS
<1>2. CASE /\ a.phase = "included" /\ a.seen \in Sighting
           /\ k.attempt = SeenAgain(a, n) /\ a.incl.num <= n /\ Canonical(a.incl)
  BY <1>1, <1>2, SeenAgainIs DEF Standing
<1>3. ASSUME NEW j \in 1..n, k.attempt = Included(a, AnchorOf(j), TxOf(a), n, None)
      PROVE  Standing(k.attempt, n)
  <2>1. TxOf(a) \in Tx /\ n \in Nat
    BY DEF Attempt, TxOf, Tx, ChainTypeOK
  <2>2. /\ AnchorOf(j) \in Anchor /\ AnchorOf(j).num <= n /\ Canonical(AnchorOf(j))
    BY ReadIsCanonical, <2>1
  <2>3. PICK at, tx, m : at = AnchorOf(j) /\ tx = TxOf(a) /\ m = None
    OBVIOUS
  <2>4. at \in Anchor /\ tx \in Tx /\ m \in Nat \cup {None}
    BY <2>1, <2>2, <2>3
  <2>5. k.attempt = Included(a, at, tx, n, m)
    BY <1>3, <2>3
  <2>6. k.attempt.phase = "included" /\ k.attempt.incl = at
    BY <2>4, <2>5, IncludedIs
  <2> QED
    BY <2>2, <2>3, <2>6 DEF Standing
<1> QED
  BY <1>1, <1>2, <1>3, InspectCases

\* So does the replacement search, and it saw the nonce consumed.
LEMMA SearchVerifies ==
    ASSUME ChainTypeOK, NEW n \in 1..Len(chain), NEW lastObs \in Observation, NEW k,
           k.attempt \in Attempt,
           k = [attempt |-> k.attempt, verified |-> k.verified,
                candidate |-> k.candidate]
    PROVE  LET f == SearchCandidate(k, lastObs, n)
           IN  f = k \/ (Standing(f.attempt, n) /\ chain[n].nonce > k.attempt.nonce)
<1>1. PICK f : f = SearchCandidate(k, lastObs, n)
  OBVIOUS
<1>2. ASSUME NEW j \in 1..n, chain[j].tx \in Tx, chain[n].nonce \in Nat,
             f.attempt = Included(k.attempt, AnchorOf(j), chain[j].tx, n, chain[n].nonce)
      PROVE  Standing(f.attempt, n)
  <2>1. n \in Nat
    BY DEF ChainTypeOK
  <2>2. /\ AnchorOf(j) \in Anchor /\ AnchorOf(j).num <= n /\ Canonical(AnchorOf(j))
    BY ReadIsCanonical, <2>1
  <2>3. PICK at, tx, m : at = AnchorOf(j) /\ tx = chain[j].tx /\ m = chain[n].nonce
    OBVIOUS
  <2>4. at \in Anchor /\ tx \in Tx /\ m \in Nat \cup {None}
    BY <1>2, <2>2, <2>3
  <2>5. f.attempt = Included(k.attempt, at, tx, n, m)
    BY <1>2, <2>3
  <2>6. f.attempt.phase = "included" /\ f.attempt.incl = at
    BY <2>4, <2>5, IncludedIs
  <2> QED
    BY <2>2, <2>3, <2>6 DEF Standing
<1> QED
  BY <1>1, <1>2, SearchCases

\* An inclusion pass over snapshot s, attempt by attempt: what it verified stands,
\* and the observed nonce is past it.
LEMMA InclusionEffect ==
    ASSUME ChainTypeOK, NEW n \in 1..Len(chain), NEW servedAt,
           NEW s \in Snapshot, ValidSnapshot(s),
           InspectInclusions(s, n, servedAt).status = "inspected"
    PROVE  LET r == InspectInclusions(s, n, servedAt)
           IN  /\ r.obs = AnchoredNonce(n)
               /\ chain[n].nonce >= s.durableNext
               /\ r.attempts \in Seq(Attempt) /\ Len(r.attempts) = Len(s.attempts)
               /\ \A i \in 1..Len(s.attempts) :
                    SameTransaction(s.attempts[i], r.attempts[i])
               /\ r.complete =>
                    \A i \in 1..Len(s.attempts) :
                        /\ Standing(r.attempts[i], n)
                        /\ chain[n].nonce > s.attempts[i].nonce
               /\ r.permit # None =>
                    \A i \in 1..(FirstUnresolved(r.attempts) - 1) :
                        Standing(r.attempts[i], n)
<1> DEFINE r     == InspectInclusions(s, n, servedAt)
           len   == Len(s.attempts)
           seen  == [i \in 1..len |-> InspectAttempt(s.attempts[i], n, i \in servedAt)]
           final == [i \in 1..Len(seen) |-> SearchCandidate(seen[i], s.lastObs, n)]
           out   == [i \in 1..Len(final) |-> final[i].attempt]
           u     == FirstUnresolved(out)
           odd   == \E i \in 1..Len(seen) :
                      seen[i].verified /\ AnchoredNonce(n).nonce <= out[i].nonce
<1>1. /\ r.obs = AnchoredNonce(n)
      /\ r.attempts = out
      /\ r.complete = AllVerified(final)
      /\ r.status = CASE AnchoredNonce(n).nonce < s.durableNext ->
                           "nonce-behind-journal"
                      [] AnchoredNonce(n).nonce >= s.durableNext /\ odd ->
                           "inconsistent-observations"
                      [] OTHER -> "inspected"
      /\ r.permit = IF /\ u # 0
                       /\ seen[u].candidate
                       /\ AnchoredNonce(n).nonce = out[u].nonce
                       /\ EarlierVerified(final, u)
                    THEN out[u].id ELSE None
  BY Zenon DEF InspectInclusions
<1>2. len \in Nat /\ Len(seen) = len /\ Len(final) = len
  BY SnapshotFields
<1>3. /\ chain[n].nonce \in Nat /\ AnchoredNonce(n).nonce = chain[n].nonce
      /\ s.durableNext \in Nat /\ s.lastObs \in Observation
  BY ReadsAreTyped, SnapshotFields DEF AnchoredNonce
<1>4. ASSUME NEW i \in 1..len
      PROVE  /\ SameTransaction(s.attempts[i], out[i])
             /\ out[i] = final[i].attempt
             /\ \/ final[i] = seen[i] /\ (seen[i].verified => Standing(out[i], n))
                \/ Standing(out[i], n) /\ chain[n].nonce > s.attempts[i].nonce
  <2>1. s.attempts[i] \in Attempt /\ ValidAttempt(s.attempts[i])
    BY SnapshotFields DEF ValidSnapshot
  <2>2. (i \in servedAt) \in BOOLEAN
    OBVIOUS
  <2>3. PICK k : k = InspectAttempt(s.attempts[i], n, i \in servedAt)
    OBVIOUS
  <2>4. /\ k = [attempt |-> k.attempt, verified |-> k.verified,
                candidate |-> k.candidate]
        /\ SameTransaction(s.attempts[i], k.attempt)
        /\ k.verified => Standing(k.attempt, n)
    BY <2>1, <2>2, <2>3, InspectAttemptIsSame, InspectVerifies
  <2>5. seen[i] = k /\ final[i] = SearchCandidate(k, s.lastObs, n)
        /\ out[i] = final[i].attempt
    <3>1. seen[i] = k
      BY <2>3
    <3> HIDE DEF seen
    <3> QED
      BY <1>2, <3>1
  <2> HIDE DEF seen, final, out
  <2>6. SameTransaction(s.attempts[i], out[i])
    BY <1>3, <2>1, <2>4, <2>5, SearchCandidateIsSame
  <2>7. k.attempt \in Attempt /\ k.attempt.nonce = s.attempts[i].nonce
    BY <2>1, <2>4 DEF SameTransaction, TxOf, Attempt
  <2>8. \/ final[i] = k
        \/ Standing(out[i], n) /\ chain[n].nonce > k.attempt.nonce
    BY <1>3, <2>4, <2>5, <2>7, SearchVerifies
  <2> QED
    BY <2>4, <2>5, <2>6, <2>7, <2>8
<1>5. out \in [1..len -> Attempt]
  BY <1>2, <1>4 DEF SameTransaction
<1> HIDE DEF out
<1>6. out \in Seq(Attempt) /\ Len(out) = len
  BY <1>2, <1>5, FunctionIsSeq
<1>7. chain[n].nonce >= s.durableNext /\ ~odd
  <2> HIDE DEF odd, r
  <2>1. r.status = "inspected"
    BY DEF r
  <2> QED
    BY <1>1, <1>3, <2>1
<1>8. ASSUME NEW i \in 1..len, final[i].verified
      PROVE  Standing(out[i], n) /\ chain[n].nonce > s.attempts[i].nonce
  <2>1. out[i].nonce = s.attempts[i].nonce /\ out[i].nonce \in Nat
    BY <1>4, SnapshotFields DEF SameTransaction, TxOf, Attempt
  <2>2. ~(seen[i].verified /\ chain[n].nonce <= out[i].nonce)
    BY <1>2, <1>3, <1>7
  <2> HIDE DEF seen, final, odd
  <2> QED
    BY <1>3, <1>4, <1>8, <2>1, <2>2
<1>9. u \in 0..len
  BY <1>6, FirstUnresolvedRange
<1> HIDE DEF u, r, seen, final, odd
<1>10. r.complete => \A i \in 1..len :
         Standing(out[i], n) /\ chain[n].nonce > s.attempts[i].nonce
  BY <1>1, <1>2, <1>8 DEF AllVerified
<1>11. r.permit # None => \A i \in 1..(u - 1) : Standing(out[i], n)
  <2> SUFFICES ASSUME r.permit # None, NEW i \in 1..(u - 1) PROVE Standing(out[i], n)
    OBVIOUS
  <2>1. EarlierVerified(final, u)
    BY <1>1
  <2>2. i \in 1..len /\ final[i].verified
    BY <1>2, <1>9, <2>1 DEF EarlierVerified
  <2> QED
    BY <1>8, <2>2
<1> QED
  BY <1>1, <1>4, <1>6, <1>7, <1>10, <1>11 DEF u, r

\* Evidence of other activity is not lost in what a pass records.
LEMMA EvidenceIsKept ==
    ASSUME NEW s \in Snapshot, NEW obs \in Observation,
           Unattributed \in blockers <=> UnattributedIn(s)
    PROVE  /\ ObservationToKeep(s, obs) \in {s.lastObs, obs}
           /\ ObservationToKeep(s, obs) \in Observation
           /\ UnattributedIn(s) => ObservationToKeep(s, obs).nonce > s.next
           /\ Unattributed \notin blockers => ObservationToKeep(s, obs) = obs
<1>1. s.lastObs \in Observation /\ s.next \in Nat
  BY SnapshotFields
<1>2. obs.nonce \in Nat /\ s.lastObs.nonce \in Nat
  BY <1>1 DEF Observation
<1> QED
  BY <1>1, <1>2 DEF ObservationToKeep, KeepsEvidence, UnattributedIn

-----------------------------------------------------------------------------
(* What is written next to a snapshot.                                     *)

Follows(s, t) ==
    /\ t \in Snapshot
    /\ Advances(s, t)
    /\ OnlyLastUnsent(s) => OnlyLastUnsent(t)
    /\ t.lastObs.hash <= minted

\* A snapshot the coordinator may derive another one from.
Base(s) ==
    /\ s \in Snapshot
    /\ ValidSnapshot(s)
    /\ s.lastObs.hash <= minted
    /\ Unattributed \in blockers <=> UnattributedIn(s)

\* The blocks of the chain carry old hashes.
LEMMA ReadIsOld ==
    ASSUME HashesAreOld, NEW n \in 1..Len(chain)
    PROVE  /\ AnchoredNonce(n).hash <= minted
           /\ AnchorPart(AnchoredNonce(n)) = AnchorOf(n)
BY DEF HashesAreOld, AnchoredNonce, AnchorPart, AnchorOf

\* An inclusion pass writes what it verified at block n, unless it keeps older
\* evidence of unattributed activity.
LEMMA InclusionFollows ==
    ASSUME ChainTypeOK, HashesAreOld, NEW n \in 1..Len(chain), NEW servedAt,
           NEW s, Base(s),
           InspectInclusions(s, n, servedAt).status = "inspected"
    PROVE  LET r == InspectInclusions(s, n, servedAt)
               t == [s EXCEPT !.lastObs = ObservationToKeep(s, r.obs),
                              !.attempts = r.attempts]
           IN  /\ Follows(s, t)
               /\ Unattributed \notin blockers =>
                    /\ r.complete => AllIn(t)
                    /\ r.permit # None => EarlierIn(t)
                    /\ AnchorPart(t.lastObs) = AnchorOf(n)
<1>0. /\ s \in Snapshot /\ ValidSnapshot(s) /\ s.lastObs.hash <= minted
      /\ Unattributed \in blockers <=> UnattributedIn(s)
  BY DEF Base
<1>1. PICK r : r = InspectInclusions(s, n, servedAt)
  OBVIOUS
<1>2. PICK o : o = ObservationToKeep(s, r.obs)
  OBVIOUS
<1>3. PICK t : t = [s EXCEPT !.lastObs = o, !.attempts = r.attempts]
  OBVIOUS
<1>4. /\ r.obs = AnchoredNonce(n)
      /\ chain[n].nonce >= s.durableNext
      /\ r.attempts \in Seq(Attempt) /\ Len(r.attempts) = Len(s.attempts)
      /\ \A i \in 1..Len(s.attempts) :
           SameTransaction(s.attempts[i], r.attempts[i])
      /\ r.complete =>
           \A i \in 1..Len(s.attempts) :
               /\ Standing(r.attempts[i], n)
               /\ chain[n].nonce > s.attempts[i].nonce
      /\ r.permit # None =>
           \A i \in 1..(FirstUnresolved(r.attempts) - 1) :
               Standing(r.attempts[i], n)
  BY <1>0, <1>1, InclusionEffect
<1>5. /\ AnchoredNonce(n) \in Observation /\ chain[n].nonce \in Nat
      /\ AnchoredNonce(n).num = n /\ AnchoredNonce(n).nonce = chain[n].nonce
  BY ReadsAreTyped DEF AnchoredNonce
<1>6. /\ o \in {s.lastObs, AnchoredNonce(n)} /\ o \in Observation
      /\ UnattributedIn(s) => o.nonce > s.next
      /\ Unattributed \notin blockers => o = AnchoredNonce(n)
  BY <1>0, <1>2, <1>4, <1>5, EvidenceIsKept
<1>7. /\ t \in Snapshot /\ t.next = s.next /\ t.durableNext = s.durableNext
      /\ t.lastObs = o /\ t.attempts = r.attempts
  BY <1>0, <1>3, <1>4, <1>6 DEF Snapshot
<1>8. /\ s.next \in Nat /\ s.durableNext \in Nat /\ Len(s.attempts) \in Nat
      /\ s.next - s.durableNext = Len(s.attempts)
      /\ \A i \in 1..Len(s.attempts) :
           s.attempts[i].nonce = s.durableNext + i - 1
      /\ t # None
  BY <1>0, <1>7, SnapshotFields, AbsentAssumption DEF ValidSnapshot
<1>9. Follows(s, t)
  <2>1. UnattributedIn(s) => UnattributedIn(t)
    BY <1>6, <1>7, <1>8 DEF UnattributedIn
  <2>2. \A i \in 1..Len(s.attempts) : TxOf(t.attempts[i]) = TxOf(s.attempts[i])
    BY <1>4, <1>7 DEF SameTransaction
  <2>3. Advances(s, t)
    BY <1>4, <1>7, <1>8, <2>1, <2>2 DEF Advances
  <2>4. OnlyLastUnsent(s) => OnlyLastUnsent(t)
    BY <1>4, <1>7 DEF OnlyLastUnsent, SameTransaction
  <2>5. t.lastObs.hash <= minted
    BY <1>0, <1>6, <1>7, ReadIsOld
  <2> QED
    BY <1>7, <2>3, <2>4, <2>5 DEF Follows
<1>10. ASSUME Unattributed \notin blockers
       PROVE  /\ r.complete => AllIn(t)
              /\ r.permit # None => EarlierIn(t)
              /\ AnchorPart(t.lastObs) = AnchorOf(n)
  <2>1. t.lastObs = AnchoredNonce(n)
    BY <1>6, <1>7, <1>10
  <2>2. ASSUME NEW i, Standing(t.attempts[i], n)
        PROVE  Verified(t, i)
    BY <1>5, <2>1, <2>2 DEF Standing, Verified
  <2>3. ASSUME r.complete
        PROVE  AllIn(t)
    <3>1. \A i \in 1..Len(t.attempts) : Verified(t, i)
      BY <1>4, <1>7, <2>2, <2>3
    <3>2. chain[n].nonce >= s.next
      <4>1. CASE Len(s.attempts) = 0
        BY <1>4, <1>5, <1>8, <4>1
      <4>2. CASE Len(s.attempts) # 0
        <5>1. Len(s.attempts) \in 1..Len(s.attempts)
          BY <1>8, <4>2
        <5>2. chain[n].nonce > s.attempts[Len(s.attempts)].nonce
          BY <1>4, <2>3, <5>1
        <5>3. s.attempts[Len(s.attempts)].nonce = s.durableNext + Len(s.attempts) - 1
          BY <1>8, <5>1
        <5>4. PICK m \in Nat, next \in Nat, dur \in Nat, c \in Nat :
                /\ m = Len(s.attempts) /\ next = s.next /\ dur = s.durableNext
                /\ c = chain[n].nonce
          BY <1>5, <1>8
        <5>5. next - dur = m /\ c > dur + m - 1
          BY <1>8, <5>2, <5>3, <5>4
        <5>6. c >= next
          BY <5>5
        <5> QED
          BY <5>4, <5>6
      <4> QED
        BY <4>1, <4>2
    <3> QED
      BY <1>5, <1>7, <2>1, <3>1, <3>2 DEF AllIn
  <2>4. r.permit # None => EarlierIn(t)
    BY <1>4, <1>7, <2>2 DEF EarlierIn
  <2> QED
    BY <2>1, <2>3, <2>4, ReadIsOld
<1> QED
  BY <1>1, <1>2, <1>3, <1>9, <1>10

\* FirstUnresolved is at or below every attempt that is not included.
LEMMA FirstUnresolvedIsFirst ==
    ASSUME NEW q \in Seq(Attempt)
    PROVE  \A k \in 1..Len(q) : q[k].phase # "included" =>
             FirstUnresolved(q) \in 1..k
<1> DEFINE open == {i \in 1..Len(q) : q[i].phase # "included"}
<1> SUFFICES ASSUME NEW k \in 1..Len(q), q[k].phase # "included"
             PROVE  FirstUnresolved(q) \in 1..k
  OBVIOUS
<1>1. k \in open /\ open \subseteq Nat /\ open \subseteq 1..Len(q) /\ Len(q) \in Nat
  BY LenProperties
<1>2. FirstUnresolved(q) = Min(open)
  BY <1>1 DEF FirstUnresolved
<1> HIDE DEF open
<1>3. PICK m : m = Min(open)
  OBVIOUS
<1>4. m \in open /\ m <= k
  BY <1>1, <1>3, MinNat
<1>5. m \in 1..Len(q)
  BY <1>1, <1>4
<1>6. m \in 1..k
  BY <1>1, <1>4, <1>5
<1> QED
  BY <1>2, <1>3, <1>6

\* A recovery pass drops an attempt only if it is the oldest and its nonce is
\* consumed at a durable block; what it permits is the oldest attempt.
LEMMA RecoveryFollows ==
    ASSUME ChainTypeOK, HashesAreOld, NoncesGrow, NEW n \in RecoveryAnchors,
           NEW served \in BOOLEAN, NEW s, Base(s)
    PROVE  LET r == InspectRecovery(s, n, served)
               t == RecoverySnapshot(s, r)
           IN  /\ Follows(s, t)
               /\ RecoveryPermit(s, r) # None => EarlierIn(t)
<1>0. /\ s \in Snapshot /\ ValidSnapshot(s) /\ s.lastObs.hash <= minted
      /\ Unattributed \in blockers <=> UnattributedIn(s)
  BY DEF Base
<1>1. n \in 1..Len(chain) /\ durable \in 1..Len(chain) /\ n <= durable
  BY DEF ChainTypeOK, RecoveryAnchors
<1>2. PICK r : r = InspectRecovery(s, n, served)
  OBVIOUS
<1>3. PICK o : o = ObservationToKeep(s, r.obs)
  OBVIOUS
<1>4. PICK t : t = RecoverySnapshot(s, r)
  OBVIOUS
<1>5. /\ r.obs = AnchoredNonce(n)
      /\ r.status \in {"resolution-available", "unresolved"} => s.attempts # <<>>
      /\ r.status = "resolution-available" =>
           chain[n].nonce > s.attempts[1].nonce
  BY <1>0, <1>1, <1>2, RecoveryAnswers DEF AnchoredNonce
<1>6. /\ AnchoredNonce(n) \in Observation /\ chain[n].nonce \in Nat
      /\ chain[durable].nonce \in Nat /\ chain[n].nonce <= chain[durable].nonce
  BY <1>1, ReadsAreTyped DEF NoncesGrow
<1>7. /\ o \in {s.lastObs, AnchoredNonce(n)} /\ o \in Observation
      /\ UnattributedIn(s) => o.nonce > s.next
      /\ o.hash <= minted
  BY <1>0, <1>1, <1>3, <1>5, <1>6, EvidenceIsKept, ReadIsOld
<1>8. /\ t \in Snapshot /\ t # None
      /\ s.next \in Nat /\ s.durableNext \in Nat /\ Len(s.attempts) \in Nat
      /\ s.attempts \in Seq(Attempt) /\ t.attempts \in Seq(Attempt)
      /\ s.attempts # <<>> => 1 \in 1..Len(s.attempts)
  BY <1>0, <1>1, <1>2, <1>4, RecoveryKeeps, SnapshotFields, AbsentAssumption
<1>9. /\ t.next = s.next /\ t.lastObs = o
      /\ t.durableNext >= s.durableNext
  <2>1. t.durableNext >= s.durableNext
    BY <1>0, <1>1, <1>2, <1>4, RecoveryKeeps DEF Keeps
  <2> QED
    BY <1>0, <1>3, <1>4, <2>1 DEF RecoverySnapshot, Snapshot
<1>10. ASSUME s.attempts # <<>>, r.status = "resolution-available"
       PROVE  /\ Len(t.attempts) = Len(s.attempts) - 1
              /\ \A i \in 1..Len(t.attempts) : t.attempts[i] = s.attempts[i + 1]
              /\ s.attempts[1].nonce < chain[durable].nonce
  <2>1. t.attempts = Tail(s.attempts)
    BY <1>0, <1>4, <1>10 DEF RecoverySnapshot, Snapshot
  <2>2. s.attempts[1].nonce \in Nat
    BY <1>0, <1>10, SnapshotFields
  <2>3. s.attempts[1].nonce < chain[durable].nonce
    BY <1>5, <1>6, <1>10, <2>2
  <2>4. /\ Len(Tail(s.attempts)) = Len(s.attempts) - 1
        /\ \A i \in 1..Len(Tail(s.attempts)) : Tail(s.attempts)[i] = s.attempts[i + 1]
    BY <1>8, <1>10, HeadTailProperties
  <2> QED
    BY <2>1, <2>3, <2>4
<1>11. ASSUME ~(s.attempts # <<>> /\ r.status = "resolution-available")
       PROVE  /\ Len(t.attempts) = Len(s.attempts)
              /\ \A i \in 1..Len(s.attempts) :
                   /\ TxOf(t.attempts[i]) = TxOf(s.attempts[i])
                   /\ t.attempts[i].phase = s.attempts[i].phase
  <2>1. CASE s.attempts = <<>>
    <3>1. t.attempts = s.attempts
      BY <1>0, <1>4, <2>1 DEF RecoverySnapshot, Snapshot
    <3> QED
      BY <3>1
  <2>2. CASE s.attempts # <<>>
    <3> DEFINE bound  == RecordedSearch(s.attempts[1], s, ObservationToKeep(s, r.obs))
               search == IF r.search.status = "not-found"
                         THEN [bound EXCEPT !.through = r.search.at] ELSE bound
               b      == [s.attempts[1] EXCEPT !.search = search]
    <3>1. t = [s EXCEPT !.lastObs = ObservationToKeep(s, r.obs),
                        !.attempts[1].search = search]
      BY <1>4, <1>11, <2>2, Zenon DEF RecoverySnapshot
    <3>2. search \in Search \cup {None}
      BY <1>0, <1>1, <1>2, <1>3, <1>7, <2>2, RecoverySearchIsTyped
    <3> HIDE DEF search
    <3>3. 1 \in 1..Len(s.attempts) /\ s.attempts[1] \in Attempt
      BY <1>0, <2>2, SnapshotFields
    <3>4. b \in Attempt /\ TxOf(b) = TxOf(s.attempts[1])
          /\ b.phase = s.attempts[1].phase
      BY <3>2, <3>3 DEF Attempt, TxOf
    <3>5. t.attempts = [s.attempts EXCEPT ![1] = b]
      BY <1>0, <3>1, <3>3 DEF Snapshot
    <3> HIDE DEF b
    <3>6. /\ Len([s.attempts EXCEPT ![1] = b]) = Len(s.attempts)
          /\ \A j \in 1..Len(s.attempts) :
               [s.attempts EXCEPT ![1] = b][j] = IF j = 1 THEN b ELSE s.attempts[j]
      BY <1>8, <3>3, <3>4, ExceptSeq
    <3> QED
      BY <3>4, <3>5, <3>6
  <2> QED
    BY <2>1, <2>2
<1>12. Follows(s, t)
  <2>1. UnattributedIn(s) => UnattributedIn(t)
    BY <1>7, <1>8, <1>9 DEF UnattributedIn
  <2>2. \A i \in 1..Len(s.attempts) :
          \/ \E j \in 1..Len(t.attempts) : TxOf(t.attempts[j]) = TxOf(s.attempts[i])
          \/ i = 1 /\ s.attempts[1].nonce < chain[durable].nonce
    <3>1. CASE s.attempts # <<>> /\ r.status = "resolution-available"
      <4> SUFFICES ASSUME NEW i \in 1..Len(s.attempts), i # 1
                   PROVE  \E j \in 1..Len(t.attempts) :
                              TxOf(t.attempts[j]) = TxOf(s.attempts[i])
        BY <1>10, <3>1
      <4>1. i - 1 \in 1..Len(t.attempts) /\ (i - 1) + 1 = i
        BY <1>8, <1>10, <3>1
      <4>2. t.attempts[i - 1] = s.attempts[i]
        BY <1>10, <3>1, <4>1
      <4> QED
        BY <4>1, <4>2
    <3>2. CASE ~(s.attempts # <<>> /\ r.status = "resolution-available")
      BY <1>11, <3>2
    <3> QED
      BY <3>1, <3>2
  <2>3. Advances(s, t)
    BY <1>8, <1>9, <2>1, <2>2 DEF Advances
  <2>4. OnlyLastUnsent(s) => OnlyLastUnsent(t)
    <3>1. CASE s.attempts # <<>> /\ r.status = "resolution-available"
      <4> SUFFICES ASSUME OnlyLastUnsent(s), NEW i \in 1..Len(t.attempts),
                          i < Len(t.attempts)
                   PROVE  t.attempts[i].phase # "signed"
        BY DEF OnlyLastUnsent
      <4>1. i + 1 \in 1..Len(s.attempts) /\ i + 1 < Len(s.attempts)
        BY <1>8, <1>10, <3>1
      <4>2. t.attempts[i] = s.attempts[i + 1]
        BY <1>10, <3>1
      <4> QED
        BY <4>1, <4>2 DEF OnlyLastUnsent
    <3>2. CASE ~(s.attempts # <<>> /\ r.status = "resolution-available")
      BY <1>11, <3>2 DEF OnlyLastUnsent
    <3> QED
      BY <3>1, <3>2
  <2> QED
    BY <1>7, <1>8, <1>9, <2>3, <2>4 DEF Follows
<1>13. ASSUME RecoveryPermit(s, r) # None
       PROVE  EarlierIn(t)
  <2>1. r.status = "unresolved" /\ s.attempts[1].phase # "included"
    BY <1>13 DEF RecoveryPermit
  <2>2. 1 \in 1..Len(t.attempts) /\ t.attempts[1].phase # "included"
    BY <1>5, <1>8, <1>11, <2>1
  <2>3. FirstUnresolved(t.attempts) \in 1..1
    BY <1>8, <2>2, FirstUnresolvedIsFirst
  <2> QED
    BY <2>3 DEF EarlierIn
<1> QED
  BY <1>2, <1>4, <1>12, <1>13

\* A preparation appends behind attempts that are all included.
LEMMA PreparationFollows ==
    ASSUME NEW s, Base(s), Unattributed \notin blockers,
           FirstUnresolved(s.attempts) = 0, NEW a \in Attempt
    PROVE  LET t == [s EXCEPT !.next = @ + 1, !.attempts = Append(@, a)]
           IN  Follows(s, t) /\ (AllIn(s) => EarlierIn(t))
<1>0. /\ s \in Snapshot /\ ValidSnapshot(s) /\ s.lastObs.hash <= minted
      /\ ~UnattributedIn(s)
  BY DEF Base
<1> DEFINE longer == Append(s.attempts, a)
<1>1. PICK t : t = [s EXCEPT !.next = @ + 1, !.attempts = Append(@, a)]
  OBVIOUS
<1>2. /\ s.next \in Nat /\ s.durableNext \in Nat /\ Len(s.attempts) \in Nat
      /\ s.attempts \in Seq(Attempt)
  BY <1>0, SnapshotFields
<1>3. /\ longer \in Seq(Attempt)
      /\ Len(longer) = Len(s.attempts) + 1
      /\ \A i \in 1..Len(s.attempts) : longer[i] = s.attempts[i]
  BY <1>2, AppendProperties
<1>4. t = [s EXCEPT !.next = s.next + 1, !.attempts = longer]
  BY <1>1, Zenon
<1> HIDE DEF longer
<1>5. /\ t \in Snapshot /\ t.next = s.next + 1 /\ t.durableNext = s.durableNext
      /\ t.lastObs = s.lastObs /\ t.attempts = longer
  <2>1. s.next + 1 \in Nat
    BY <1>2
  <2> QED
    BY <1>0, <1>3, <1>4, <2>1 DEF Snapshot
<1>6. \A i \in 1..Len(s.attempts) : s.attempts[i].phase = "included"
  <2> SUFFICES ASSUME NEW i \in 1..Len(s.attempts),
                      s.attempts[i].phase # "included"
               PROVE  FALSE
    OBVIOUS
  <2>1. FirstUnresolved(s.attempts) \in 1..i
    BY <1>2, FirstUnresolvedIsFirst
  <2> QED
    BY <2>1
<1>7. Follows(s, t)
  <2>1. Advances(s, t)
    BY <1>0, <1>2, <1>3, <1>5 DEF Advances
  <2>2. OnlyLastUnsent(t)
    BY <1>2, <1>3, <1>5, <1>6 DEF OnlyLastUnsent
  <2> QED
    BY <1>0, <1>5, <2>1, <2>2 DEF Follows
<1>8. ASSUME AllIn(s)
      PROVE  EarlierIn(t)
  <2> SUFFICES ASSUME NEW i \in 1..(FirstUnresolved(t.attempts) - 1)
               PROVE  Verified(t, i)
    BY DEF EarlierIn
  <2>1. FirstUnresolved(t.attempts) \in 0..(Len(s.attempts) + 1)
    BY <1>3, <1>5, FirstUnresolvedRange
  <2>2. i \in 1..Len(s.attempts)
    BY <1>2, <2>1
  <2>3. Verified(s, i)
    BY <1>8, <2>2 DEF AllIn
  <2> QED
    BY <1>3, <1>5, <2>2, <2>3 DEF Verified
<1> QED
  BY <1>1, <1>7, <1>8

\* The mark changes one phase.
LEMMA MarkFollows ==
    ASSUME NEW s, Base(s), FirstUnresolved(s.attempts) # 0
    PROVE  LET i == FirstUnresolved(s.attempts)
               t == [s EXCEPT !.attempts[i].phase = "broadcast-may-have-occurred",
                              !.attempts[i].incl = None, !.attempts[i].seen = None]
           IN  Follows(s, t) /\ t.lastObs = s.lastObs /\ t.next = s.next
<1>0. s \in Snapshot /\ s.lastObs.hash <= minted
  BY DEF Base
<1> DEFINE i == FirstUnresolved(s.attempts)
           a == s.attempts[i]
           b == [a EXCEPT !.phase = "broadcast-may-have-occurred", !.incl = None, !.seen = None]
           marked == [s.attempts EXCEPT ![i] = b]
<1>a. PICK t : t = [s EXCEPT !.attempts[i].phase = "broadcast-may-have-occurred",
                             !.attempts[i].incl = None, !.attempts[i].seen = None]
  OBVIOUS
<1>1. i \in 1..Len(s.attempts)
  BY <1>0, SnapshotFields, FirstUnresolvedRange
<1>9. t \in Snapshot
  BY <1>0, <1>a, MarkKeeps
<1> HIDE DEF i
<1>2. a \in Attempt /\ s.attempts \in Seq(Attempt) /\ Len(s.attempts) \in Nat
      /\ s.next \in Nat /\ s.durableNext \in Nat
  BY <1>0, <1>1, SnapshotFields
<1>3. /\ b \in Attempt /\ TxOf(b) = TxOf(a)
      /\ b.phase = "broadcast-may-have-occurred"
  BY <1>2 DEF Attempt, Phase, TxOf
<1>4. t = [s EXCEPT !.attempts = marked]
  BY <1>0, <1>1, <1>2, <1>a DEF Snapshot, Attempt
<1> HIDE DEF b
<1>5. /\ Len(marked) = Len(s.attempts)
      /\ \A j \in 1..Len(s.attempts) :
           marked[j] = IF j = i THEN b ELSE s.attempts[j]
  BY <1>1, <1>2, <1>3, ExceptSeq
<1> HIDE DEF marked
<1>6. /\ t.next = s.next /\ t.durableNext = s.durableNext
      /\ t.lastObs = s.lastObs /\ t.attempts = marked
  BY <1>0, <1>4 DEF Snapshot
<1>7. t # None
  BY <1>9, AbsentAssumption
<1>8. Follows(s, t)
  <2>1. \A j \in 1..Len(s.attempts) : TxOf(marked[j]) = TxOf(s.attempts[j])
    BY <1>3, <1>5
  <2>2. Advances(s, t)
    BY <1>2, <1>5, <1>6, <1>7, <2>1 DEF Advances, UnattributedIn
  <2>3. OnlyLastUnsent(s) => OnlyLastUnsent(t)
    BY <1>3, <1>5, <1>6 DEF OnlyLastUnsent
  <2> QED
    BY <1>0, <1>6, <1>9, <2>2, <2>3 DEF Follows
<1> QED
  BY <1>6, <1>8, <1>a DEF i

-----------------------------------------------------------------------------
(* The chain moves under what was verified.                                *)

\* A step of the chain keeps each block or gives it a hash never handed out before.
LEMMA ChainMoves ==
    ASSUME ReleaseInv, HashesAreOld, ChainNext
    PROVE  /\ \A k \in 1..Len(chain') :
                /\ chain'[k].hash <= minted'
                /\ \/ k \in 1..Len(chain) /\ chain'[k] = chain[k]
                   \/ k > Len(chain) /\ chain'[k].hash > minted
           /\ minted \in Nat /\ minted' \in Nat /\ minted <= minted'
           /\ Len(chain) \in Nat /\ Len(chain') \in Nat
<1>1. /\ chain \in Seq(Block) /\ Len(chain) \in Nat /\ minted \in Nat
      /\ durable \in 1..Len(chain)
      /\ \A i \in 1..Len(chain) : chain[i].hash <= minted
      /\ \A i \in 1..Len(chain) : chain[i].hash \in Nat
  <2>1. \A i \in 1..Len(chain) : chain[i].hash \in Nat
    BY ReadsAreTyped DEF ReleaseInv, IInv, TypeOK, AnchorOf, Anchor
  <2> QED
    BY <2>1 DEF ReleaseInv, IInv, TypeOK, ChainTypeOK, HashesAreOld
<1> DEFINE Goal == /\ \A k \in 1..Len(chain') :
                        /\ chain'[k].hash <= minted'
                        /\ \/ k \in 1..Len(chain) /\ chain'[k] = chain[k]
                           \/ k > Len(chain) /\ chain'[k].hash > minted
                   /\ minted' \in Nat /\ minted <= minted' /\ Len(chain') \in Nat
<1>2. ASSUME NEW tx, NEW m, Extend(tx, m)
      PROVE  Goal
  <2> DEFINE b == [hash |-> minted + 1, tx |-> tx, nonce |-> m]
  <2>1. /\ Len(chain') = Len(chain) + 1
        /\ \A i \in 1..Len(chain) : chain'[i] = chain[i]
        /\ chain'[Len(chain) + 1] = b
        /\ minted' = minted + 1
    BY <1>1, <1>2 DEF Extend
  <2>2. b.hash = minted + 1
    OBVIOUS
  <2> HIDE DEF b
  <2>3. ASSUME NEW k \in 1..Len(chain')
        PROVE  /\ chain'[k].hash <= minted'
               /\ \/ k \in 1..Len(chain) /\ chain'[k] = chain[k]
                  \/ k > Len(chain) /\ chain'[k].hash > minted
    <3>1. CASE k \in 1..Len(chain)
      <4>1. chain[k].hash \in Nat /\ chain[k].hash <= minted
        BY <1>1, <3>1
      <4> QED
        BY <1>1, <2>1, <3>1, <4>1
    <3>2. CASE k \notin 1..Len(chain)
      <4>1. k = Len(chain) + 1
        BY <1>1, <2>1, <3>2
      <4> QED
        BY <1>1, <2>1, <2>2, <4>1
    <3> QED
      BY <3>1, <3>2
  <2> QED
    BY <1>1, <2>1, <2>3
<1>3. ASSUME Reorg PROVE Goal
  <2>1. PICK k \in durable..(Len(chain) - 1) : chain' = SubSeq(chain, 1, k)
    BY <1>3 DEF Reorg
  <2>2. k \in Int /\ 1 <= k /\ k <= Len(chain) /\ \A j \in 1..k : chain[j] \in Block
    BY <1>1, <2>1, ElementOfSeq
  <2>3. Len(chain') = k /\ \A i \in 1..k : chain'[i] = chain[i]
    BY <2>1, <2>2, SubSeqProperties
  <2> QED
    BY <1>1, <1>3, <2>2, <2>3 DEF Reorg
<1>4. ASSUME Finalize PROVE Goal
  BY <1>1, <1>4 DEF Finalize
<1> HIDE DEF Goal
<1>5. Goal
  <2>1. CASE MineEmpty
    BY <1>2, <2>1 DEF MineEmpty
  <2>2. CASE MineOwn
    <3>1. PICK t \in escaped : Extend(t, LatestNonce + 1)
      BY <2>2 DEF MineOwn
    <3> QED
      BY <1>2, <3>1
  <2>3. CASE MineForeign
    <3>1. PICK t \in {[nonce |-> LatestNonce, id |-> Foreign], None} :
            Extend(t, LatestNonce + 1)
      BY <2>3 DEF MineForeign
    <3> QED
      BY <1>2, <3>1
  <2> QED
    BY <1>3, <1>4, <2>1, <2>2, <2>3 DEF ChainNext
<1> QED
  BY <1>1, <1>5 DEF Goal

\* As long as an observed block stays canonical, so does every block below it.
LEMMA CanonicalStays ==
    ASSUME ReleaseInv, HashesAreOld, ChainNext
    PROVE  \A o, a \in Anchor :
               (/\ o.hash <= minted /\ a.num <= o.num
                /\ Canonical(o) => Canonical(a)) =>
               ((o.num <= Len(chain') /\ chain'[o.num].hash = o.hash) =>
                   (a.num <= Len(chain') /\ chain'[a.num].hash = a.hash))
<1> SUFFICES ASSUME NEW o \in Anchor, NEW a \in Anchor,
                    o.hash <= minted, a.num <= o.num,
                    Canonical(o) => Canonical(a),
                    o.num <= Len(chain'), chain'[o.num].hash = o.hash
             PROVE  a.num <= Len(chain') /\ chain'[a.num].hash = a.hash
  OBVIOUS
<1>1. /\ o.num \in Nat \ {0} /\ a.num \in Nat \ {0} /\ o.hash \in Nat /\ a.hash \in Nat
      /\ Len(chain) \in Nat /\ Len(chain') \in Nat /\ minted \in Nat
  BY ChainMoves DEF Anchor
<1>2. o.num \in 1..Len(chain') /\ a.num \in 1..Len(chain')
  BY <1>1
<1>3. o.num \in 1..Len(chain) /\ chain'[o.num] = chain[o.num]
  BY <1>1, <1>2, ChainMoves
<1>4. Canonical(a)
  BY <1>1, <1>3 DEF Canonical
<1>5. ~(a.num > Len(chain))
  BY <1>1, <1>3
<1>6. chain'[a.num] = chain[a.num]
  BY <1>2, <1>5, ChainMoves
<1> QED
  BY <1>2, <1>4, <1>6, <1>1 DEF Canonical

\* What the coordinator holds are snapshots it may start from.
LEMMA Held ==
    ASSUME AInv
    PROVE  /\ ChainTypeOK /\ HashesAreOld /\ NoncesGrow /\ TypeOK /\ FileIsKnown
           /\ \A s \in {disk, current, pending} :
                s # None => /\ s \in Snapshot /\ ValidSnapshot(s)
                            /\ s.lastObs.hash <= minted
                            /\ AnchorPart(s.lastObs) \in Anchor
           /\ (up /\ current # None) => Base(current)
<1>1. /\ ChainTypeOK /\ HashesAreOld /\ NoncesGrow /\ TypeOK /\ FileIsKnown
      /\ Latch /\ AllValid
  BY DEF AInv, AuthorityState, ReleaseInv, IInv, TypeOK
<1>2. ASSUME NEW s \in {disk, current, pending}, s # None
      PROVE  /\ s \in Snapshot /\ ValidSnapshot(s) /\ s.lastObs.hash <= minted
             /\ AnchorPart(s.lastObs) \in Anchor
  <2>1. s \in Snapshot
    BY <1>1, <1>2 DEF TypeOK
  <2>2. AnchorPart(s.lastObs) \in Anchor
    BY <2>1, SnapshotFields DEF AnchorPart, Anchor, Observation
  <2> QED
    BY <1>1, <1>2, <2>1, <2>2 DEF AllValid, HashesAreOld
<1> QED
  BY <1>1, <1>2 DEF Base, Latch

\* The chain moves: what was verified stands as long as the observed block does.
LEMMA ChainKeepsAuthority ==
    ASSUME AInv, ChainNext, UNCHANGED <<disk, memVars>>
    PROVE  AuthorityState'
<1>0. /\ UNCHANGED <<disk, up, current, pending, pstate, recovered, inclusions, op,
                     permit, blockers, owner>>
      /\ ReleaseInv /\ HashesAreOld /\ UnsentIsLast /\ Revoked /\ Latch
      /\ Writing /\ Grounds
  BY DEF memVars, AInv, AuthorityState
<1>1. ASSUME NEW s \in {disk, current, pending}, s # None,
             NEW i \in 1..Len(s.attempts)
      PROVE  Verified(s, i) =>
               (AnchorPart(s.lastObs).num <= Len(chain')
                  /\ chain'[AnchorPart(s.lastObs).num].hash = AnchorPart(s.lastObs).hash
                => s.attempts[i].incl.num <= Len(chain')
                     /\ chain'[s.attempts[i].incl.num].hash = s.attempts[i].incl.hash)
  <2> SUFFICES ASSUME Verified(s, i)
               PROVE  AnchorPart(s.lastObs).num <= Len(chain')
                        /\ chain'[AnchorPart(s.lastObs).num].hash
                             = AnchorPart(s.lastObs).hash
                      => s.attempts[i].incl.num <= Len(chain')
                           /\ chain'[s.attempts[i].incl.num].hash
                                = s.attempts[i].incl.hash
    OBVIOUS
  <2>1. s \in Snapshot /\ ValidSnapshot(s) /\ s.lastObs.hash <= minted
        /\ AnchorPart(s.lastObs) \in Anchor
    BY <1>1, Held
  <2>2. s.attempts[i] \in Attempt /\ ValidAttempt(s.attempts[i])
    BY <2>1, SnapshotFields DEF ValidSnapshot
  <2>3. s.attempts[i].incl \in Anchor
    BY <2>2 DEF Verified, ValidAttempt, Attempt
  <2>4. /\ AnchorPart(s.lastObs).hash <= minted
        /\ s.attempts[i].incl.num <= AnchorPart(s.lastObs).num
        /\ Canonical(AnchorPart(s.lastObs)) => Canonical(s.attempts[i].incl)
    BY <2>1 DEF AnchorPart, Verified
  <2> QED
    BY <1>0, <2>1, <2>3, <2>4, CanonicalStays
<1>2. ASSUME NEW s \in {disk, current, pending}, s # None,
             NEW i \in 1..Len(s.attempts), Verified(s, i)
      PROVE  Verified(s, i)'
  BY <1>0, <1>1, <1>2 DEF Verified, Canonical
<1>3. chain[durable].nonce <= chain'[durable'].nonce
      /\ chain[durable].nonce \in Nat /\ chain'[durable'].nonce \in Nat
  BY <1>0, DurableNonceGrows
<1>4. HashesAreOld'
  <2>1. \A s \in {disk, current, pending} : s # None => s.lastObs.hash \in Nat
    BY Held DEF AnchorPart, Anchor
  <2> QED
    BY <1>0, <2>1, ChainMoves DEF HashesAreOld
<1>5. UnsentIsLast' /\ Revoked' /\ Latch'
  BY <1>0 DEF UnsentIsLast, OnlyLastUnsent, Revoked, Latch, UnattributedIn
<1>6. ASSUME NEW s \in {disk, current, pending}, s # None
      PROVE  /\ AllIn(s) => AllIn(s)'
             /\ EarlierIn(s) => EarlierIn(s)'
  <2>1. AllIn(s) => AllIn(s)'
    BY <1>2, <1>6 DEF AllIn
  <2>2. s.attempts \in Seq(Attempt)
    BY <1>6, Held, SnapshotFields
  <2>3. \A i \in 1..(FirstUnresolved(s.attempts) - 1) : i \in 1..Len(s.attempts)
    <3>1. FirstUnresolved(s.attempts) \in 0..Len(s.attempts) /\ Len(s.attempts) \in Nat
      BY <2>2, FirstUnresolvedRange
    <3> QED
      BY <3>1
  <2> QED
    BY <1>2, <1>6, <2>1, <2>3 DEF EarlierIn
<1>7. /\ current # None /\ AllIn(current) => AllIn(current)'
      /\ current # None /\ EarlierIn(current) => EarlierIn(current)'
      /\ pending # None /\ AllIn(pending) => AllIn(pending)'
      /\ pending # None /\ EarlierIn(pending) => EarlierIn(pending)'
  BY <1>0, <1>6 DEF AllIn, EarlierIn, Verified, Canonical
<1>8. current # None /\ pending # None => Advances(current, pending)'
  <2> SUFFICES ASSUME current # None, pending # None
               PROVE  Advances(current, pending)'
    OBVIOUS
  <2>1. Advances(current, pending)
    BY <1>0 DEF Writing
  <2>2. \A i \in 1..Len(current.attempts) : i = 1 => current.attempts[1].nonce \in Nat
    BY Held, SnapshotFields
  <2> QED
    BY <1>0, <1>3, <2>1, <2>2 DEF Advances, UnattributedIn
<1>9. op # None /\ op.stage = "write" => pending # None
  BY Held DEF FileIsKnown
<1>10. Writing'
  BY <1>0, <1>7, <1>8, <1>9 DEF Writing, AnchorPart
<1>11. Grounds'
  BY <1>0, <1>7 DEF Grounds, AnchorPart
<1> QED
  BY <1>4, <1>5, <1>10, <1>11 DEF AuthorityState

-----------------------------------------------------------------------------
(* The steps of the coordinator.                                           *)

\* While the chain stands still, what was verified depends on the snapshot only.
LEMMA SameChain ==
    ASSUME UNCHANGED <<chain, durable>>
    PROVE  /\ \A s : current' = s => /\ AllIn(current)' <=> AllIn(s)
                                     /\ EarlierIn(current)' <=> EarlierIn(s)
           /\ \A s : pending' = s => /\ AllIn(pending)' <=> AllIn(s)
                                     /\ EarlierIn(pending)' <=> EarlierIn(s)
           /\ \A s, t : (current' = s /\ pending' = t) =>
                (Advances(current, pending)' <=> Advances(s, t))
<1>1. \A s : current' = s => /\ AllIn(current)' <=> AllIn(s)
                             /\ EarlierIn(current)' <=> EarlierIn(s)
  BY DEF AllIn, EarlierIn, Verified, Canonical, AnchorPart, FirstUnresolved
<1>2. \A s : pending' = s => /\ AllIn(pending)' <=> AllIn(s)
                             /\ EarlierIn(pending)' <=> EarlierIn(s)
  BY DEF AllIn, EarlierIn, Verified, Canonical, AnchorPart, FirstUnresolved
<1>3. \A s, t : (current' = s /\ pending' = t) =>
        (Advances(current, pending)' <=> Advances(s, t))
  BY DEF Advances, UnattributedIn
<1> QED
  BY <1>1, <1>2, <1>3

\* No new snapshot appears.
LEMMA NothingNew ==
    ASSUME AInv, UNCHANGED <<chain, minted, durable>>,
           disk' \in {disk, pending}, current' \in {current, disk, pending, None},
           pending' \in {pending, None}
    PROVE  HashesAreOld' /\ UnsentIsLast'
<1>1. HashesAreOld /\ UnsentIsLast
  BY DEF AInv, AuthorityState
<1>2. HashesAreOld'
  BY <1>1 DEF HashesAreOld
<1>3. UnsentIsLast'
  BY <1>1 DEF UnsentIsLast, OnlyLastUnsent
<1> QED
  BY <1>2, <1>3

\* One is about to be written.
LEMMA NewSnapshot ==
    ASSUME AInv, UNCHANGED <<chain, minted, durable, disk, current>>,
           NEW t, pending' = t, t.lastObs.hash <= minted,
           current = None => OnlyLastUnsent(t),
           current # None => Follows(current, t)
    PROVE  /\ HashesAreOld' /\ UnsentIsLast'
           /\ current' # None => Advances(current, pending)'
<1>1. HashesAreOld /\ UnsentIsLast
  BY DEF AInv, AuthorityState
<1>2. HashesAreOld'
  BY <1>1 DEF HashesAreOld
<1>3. OnlyLastUnsent(t)
  BY <1>1 DEF UnsentIsLast, Follows
<1>4. UnsentIsLast'
  BY <1>1, <1>3 DEF UnsentIsLast, OnlyLastUnsent
<1>5. current # None => Advances(current, t)
  BY DEF Follows
<1> QED
  BY <1>2, <1>4, <1>5, SameChain

\* The parts of AuthorityState, and what ties operations to them.
LEMMA Parts ==
    ASSUME AInv
    PROVE  /\ Revoked /\ Latch /\ Writing /\ Grounds
           /\ TypeOK /\ FileIsKnown /\ OperationState
BY DEF AInv, AuthorityState, ReleaseInv, IInv

\* Steps that leave every snapshot and the blockers alone.
Holds ==
    UNCHANGED <<chain, minted, durable, disk, up, current, pending, blockers>>

LEMMA HoldsKeeps ==
    ASSUME AInv, Holds
    PROVE  /\ HashesAreOld' /\ UnsentIsLast' /\ Latch'
           /\ AllIn(current)' <=> AllIn(current)
           /\ EarlierIn(current)' <=> EarlierIn(current)
           /\ AllIn(pending)' <=> AllIn(pending)
           /\ EarlierIn(pending)' <=> EarlierIn(pending)
           /\ (current' # None /\ pending' # None) => Advances(current, pending)'
<1>1. HashesAreOld' /\ UnsentIsLast'
  BY NothingNew DEF Holds
<1>2. Latch'
  BY Parts DEF Holds, Latch, UnattributedIn
<1>3. Advances(current, pending)' <=> Advances(current, pending)
  BY SameChain DEF Holds
<1> QED
  BY <1>1, <1>2, <1>3, Parts, SameChain DEF Holds, Writing

LEMMA InspectionKeepsAuthority ==
    ASSUME AInv, Inspection
    PROVE  AuthorityState'
<1>1. Revoked /\ Writing /\ Grounds /\ FileIsKnown /\ OperationState
  BY Parts
<1>2. Holds
  BY DEF Holds, chainVars, Inspection, BeginInspection, FinishInspection,
     AbandonInspection, CompleteAbandonment, OpenHeadBegin, OpenHeadEnd
<1>3. UNCHANGED <<up, current, pending, blockers, pstate, recovered>>
  BY DEF Inspection, BeginInspection, FinishInspection,
     AbandonInspection, CompleteAbandonment, OpenHeadBegin, OpenHeadEnd
<1>4. owner # None => owner \in Owner
  BY Parts DEF TypeOK
<1>5. Revoked'
  <2>1. CASE BeginInspection
    BY <1>1, <1>3, <2>1 DEF BeginInspection, Revoked, Available
  <2>2. CASE FinishInspection
    BY <1>1, <1>3, <2>2 DEF FinishInspection, Revoked, OwnerAvailable
  <2>3. CASE AbandonInspection
    <3>1. owner'.bracket = owner.bracket
      BY <1>4, <2>3 DEF AbandonInspection, Owner
    <3>2. op # None /\ op.kind = "prepare" /\ op.stage = "sign" => FALSE
      BY <1>1, <2>3 DEF AbandonInspection, Revoked
    <3> QED
      BY <1>1, <1>3, <2>3, <3>1, <3>2 DEF AbandonInspection, Revoked
  <2>4. CASE CompleteAbandonment
    BY <1>1, <1>3, <2>4 DEF CompleteAbandonment, Revoked
  <2>5. CASE OpenHeadBegin
    <3>1. owner'.bracket = "failed"
      BY <1>4, <2>5 DEF OpenHeadBegin, WorkAllowed, OwnerAvailable, Owner
    <3>2. op'.kind = "open-head" /\ up
      BY <2>5 DEF OpenHeadBegin, Begin, WorkAllowed, OwnerAvailable
    <3> QED
      BY <1>1, <1>3, <2>5, <3>1, <3>2 DEF OpenHeadBegin, Revoked
  <2>6. CASE OpenHeadEnd
    BY <1>1, <1>3, <2>6 DEF OpenHeadEnd, Revoked
  <2> QED
    BY <2>1, <2>2, <2>3, <2>4, <2>5, <2>6 DEF Inspection
<1>6. Writing'
  <2>1. CASE op' = None \/ op'.stage # "write"
    BY <1>2, <2>1, HoldsKeeps DEF Writing
  <2>2. CASE op' # None /\ op'.stage = "write"
    <3>1. AbandonInspection
      <4>1. OpenHeadBegin => op'.stage = "read"
        BY DEF OpenHeadBegin, Begin
      <4>2. ~OpenHeadBegin /\ ~OpenHeadEnd
        BY <2>2, <4>1 DEF OpenHeadEnd
      <4>3. ~BeginInspection /\ ~FinishInspection /\ ~CompleteAbandonment
        BY <2>2 DEF BeginInspection, FinishInspection, Available, OwnerAvailable,
           CompleteAbandonment
      <4> QED
        BY <4>2, <4>3 DEF Inspection
    <3>2. owner'.bracket = owner.bracket /\ owner'.head = owner.head /\ op' = op
      BY <1>4, <3>1 DEF AbandonInspection, Owner
    <3> QED
      BY <1>1, <1>2, <1>3, <3>2, HoldsKeeps DEF Writing
  <2> QED
    BY <2>1, <2>2
<1>7. Grounds'
  <2>1. inclusions' => inclusions
    BY DEF Inspection, BeginInspection, FinishInspection,
     AbandonInspection, CompleteAbandonment, OpenHeadBegin, OpenHeadEnd
  <2>2. permit' # None => permit # None
    BY DEF Inspection, BeginInspection, FinishInspection,
     AbandonInspection, CompleteAbandonment, OpenHeadBegin, OpenHeadEnd
  <2>3. ASSUME owner' # None, owner'.bracket = "closed"
        PROVE  /\ owner # None /\ owner.bracket = "closed" /\ op' = op
               /\ owner'.head = owner.head
    <3>1. CASE BeginInspection
      BY <2>3, <3>1 DEF BeginInspection
    <3>2. CASE FinishInspection
      BY <2>3, <3>2 DEF FinishInspection
    <3>3. CASE AbandonInspection
      BY <1>4, <2>3, <3>3 DEF AbandonInspection, Owner
    <3>4. CASE CompleteAbandonment
      BY <2>3, <3>4 DEF CompleteAbandonment
    <3>5. CASE OpenHeadBegin
      BY <1>4, <2>3, <3>5 DEF OpenHeadBegin, WorkAllowed, OwnerAvailable, Owner
    <3>6. CASE OpenHeadEnd
      <4>1. owner # None /\ owner.bracket = "failed"
        BY <1>1, <3>6 DEF OpenHeadEnd, OperationState, Revoked
      <4> QED
        BY <1>4, <2>3, <3>6, <4>1 DEF OpenHeadEnd, Owner
    <3> QED
      BY <3>1, <3>2, <3>3, <3>4, <3>5, <3>6 DEF Inspection
  <2> QED
    BY <1>1, <1>2, <1>3, <2>1, <2>2, <2>3, HoldsKeeps DEF Grounds, AnchorPart
<1> QED
  BY <1>2, <1>5, <1>6, <1>7, HoldsKeeps DEF AuthorityState

\* Steps that write nothing new and grant nothing.
LEMMA QuietKeeps ==
    ASSUME AInv, UNCHANGED <<chain, minted, durable, up, current, pending, blockers>>,
           disk' \in {disk, pending},
           Revoked',
           inclusions' => inclusions,
           permit' # None => permit # None,
           op' = None \/ op'.stage # "write" \/ op'.kind = "retry",
           (owner' # None /\ owner'.bracket = "closed") =>
               /\ op' = None
               /\ owner # None /\ owner.bracket = "closed"
               /\ owner'.head = owner.head
    PROVE  AuthorityState'
<1>1. Latch /\ Writing /\ Grounds
  BY Parts
<1>2. HashesAreOld' /\ UnsentIsLast'
  BY NothingNew
<1>3. Latch'
  BY <1>1 DEF Latch, UnattributedIn
<1>4. Advances(current, pending)' <=> Advances(current, pending)
  BY SameChain
<1>5. Writing'
  BY <1>1, <1>4 DEF Writing
<1>6. /\ AllIn(current)' <=> AllIn(current)
      /\ EarlierIn(current)' <=> EarlierIn(current)
  BY SameChain
<1>7. Grounds'
  BY <1>1, <1>6 DEF Grounds, AnchorPart
<1> QED
  BY <1>2, <1>3, <1>5, <1>7 DEF AuthorityState

LEMMA QuietStepsKeepAuthority ==
    ASSUME AInv,
           \/ WriteFails \/ RetryPersistence
           \/ RecoverBegin \/ RecoverGivesUp
           \/ InclusionsBegin \/ InclusionsGiveUp \/ InclusionsContradict
           \/ PrepareBegin \/ PrepareRefused
           \/ BroadcastSend \/ BroadcastLost
           \/ UNCHANGED vars
    PROVE  AuthorityState'
<1>1. Revoked /\ Grounds /\ FileIsKnown /\ OperationState
  BY Parts
<1>2. owner # None => owner \in Owner
  BY Parts DEF TypeOK
<1>3. owner # None /\ owner.bracket = "closed" => op = None
  BY <1>1 DEF Grounds
<1>4. owner # None =>
        /\ FailBracket(owner) # None
        /\ FailBracket(owner).bracket = "closed" => owner.bracket = "closed"
        /\ owner.bracket = "failed" => FailBracket(owner).bracket = "failed"
        /\ FailBracket(owner).head = owner.head
  BY <1>2, AbsentAssumption DEF FailBracket, Owner
<1>5. owner = None => FailBracket(owner) = None
  BY DEF FailBracket
<1>6. CASE WriteFails
  <2>1. op # None /\ pstate = "writing"
    BY <1>1, <1>6 DEF WriteFails, FileIsKnown
  <2>2. Revoked'
    BY <1>1, <1>4, <1>5, <1>6, <2>1 DEF WriteFails, Revoked
  <2> QED
    BY <1>3, <1>4, <1>5, <1>6, <2>1, <2>2, QuietKeeps DEF WriteFails, chainVars
<1>7. CASE RetryPersistence
  <2>1. op'.kind = "retry" /\ op'.stage = "write"
    BY <1>7 DEF RetryPersistence, Begin
  <2>2. Revoked'
    BY <1>1, <1>7, <2>1 DEF RetryPersistence, Revoked, Available
  <2> QED
    BY <1>7, <2>1, <2>2, QuietKeeps DEF RetryPersistence, Available, chainVars
<1>8. CASE RecoverBegin
  <2>1. op'.kind = "recover" /\ op'.stage = "read"
    BY <1>8 DEF RecoverBegin, Begin
  <2>2. /\ owner # None /\ owner'.bracket = owner.bracket
        /\ owner.bracket \in {"none", "open"}
    BY <1>2, <1>8 DEF RecoverBegin, WorkAllowed, OwnerAvailable, Owner
  <2>3. Revoked'
    BY <1>1, <1>8, <2>1 DEF RecoverBegin, Revoked, WorkAllowed, OwnerAvailable
  <2> QED
    BY <1>8, <2>1, <2>2, <2>3, QuietKeeps DEF RecoverBegin, chainVars
<1>9. CASE RecoverGivesUp
  <2>1. op # None
    BY <1>9 DEF RecoverGivesUp, Reading
  <2>2. Revoked'
    BY <1>1, <1>9, <2>1 DEF RecoverGivesUp, Revoked, Reading
  <2> QED
    BY <1>3, <1>4, <1>5, <1>9, <2>1, <2>2, QuietKeeps DEF RecoverGivesUp, chainVars
<1>10. CASE InclusionsBegin
  <2>1. op'.kind = "inclusions" /\ op'.stage = "read"
    BY <1>10 DEF InclusionsBegin, Begin
  <2>2. /\ owner # None /\ owner'.bracket = owner.bracket
        /\ owner.bracket \in {"none", "open"}
    BY <1>2, <1>10 DEF InclusionsBegin, WorkAllowed, OwnerAvailable, Owner
  <2>3. Revoked'
    BY <1>1, <1>10, <2>1 DEF InclusionsBegin, Revoked, WorkAllowed, OwnerAvailable
  <2> QED
    BY <1>10, <2>1, <2>2, <2>3, QuietKeeps DEF InclusionsBegin, chainVars
<1>11. CASE InclusionsGiveUp
  <2>1. op # None
    BY <1>11 DEF InclusionsGiveUp, Reading
  <2>2. Revoked'
    BY <1>1, <1>11, <2>1 DEF InclusionsGiveUp, Revoked, Reading
  <2> QED
    BY <1>3, <1>4, <1>5, <1>11, <2>1, <2>2, QuietKeeps DEF InclusionsGiveUp, chainVars
<1>12. CASE InclusionsContradict
  <2>1. /\ Reading("inclusions")
        /\ recovered' = FALSE /\ op' = None /\ owner' = FailBracket(owner)
        /\ UNCHANGED <<chainVars, disk, up, current, pending, pstate, write,
                       inclusions, permit, blockers>>
    BY <1>12 DEF InclusionsContradict, InclusionsContradictAt
  <2>2. op # None /\ up
    BY <2>1 DEF Reading
  <2>3. Revoked'
    BY <1>1, <2>1, <2>2 DEF Revoked
  <2> QED
    BY <1>3, <1>4, <1>5, <2>1, <2>2, <2>3, QuietKeeps DEF chainVars
<1>13. CASE PrepareBegin
  <2>1. PICK id \in AttemptIds : PrepareBeginFor(id)
    BY <1>13 DEF PrepareBegin
  <2>2. op'.kind = "prepare" /\ op'.stage = "sign"
    BY <2>1 DEF PrepareBeginFor
  <2>3. Revoked'
    BY <1>1, <2>1, <2>2 DEF PrepareBeginFor, Revoked, GateOpen
  <2> QED
    BY <2>1, <2>2, <2>3, QuietKeeps DEF PrepareBeginFor, GateOpen, chainVars
<1>14. CASE PrepareRefused
  <2>1. Revoked'
    BY <1>1, <1>14 DEF PrepareRefused, Revoked
  <2> QED
    BY <1>3, <1>14, <2>1, QuietKeeps DEF PrepareRefused, chainVars
<1>15. CASE BroadcastSend \/ BroadcastLost
  <2>1. Revoked'
    BY <1>1, <1>15 DEF BroadcastSend, BroadcastLost, Revoked
  <2> QED
    BY <1>3, <1>15, <2>1, QuietKeeps DEF BroadcastSend, BroadcastLost, Deliver, chainVars
<1>16. CASE UNCHANGED vars
  BY <1>16, HoldsKeeps, Parts
     DEF vars, memVars, chainVars, Holds, Revoked, Writing, Grounds, AuthorityState,
         AnchorPart
<1> QED
  BY <1>6, <1>7, <1>8, <1>9, <1>10, <1>11, <1>12, <1>13, <1>14, <1>15, <1>16

LEMMA ProcessKeepsAuthority ==
    ASSUME AInv, Process
    PROVE  AuthorityState'
<1>1. Revoked /\ FileIsKnown /\ TypeOK
  BY Parts
<1>2. HashesAreOld' /\ UnsentIsLast'
  BY <1>1, NothingNew DEF Process, Start, Crash, Down, chainVars, FileIsKnown
<1>3. CASE Start
  <2>1. /\ ~recovered' /\ ~inclusions' /\ permit' = None /\ owner' = None
        /\ up' /\ pstate' = "idle" /\ op' = None /\ pending' = None
        /\ current' = disk /\ blockers' = Latched(disk)
    BY <1>1, <1>3 DEF Start, Revoked, FileIsKnown
  <2>2. Latch'
    <3>1. Unattributed \in Latched(disk) <=> UnattributedIn(disk)
      BY DEF Latched, Unattributed, Exhausted
    <3> QED
      BY <2>1, <3>1 DEF Latch, UnattributedIn
  <2> QED
    BY <1>2, <2>1, <2>2 DEF AuthorityState, Revoked, Writing, Grounds
<1>4. CASE Crash
  BY <1>2, <1>4 DEF Crash, Down, AuthorityState, Revoked, Latch, Writing, Grounds
<1> QED
  BY <1>3, <1>4 DEF Process

\* The blockers, once a write is finished: the one for unattributed activity is
\* latched from what was written, and was not lifted.
LEMMA FinishLatches ==
    ASSUME AInv, pstate # "idle", Committed, FinishWrite, up, UNCHANGED up
    PROVE  /\ Latch'
           /\ Unattributed \in blockers => Unattributed \in blockers'
<1>1. Latch /\ Writing /\ FileIsKnown
  BY Parts
<1>2. /\ Unattributed \in Latched(pending) <=> UnattributedIn(pending)
      /\ Unattributed # Exhausted
  BY DEF Latched, Unattributed, Exhausted
<1> DEFINE rest == CASE write.kind = "resolution" -> blockers \ {Exhausted}
                     [] write.kind = "search-progress" /\ write.exhausted ->
                          blockers \cup {Exhausted}
                     [] write.kind = "search-progress" /\ ~write.exhausted ->
                          blockers \ {Exhausted}
                     [] OTHER -> blockers
<1>3. blockers' = rest \cup Latched(pending)
  BY DEF FinishWrite
<1>4. Unattributed \in rest <=> Unattributed \in blockers
  BY <1>2
<1>5. UnattributedIn(current) /\ pending # None => UnattributedIn(pending)
  BY <1>1 DEF Writing, Advances, UnattributedIn
<1>6. pending # None /\ current' = pending
  BY <1>1 DEF Committed, FileIsKnown
<1> HIDE DEF rest
<1>7. Unattributed \in blockers' <=> UnattributedIn(pending)
  BY <1>1, <1>2, <1>3, <1>4, <1>5, <1>6 DEF Latch
<1>8. Unattributed \in blockers => Unattributed \in blockers'
  BY <1>3, <1>4
<1>9. Latch'
  BY <1>6, <1>7 DEF Latch, UnattributedIn
<1> QED
  BY <1>8, <1>9

\* A write that is acknowledged makes the journal what was verified.
LEMMA CommitsKeepAuthority ==
    ASSUME AInv,
           \/ RetryCommits \/ RecoverCommits \/ InclusionsCommit
           \/ PrepareCommits \/ BroadcastMarked
    PROVE  AuthorityState'
<1>1. Revoked /\ Latch /\ Writing /\ Grounds /\ TypeOK /\ FileIsKnown /\ OperationState
  BY Parts
<1>2. /\ up /\ op # None /\ op.stage = "write" /\ Committed
      /\ UNCHANGED <<chain, minted, durable, up>>
  BY <1>1 DEF RetryCommits, RecoverCommits, InclusionsCommit, PrepareCommits,
     BroadcastMarked, OperationState, chainVars
<1>3. /\ pstate = "writing" /\ pending # None
      /\ disk' = pending /\ current' = pending /\ pending' = None /\ pstate' = "idle"
  BY <1>1, <1>2 DEF FileIsKnown, Committed
<1>4. HashesAreOld' /\ UnsentIsLast'
  BY <1>2, <1>3, NothingNew
<1>5. /\ AllIn(current)' <=> AllIn(pending)
      /\ EarlierIn(current)' <=> EarlierIn(pending)
  BY <1>2, <1>3, SameChain
<1>6. ~inclusions /\ permit = None
  BY <1>1, <1>3 DEF Revoked
<1>7. ~BroadcastMarked => /\ Latch'
                          /\ Unattributed \in blockers => Unattributed \in blockers'
  BY <1>2, <1>3, FinishLatches
     DEF RetryCommits, RecoverCommits, InclusionsCommit, PrepareCommits
<1>8. owner # None => owner \in Owner
  BY <1>1 DEF TypeOK
<1>9. ~(owner # None /\ owner.bracket = "closed")
  BY <1>1, <1>2 DEF Grounds
<1>10. CASE RetryCommits
  <2>1. owner = None /\ op' = None
    BY <1>1, <1>2, <1>10 DEF RetryCommits, Revoked
  <2> QED
    BY <1>2, <1>3, <1>4, <1>6, <1>7, <1>10, <2>1
       DEF RetryCommits, BroadcastMarked, Committed, AuthorityState, Revoked, Writing, Grounds
<1>11. CASE RecoverCommits
  <2>1. permit' # None /\ Unattributed \notin blockers' =>
          EarlierIn(pending)
    BY <1>1, <1>2, <1>7, <1>11 DEF RecoverCommits, BroadcastMarked, Writing
  <2> QED
    BY <1>2, <1>3, <1>4, <1>5, <1>6, <1>7, <1>9, <1>11, <2>1
       DEF RecoverCommits, BroadcastMarked, AuthorityState, Revoked, Writing, Grounds
<1>12. CASE InclusionsCommit
  <2>1. permit' # None => op.permit # None
    BY <1>12 DEF InclusionsCommit
  <2>2. Unattributed \notin blockers' =>
          /\ inclusions' => AllIn(pending)
          /\ permit' # None => EarlierIn(pending)
          /\ owner.bracket = "open" => AnchorPart(pending.lastObs) = owner.head
    BY <1>1, <1>2, <1>7, <1>12, <2>1 DEF InclusionsCommit, BroadcastMarked, Writing
  <2>3. owner # None /\ (owner'.bracket = "closed" => owner.bracket = "open")
        /\ owner'.head = owner.head
    BY <1>1, <1>2, <1>8, <1>9, <1>12 DEF InclusionsCommit, Owner, OperationState
  <2>4. Grounds'
    BY <1>3, <1>5, <1>12, <2>2, <2>3 DEF InclusionsCommit, Grounds, AnchorPart
  <2> QED
    BY <1>2, <1>3, <1>4, <1>7, <1>12, <2>4
       DEF InclusionsCommit, BroadcastMarked, AuthorityState, Revoked, Writing
<1>13. CASE PrepareCommits
  <2>1. permit' # None /\ Unattributed \notin blockers' =>
          EarlierIn(pending)
    BY <1>1, <1>2, <1>7, <1>13 DEF PrepareCommits, BroadcastMarked, Writing
  <2> QED
    BY <1>2, <1>3, <1>4, <1>5, <1>6, <1>7, <1>9, <1>13, <2>1
       DEF PrepareCommits, BroadcastMarked, AuthorityState, Revoked, Writing, Grounds
<1>14. CASE BroadcastMarked
  <2>1. /\ op.kind = "broadcast" /\ blockers' = blockers
        /\ UNCHANGED <<recovered, inclusions, permit, owner>>
        /\ op' = [op EXCEPT !.stage = "send"]
    BY <1>14 DEF BroadcastMarked
  <2>2. op'.kind = "broadcast" /\ op'.stage = "send"
    BY <1>1, <1>2, <2>1 DEF TypeOK, Op
  <2>3. owner = None /\ ~recovered
    BY <1>1, <1>2, <2>1 DEF Revoked
  <2>4. current # None /\ pending.lastObs = current.lastObs
        /\ pending.next = current.next
    BY <1>1, <1>2, <2>1 DEF Writing, OperationState
  <2>5. Latch'
    BY <1>1, <1>2, <1>3, <2>1, <2>4 DEF Latch, UnattributedIn
  <2> QED
    BY <1>2, <1>3, <1>4, <1>6, <2>1, <2>2, <2>3, <2>5
       DEF AuthorityState, Revoked, Writing, Grounds
<1> QED
  BY <1>10, <1>11, <1>12, <1>13, <1>14

\* What a step that begins a write has to show.
LEMMA SaveKeeps ==
    ASSUME AInv, UNCHANGED <<chain, minted, durable, disk, up, current, recovered,
                             permit, blockers, owner>>,
           up, op # None, op.kind # "open-head", permit = None,
           op' # None, op'.kind = op.kind, op'.stage = "write",
           ~inclusions',
           owner # None => owner.bracket # "closed",
           NEW t, pending' = t, t.lastObs.hash <= minted,
           current = None => OnlyLastUnsent(t),
           current # None => Follows(current, t),
           op.kind = "broadcast" => FALSE,
           (op.kind = "inclusions" /\ Unattributed \notin blockers) =>
             /\ op'.complete => AllIn(t)
             /\ owner.bracket = "open" => AnchorPart(t.lastObs) = owner.head,
           (op'.permit # None /\ Unattributed \notin blockers) => EarlierIn(t)
    PROVE  AuthorityState'
<1>1. Revoked /\ Latch /\ Writing /\ Grounds
  BY Parts
<1>2. /\ HashesAreOld' /\ UnsentIsLast'
      /\ current' # None => Advances(current, pending)'
  BY NewSnapshot
<1>3. /\ AllIn(pending)' <=> AllIn(t)
      /\ EarlierIn(pending)' <=> EarlierIn(t)
  BY SameChain
<1>4. Latch'
  BY <1>1 DEF Latch, UnattributedIn
<1>5. Revoked'
  BY <1>1 DEF Revoked
<1>6. Writing'
  BY <1>2, <1>3 DEF Writing, AnchorPart
<1>7. Grounds'
  BY DEF Grounds
<1> QED
  BY <1>2, <1>4, <1>5, <1>6, <1>7 DEF AuthorityState

LEMMA BootstrapKeepsAuthority ==
    ASSUME AInv, RecoverBootstraps
    PROVE  AuthorityState'
<1>1. Revoked /\ Grounds /\ TypeOK /\ FileIsKnown
  BY Parts
<1>2. PICK n \in RecoveryAnchors : RecoverBootstrapsAt(n)
  BY DEF RecoverBootstraps
<1>3. n \in 1..Len(chain)
  BY <1>1 DEF TypeOK, ChainTypeOK, RecoveryAnchors
<1>4. PICK t : t = [baseline |-> chain[n].nonce, next |-> chain[n].nonce, durableNext |-> chain[n].nonce,
                    lastObs |-> AnchoredNonce(n), repairs |-> <<>>,
                    attempts |-> <<>>]
  OBVIOUS
<1>5. /\ pending' = t /\ up /\ current = None
      /\ op # None /\ op.kind = "recover" /\ op' = [op EXCEPT !.stage = "write"]
      /\ UNCHANGED <<chainVars, disk, up, current, recovered, inclusions, permit,
                     blockers, owner>>
  BY <1>2, <1>4 DEF RecoverBootstrapsAt, Save, Reading
<1>6. op' # None /\ op'.kind = "recover" /\ op'.stage = "write"
  BY <1>1, <1>5, AbsentAssumption DEF TypeOK, Op, OpStage
<1>7. permit = None /\ ~inclusions' /\ (owner # None => owner.bracket # "closed")
  BY <1>1, <1>5 DEF Revoked, Grounds
<1>8. t.lastObs = AnchoredNonce(n) /\ t.attempts = <<>>
  BY <1>4
<1>9. OnlyLastUnsent(t) /\ EarlierIn(t)
  <2>1. OnlyLastUnsent(t)
    BY <1>8 DEF OnlyLastUnsent
  <2>2. t.attempts \in Seq(Attempt) /\ Len(t.attempts) = 0
    BY <1>8
  <2>3. FirstUnresolved(t.attempts) \in 0..0
    BY <2>2, FirstUnresolvedRange
  <2> QED
    BY <2>1, <2>3 DEF EarlierIn
<1>10. t.lastObs.hash <= minted
  BY <1>3, <1>8, Held, ReadIsOld
<1> QED
  BY <1>5, <1>6, <1>7, <1>9, <1>10, SaveKeeps DEF chainVars

LEMMA RecoveryKeepsAuthority ==
    ASSUME AInv, RecoverInspects
    PROVE  AuthorityState'
<1>1. Revoked /\ Grounds /\ TypeOK /\ FileIsKnown
  BY Parts
<1>2. PICK n \in RecoveryAnchors, served \in BOOLEAN : RecoverInspectsAt(n, served)
  BY DEF RecoverInspects
<1>3. PICK r : r = InspectRecovery(current, n, served)
  OBVIOUS
<1>4. PICK t : t = RecoverySnapshot(current, r)
  OBVIOUS
<1>5. /\ pending' = t /\ up /\ current # None
      /\ op # None /\ op.kind = "recover"
      /\ op' = [op EXCEPT !.stage = "write", !.permit = RecoveryPermit(current, r)]
      /\ UNCHANGED <<chainVars, disk, up, current, recovered, inclusions, permit,
                     blockers, owner>>
  BY <1>2, <1>3, <1>4 DEF RecoverInspectsAt, Save, Reading
<1>6. /\ op' # None /\ op'.kind = "recover" /\ op'.stage = "write"
      /\ op'.permit = RecoveryPermit(current, r)
  <2>1. RecoveryPermit(current, r) \in AttemptIds \cup {None}
    <3>1. n \in 1..Len(chain) /\ ChainTypeOK /\ current \in Snapshot
      BY <1>1, <1>5 DEF TypeOK, ChainTypeOK, RecoveryAnchors
    <3> QED
      BY <1>3, <3>1, RecoveryAuthorises
  <2> QED
    BY <1>1, <1>5, <2>1, AbsentAssumption DEF TypeOK, Op, OpStage
<1>7. permit = None /\ ~inclusions' /\ (owner # None => owner.bracket # "closed")
  BY <1>1, <1>5 DEF Revoked, Grounds
<1>8. /\ Follows(current, t)
      /\ RecoveryPermit(current, r) # None => EarlierIn(t)
  BY <1>3, <1>4, <1>5, Held, RecoveryFollows
<1>9. t.lastObs.hash <= minted
  BY <1>8 DEF Follows
<1> QED
  BY <1>5, <1>6, <1>7, <1>8, <1>9, SaveKeeps DEF chainVars

LEMMA InclusionKeepsAuthority ==
    ASSUME AInv, InclusionsInspect
    PROVE  AuthorityState'
<1>1. Revoked /\ Grounds /\ TypeOK /\ FileIsKnown /\ OperationState
  BY Parts
<1>2. PICK n \in InclusionHeads, servedAt \in SUBSET (1..Len(current.attempts)) :
        InclusionsInspectAt(n, servedAt)
  BY DEF InclusionsInspect
<1>3. PICK r : r = InspectInclusions(current, n, servedAt)
  OBVIOUS
<1>4. PICK t : t = [current EXCEPT !.lastObs = ObservationToKeep(current, r.obs),
                                   !.attempts = r.attempts]
  OBVIOUS
<1>5. /\ pending' = t /\ up /\ r.status = "inspected"
      /\ op # None /\ op.kind = "inclusions"
      /\ op' = [op EXCEPT !.stage = "write", !.permit = r.permit,
                          !.complete = r.complete]
      /\ UNCHANGED <<chainVars, disk, up, current, recovered, inclusions, permit,
                     blockers, owner>>
  BY <1>2, <1>3, <1>4 DEF InclusionsInspectAt, Save, Reading
<1>6. /\ current # None /\ owner # None /\ ChainTypeOK /\ HashesAreOld
      /\ Base(current) /\ n \in 1..Len(chain)
      /\ owner.bracket = "open" => owner.head = AnchorOf(n)
  BY <1>1, <1>5, Held DEF OperationState, InclusionHeads
<1>7. /\ op' # None /\ op'.kind = "inclusions" /\ op'.stage = "write"
      /\ op'.permit = r.permit /\ op'.complete = r.complete
  <2>1. r.permit \in AttemptIds \cup {None} /\ r.complete \in BOOLEAN
    BY <1>3, <1>6, InclusionsKeep DEF Base
  <2> QED
    BY <1>1, <1>5, <2>1, AbsentAssumption DEF TypeOK, Op, OpStage
<1>8. permit = None /\ ~inclusions' /\ owner.bracket # "closed"
  BY <1>1, <1>5, <1>6 DEF Revoked, Grounds
<1>9. /\ Follows(current, t)
      /\ Unattributed \notin blockers =>
           /\ r.complete => AllIn(t)
           /\ r.permit # None => EarlierIn(t)
           /\ AnchorPart(t.lastObs) = AnchorOf(n)
  BY <1>3, <1>4, <1>5, <1>6, InclusionFollows
<1>10. t.lastObs.hash <= minted
  BY <1>9 DEF Follows
<1> QED
  BY <1>5, <1>6, <1>7, <1>8, <1>9, <1>10, SaveKeeps DEF chainVars

LEMMA PreparationKeepsAuthority ==
    ASSUME AInv, PrepareSigned
    PROVE  AuthorityState'
<1>1. Revoked /\ Grounds /\ TypeOK /\ FileIsKnown /\ OperationState
  BY Parts
<1>2. PICK a : a = [id |-> op.permit, nonce |-> current.next, phase |-> "signed",
                    incl |-> None, seen |-> None,
                    search |-> [lower |-> current.lastObs, through |-> None]]
  OBVIOUS
<1>3. PICK t : t = [current EXCEPT !.next = @ + 1, !.attempts = Append(@, a)]
  OBVIOUS
<1>4. /\ pending' = t /\ up /\ ~inclusions'
      /\ op # None /\ op.kind = "prepare" /\ op.stage = "sign"
      /\ op' = [op EXCEPT !.stage = "write"]
      /\ UNCHANGED <<chainVars, disk, up, current, recovered, permit, blockers, owner>>
  BY <1>2, <1>3 DEF PrepareSigned, Save
<1>5. /\ permit = None /\ owner = None /\ inclusions /\ blockers = {}
      /\ FirstUnresolved(current.attempts) = 0 /\ current # None
      /\ op.permit \in AttemptIds
  BY <1>1, <1>4 DEF Revoked, OperationState
<1>6. current \in Snapshot /\ Base(current) /\ AllIn(current)
  BY <1>1, <1>4, <1>5, Held DEF Grounds
<1>7. a \in Attempt
  BY <1>2, <1>5, <1>6, SnapshotFields DEF Attempt, Phase, Search
<1>8. Follows(current, t) /\ EarlierIn(t)
  BY <1>3, <1>5, <1>6, <1>7, PreparationFollows
<1>9. op' # None /\ op'.kind = "prepare" /\ op'.stage = "write"
  BY <1>1, <1>4, AbsentAssumption DEF TypeOK, Op, OpStage
<1>10. t.lastObs.hash <= minted
  BY <1>8 DEF Follows
<1> QED
  BY <1>4, <1>5, <1>8, <1>9, <1>10, SaveKeeps DEF chainVars

LEMMA BroadcastBeginKeepsAuthority ==
    ASSUME AInv, BroadcastBegin
    PROVE  AuthorityState'
<1>1. Revoked /\ Latch /\ TypeOK /\ FileIsKnown
  BY Parts
<1>2. PICK i : i = FirstUnresolved(current.attempts)
  OBVIOUS
<1>3. PICK a : a = current.attempts[i]
  OBVIOUS
<1>4. /\ up /\ op = None /\ owner = None /\ pstate = "idle" /\ blockers = {}
      /\ current # None /\ i # 0
  BY <1>2, <1>3 DEF BroadcastBegin, CanBroadcast
<1>5. /\ op' = [kind |-> "broadcast",
                stage |-> IF NeedsMark(a) THEN "write" ELSE "send",
                permit |-> a.id, complete |-> FALSE]
      /\ permit' = None /\ recovered' = FALSE /\ inclusions' = FALSE
      /\ UNCHANGED <<chainVars, disk, up, current, blockers, owner>>
  BY <1>2, <1>3 DEF BroadcastBegin
<1>6. op'.kind = "broadcast" /\ op'.stage = IF NeedsMark(a) THEN "write" ELSE "send"
  BY <1>5
<1>7. Revoked'
  BY <1>4, <1>5, <1>6 DEF Revoked
<1>8. CASE NeedsMark(a)
  <2>1. PICK t : t = [current EXCEPT
                        !.attempts[i].phase = "broadcast-may-have-occurred",
                        !.attempts[i].incl = None, !.attempts[i].seen = None]
    OBVIOUS
  <2>2. pending' = t
    BY <1>2, <1>3, <1>8, <2>1 DEF BroadcastBegin, Save
  <2>3. Follows(current, t) /\ t.lastObs = current.lastObs /\ t.next = current.next
    BY <1>2, <1>4, <2>1, Held, MarkFollows
  <2>4. t.lastObs.hash <= minted
    BY <2>3 DEF Follows
  <2>5. /\ HashesAreOld' /\ UnsentIsLast'
        /\ current' # None => Advances(current, pending)'
    BY <1>4, <1>5, <2>2, <2>3, <2>4, NewSnapshot DEF chainVars
  <2>6. Latch'
    BY <1>1, <1>5 DEF Latch, UnattributedIn
  <2>7. Writing'
    BY <1>5, <1>6, <2>2, <2>3, <2>5 DEF Writing
  <2>8. Grounds'
    BY <1>4, <1>5 DEF Grounds
  <2> QED
    BY <1>7, <2>5, <2>6, <2>7, <2>8 DEF AuthorityState
<1>9. CASE ~NeedsMark(a)
  <2>1. pending' = pending
    BY <1>2, <1>3, <1>9 DEF BroadcastBegin
  <2> QED
    BY <1>4, <1>5, <1>6, <1>7, <1>9, <2>1, QuietKeeps DEF chainVars
<1> QED
  BY <1>8, <1>9

LEMMA AuthorityPreserves == AInv /\ [Next]_vars => AInv'
<1> SUFFICES ASSUME AInv, [Next]_vars PROVE AuthorityState'
  BY ReleasePreserves DEF AInv
<1>1. CASE Process
  BY <1>1, ProcessKeepsAuthority
<1>2. CASE Persistence
  BY <1>2, QuietStepsKeepAuthority, CommitsKeepAuthority DEF Persistence
<1>3. CASE Inspection
  BY <1>3, InspectionKeepsAuthority
<1>4. CASE Recovery
  BY <1>4, QuietStepsKeepAuthority, CommitsKeepAuthority, BootstrapKeepsAuthority,
     RecoveryKeepsAuthority DEF Recovery
<1>5. CASE Inclusion
  BY <1>5, QuietStepsKeepAuthority, CommitsKeepAuthority, InclusionKeepsAuthority
     DEF Inclusion
<1>6. CASE Submission
  BY <1>6, QuietStepsKeepAuthority, CommitsKeepAuthority, PreparationKeepsAuthority,
     BroadcastBeginKeepsAuthority DEF Submission
<1>7. CASE ChainNext /\ UNCHANGED <<disk, memVars>>
  BY <1>7, ChainKeepsAuthority
<1>8. CASE UNCHANGED vars
  BY <1>8, QuietStepsKeepAuthority
<1> QED
  BY <1>1, <1>2, <1>3, <1>4, <1>5, <1>6, <1>7, <1>8 DEF Next

LEMMA InitHasNoAuthority == Init => AInv
<1> SUFFICES ASSUME Init PROVE AInv
  OBVIOUS
<1>1. ReleaseInv
  BY InitEstablishes DEF ReleaseInv, Init, ChainInit, NoncesGrow, ResolutionIsDurable
<1>2. AuthorityState
  BY DEF Init, ChainInit, AuthorityState, HashesAreOld, UnsentIsLast, Revoked, Latch,
     Writing, Grounds, UnattributedIn
<1> QED
  BY <1>1, <1>2 DEF AInv

-----------------------------------------------------------------------------
(* What follows from it.                                                   *)

\* The permit of a possible broadcast names an attempt.
LEMMA PermitNamesAttempt ==
    ASSUME NEW s \in Snapshot, FirstUnresolved(s.attempts) # 0
    PROVE  Unresolved(s).id \in AttemptIds /\ Unresolved(s).id # None
<1>1. s.attempts \in Seq(Attempt) /\ Len(s.attempts) \in Nat
  BY SnapshotFields
<1>2. FirstUnresolved(s.attempts) \in 1..Len(s.attempts)
  BY <1>1, FirstUnresolvedRange
<1>3. Unresolved(s) \in Attempt
  BY <1>2, SnapshotFields DEF Unresolved
<1> QED
  BY <1>3, ChainAssumption DEF Attempt

LEMMA AuthorityIsGrounded == AInv => AuthorityIsSound
<1> SUFFICES ASSUME AInv PROVE AuthorityIsSound
  OBVIOUS
<1>1. /\ Latch /\ Grounds /\ TypeOK /\ FileIsKnown
  BY Parts
<1>2. GateOpenIsSound
  <2> SUFFICES ASSUME GateOpen
               PROVE  /\ current = disk
                      /\ current.lastObs.nonce = current.next
                      /\ Canonical(AnchorPart(current.lastObs)) =>
                           \A i \in 1..Len(current.attempts) :
                               Canonical(current.attempts[i].incl)
    BY DEF GateOpenIsSound
  <2>1. /\ up /\ pstate = "idle" /\ blockers = {} /\ inclusions /\ current # None
    BY DEF GateOpen
  <2>2. current = disk /\ AllIn(current) /\ ~UnattributedIn(current)
    BY <1>1, <2>1 DEF FileIsKnown, Grounds, Latch
  <2>3. current.lastObs.nonce \in Nat /\ current.next \in Nat
    BY <2>1, Held, SnapshotFields DEF Observation
  <2> QED
    BY <2>1, <2>2, <2>3 DEF AllIn, Verified, UnattributedIn
<1>3. PermitIsSound
  <2> SUFFICES ASSUME CanBroadcast
               PROVE  /\ current = disk
                      /\ Canonical(AnchorPart(current.lastObs)) =>
                           \A i \in 1..(FirstUnresolved(current.attempts) - 1) :
                               Canonical(current.attempts[i].incl)
    BY DEF PermitIsSound
  <2>1. /\ up /\ pstate = "idle" /\ blockers = {} /\ current # None
        /\ FirstUnresolved(current.attempts) # 0 /\ permit = Unresolved(current).id
    BY DEF CanBroadcast
  <2>2. permit # None
    BY <2>1, Held, PermitNamesAttempt
  <2>3. current = disk /\ EarlierIn(current)
    BY <1>1, <2>1, <2>2 DEF FileIsKnown, Grounds
  <2> QED
    BY <2>3 DEF EarlierIn, Verified
<1> QED
  BY <1>2, <1>3 DEF AuthorityIsSound

\* A step of the coordinator that leaves it able to act is the end of an inspection
\* or of a preparation.
LEMMA WhatGrants ==
    ASSUME AInv, Next, up', op' = None, owner' = None, pstate' = "idle", recovered',
           inclusions' \/ permit' # None
    PROVE  \/ owner # None /\ ~owner.abandoning
           \/ /\ op # None /\ op.kind = "prepare"
              /\ inclusions' => current' = current
              /\ permit' # None => permit' = op.permit
           \/ UNCHANGED memVars
<1>1. Revoked /\ TypeOK /\ FileIsKnown /\ OperationState
  BY Parts
<1>2. owner # None => FailBracket(owner) # None
  BY <1>1, AbsentAssumption DEF TypeOK, FailBracket, Owner
<1>3. owner # None => [owner EXCEPT !.bracket = "open"] # None
                      /\ [owner EXCEPT !.bracket = "closed"] # None
  BY <1>1, AbsentAssumption DEF TypeOK, Owner
<1>4. ~Process
  BY <1>1 DEF Process, Start, Crash, Down, Revoked
<1>5. ~Persistence
  <2>1. ~WriteFails /\ ~RetryPersistence
    BY DEF WriteFails, RetryPersistence
  <2>2. ~RetryCommits
    <3> SUFFICES ASSUME RetryCommits PROVE FALSE
      OBVIOUS
    <3>1. op # None /\ op.stage = "write" /\ UNCHANGED <<inclusions, permit>>
      BY <1>1 DEF RetryCommits, OperationState
    <3>2. pstate = "writing"
      BY <1>1, <3>1 DEF FileIsKnown
    <3> QED
      BY <1>1, <3>1, <3>2 DEF Revoked
  <2> QED
    BY <2>1, <2>2 DEF Persistence
<1>6. CASE Inspection
  <2>1. ~BeginInspection
    BY AbsentAssumption DEF BeginInspection, Owner
  <2>2. FinishInspection => owner # None /\ ~owner.abandoning
    BY DEF FinishInspection, OwnerAvailable
  <2>3. ~AbandonInspection /\ ~CompleteAbandonment
    <3>1. owner # None => [owner EXCEPT !.abandoning = TRUE] # None
      BY <1>1, AbsentAssumption DEF TypeOK, Owner
    <3> QED
      BY <3>1 DEF AbandonInspection, CompleteAbandonment
  <2>4. ~OpenHeadBegin
    <3>1. OpenHeadBegin => op' \in Op
      BY BeginIsTyped DEF OpenHeadBegin, OpKind, OpStage
    <3> QED
      BY <3>1, AbsentAssumption
  <2>5. ~OpenHeadEnd
    BY <1>1, <1>3 DEF OpenHeadEnd, OperationState
  <2> QED
    BY <1>6, <2>1, <2>2, <2>3, <2>4, <2>5 DEF Inspection
<1>7. ~Recovery
  <2>1. ~RecoverBegin
    <3>1. RecoverBegin => op' \in Op
      BY BeginIsTyped DEF RecoverBegin, OpKind, OpStage
    <3> QED
      BY <3>1, AbsentAssumption
  <2>2. ~RecoverGivesUp
    BY <1>1, <1>2 DEF RecoverGivesUp, Reading, OperationState
  <2>3. ~RecoverBootstraps /\ ~RecoverInspects
    BY <1>1 DEF RecoverBootstraps, RecoverBootstrapsAt, RecoverInspects,
       RecoverInspectsAt, Reading, OperationState
  <2>4. ~RecoverCommits
    BY <1>1 DEF RecoverCommits, OperationState
  <2> QED
    BY <2>1, <2>2, <2>3, <2>4 DEF Recovery
<1>8. ~Inclusion
  <2>1. ~InclusionsBegin
    <3>1. InclusionsBegin => op' \in Op
      BY BeginIsTyped DEF InclusionsBegin, OpKind, OpStage
    <3> QED
      BY <3>1, AbsentAssumption
  <2>2. ~InclusionsGiveUp /\ ~InclusionsContradict
    BY <1>1, <1>2 DEF InclusionsGiveUp, InclusionsContradict, InclusionsContradictAt,
       Reading, OperationState
  <2>3. ~InclusionsInspect
    BY <1>1 DEF InclusionsInspect, InclusionsInspectAt, Reading, OperationState
  <2>4. ~InclusionsCommit
    BY <1>1, <1>3 DEF InclusionsCommit, OperationState
  <2> QED
    BY <2>1, <2>2, <2>3, <2>4 DEF Inclusion
<1>9. CASE Submission
  <2>1. ~PrepareBegin
    <3> SUFFICES ASSUME NEW id \in AttemptIds, PrepareBeginFor(id) PROVE FALSE
      BY DEF PrepareBegin
    <3>1. [kind |-> "prepare", stage |-> "sign", permit |-> id, complete |-> FALSE]
            \in Op
      BY DEF Op, OpKind, OpStage
    <3> QED
      BY <3>1, AbsentAssumption DEF PrepareBeginFor
  <2>2. ~PrepareSigned
    BY DEF PrepareSigned, Save
  <2>3. PrepareRefused =>
          /\ op # None /\ op.kind = "prepare"
          /\ inclusions' => current' = current
          /\ permit' # None => permit' = op.permit
    BY <1>1 DEF PrepareRefused, Revoked
  <2>4. PrepareCommits =>
          /\ op # None /\ op.kind = "prepare"
          /\ inclusions' => current' = current
          /\ permit' # None => permit' = op.permit
    BY <1>1 DEF PrepareCommits, FileIsKnown, Revoked
  <2>5. ~BroadcastBegin
    BY DEF BroadcastBegin
  <2>6. ~BroadcastMarked /\ ~BroadcastSend /\ ~BroadcastLost
    BY <1>1 DEF BroadcastMarked, BroadcastSend, BroadcastLost, Revoked
  <2> QED
    BY <1>9, <2>1, <2>2, <2>3, <2>4, <2>5, <2>6 DEF Submission
<1> QED
  BY <1>4, <1>5, <1>6, <1>7, <1>8, <1>9 DEF Next

LEMMA GrantsAreInspected ==
    ASSUME AInv, [Next]_vars
    PROVE  /\ (~GateOpen /\ GateOpen') =>
                \/ owner # None /\ ~owner.abandoning /\ owner' = None
                \/ op # None /\ op.kind = "prepare" /\ current' = current
           /\ (~CanBroadcast /\ CanBroadcast') =>
                \/ owner # None /\ ~owner.abandoning /\ owner' = None
                \/ op # None /\ op.kind = "prepare" /\ permit' = op.permit
<1>1. TypeOK'
  BY AuthorityPreserves DEF AInv, ReleaseInv, IInv
<1>2. UNCHANGED vars \/ UNCHANGED memVars =>
        (GateOpen' <=> GateOpen) /\ (CanBroadcast' <=> CanBroadcast)
  BY DEF vars, memVars, GateOpen, CanBroadcast, Unresolved
<1>3. ASSUME ~GateOpen, GateOpen'
      PROVE  \/ owner # None /\ ~owner.abandoning /\ owner' = None
             \/ op # None /\ op.kind = "prepare" /\ current' = current
  <2>1. Next /\ ~UNCHANGED memVars
    BY <1>2, <1>3
  <2>2. /\ up' /\ op' = None /\ owner' = None /\ pstate' = "idle" /\ recovered'
        /\ inclusions'
    BY <1>3 DEF GateOpen
  <2> QED
    BY <2>1, <2>2, WhatGrants
<1>4. ASSUME ~CanBroadcast, CanBroadcast'
      PROVE  \/ owner # None /\ ~owner.abandoning /\ owner' = None
             \/ op # None /\ op.kind = "prepare" /\ permit' = op.permit
  <2>1. Next /\ ~UNCHANGED memVars
    BY <1>2, <1>4
  <2>2. /\ up' /\ op' = None /\ owner' = None /\ pstate' = "idle" /\ recovered'
        /\ current' # None /\ FirstUnresolved(current'.attempts) # 0
        /\ permit' = Unresolved(current').id
    BY <1>4 DEF CanBroadcast, Unresolved
  <2>3. current' \in Snapshot
    BY <1>1, <2>2 DEF TypeOK
  <2>4. permit' # None
    BY <2>2, <2>3, PermitNamesAttempt
  <2> QED
    BY <2>1, <2>2, <2>4, WhatGrants
<1> QED
  BY <1>3, <1>4

LEMMA FileAdvances ==
    ASSUME AInv, [Next]_vars, disk # None, disk' # disk
    PROVE  Advances(disk, disk')
<1>1. FileIsKnown /\ Writing
  BY Parts
<1>2. disk' = pending /\ pstate # "idle"
  <2>1. /\ Start => disk' = disk
        /\ RetryPersistence => disk' = disk
        /\ Inspection => disk' = disk
    BY DEF Start, RetryPersistence, Inspection, BeginInspection, FinishInspection,
       AbandonInspection, CompleteAbandonment, OpenHeadBegin, OpenHeadEnd
  <2>2. /\ Recovery => RecoverCommits \/ disk' = disk
        /\ Inclusion => InclusionsCommit \/ disk' = disk
    BY DEF Recovery, RecoverBegin, RecoverGivesUp, RecoverBootstraps,
       RecoverBootstrapsAt, RecoverInspects, RecoverInspectsAt, Inclusion,
       InclusionsBegin, InclusionsGiveUp, InclusionsContradict,
       InclusionsContradictAt, InclusionsInspect, InclusionsInspectAt
  <2>3. Submission => PrepareCommits \/ BroadcastMarked \/ disk' = disk
    BY DEF Submission, PrepareBegin, PrepareBeginFor, PrepareSigned, PrepareRefused,
       BroadcastBegin, BroadcastSend, BroadcastLost
  <2>4. CASE Crash
    BY <1>1, <2>4 DEF Crash, FileIsKnown
  <2>5. CASE WriteFails
    BY <1>1, <2>5 DEF WriteFails
  <2>6. CASE RetryCommits \/ RecoverCommits \/ InclusionsCommit \/ PrepareCommits
             \/ BroadcastMarked
    <3>1. /\ op # None /\ op.stage = "write" /\ disk' = pending
      BY <2>6, Parts DEF RetryCommits, RecoverCommits, InclusionsCommit,
         PrepareCommits, BroadcastMarked, Committed, OperationState
    <3> QED
      BY <1>1, <3>1 DEF FileIsKnown
  <2>7. CASE UNCHANGED vars \/ (ChainNext /\ UNCHANGED <<disk, memVars>>)
    BY <2>7 DEF vars
  <2> QED
    BY <2>1, <2>2, <2>3, <2>4, <2>5, <2>6, <2>7 DEF Next, Process, Persistence
<1>3. disk = current /\ pending # None
  BY <1>1, <1>2 DEF FileIsKnown
<1> QED
  BY <1>1, <1>2, <1>3 DEF Writing

-----------------------------------------------------------------------------
(* How the account moves along the chain.                                  *)

\* A transaction consumes the nonce before it; without one the account's nonce may
\* move by one too.
Steps ==
    /\ chain[1].tx = None
    /\ \A k \in 2..Len(chain) :
         \/ /\ chain[k].tx = None
            /\ chain[k].nonce \in {chain[k - 1].nonce, chain[k - 1].nonce + 1}
         \/ /\ chain[k].tx # None
            /\ chain[k].tx.nonce = chain[k - 1].nonce
            /\ chain[k].nonce = chain[k - 1].nonce + 1

LEMMA ChainFacts ==
    ASSUME AInv
    PROVE  /\ chain \in Seq(Block) /\ Len(chain) \in Nat /\ durable \in 1..Len(chain)
           /\ durable \in Nat /\ durable <= Len(chain)
           /\ minted \in Nat
           /\ \A k \in 1..Len(chain) :
                /\ chain[k] \in Block /\ chain[k].nonce \in Nat
                /\ chain[k].hash \in Nat /\ chain[k].hash <= minted
                /\ AnchorOf(k) \in Anchor /\ AnchoredNonce(k) \in Observation
           /\ NoncesGrow
<1>1. ChainTypeOK /\ HashesAreOld /\ NoncesGrow
  BY Held
<1>2. chain \in Seq(Block) /\ Len(chain) \in Nat /\ durable \in 1..Len(chain)
      /\ minted \in Nat
  BY <1>1 DEF ChainTypeOK
<1>3. \A k \in 1..Len(chain) :
        /\ chain[k] \in Block /\ chain[k].nonce \in Nat
        /\ chain[k].hash \in Nat /\ chain[k].hash <= minted
        /\ AnchorOf(k) \in Anchor /\ AnchoredNonce(k) \in Observation
  <2> SUFFICES ASSUME NEW k \in 1..Len(chain)
               PROVE  /\ chain[k] \in Block /\ chain[k].nonce \in Nat
                      /\ chain[k].hash \in Nat /\ chain[k].hash <= minted
                      /\ AnchorOf(k) \in Anchor /\ AnchoredNonce(k) \in Observation
    OBVIOUS
  <2>1. chain[k] \in Block
    BY <1>2
  <2>2. chain[k].nonce \in Nat /\ chain[k].hash \in Nat
    BY <2>1 DEF Block
  <2>3. AnchorOf(k) \in Anchor /\ AnchoredNonce(k) \in Observation
    BY <1>1, ReadsAreTyped
  <2> QED
    BY <1>1, <2>1, <2>2, <2>3 DEF HashesAreOld
<1> QED
  BY <1>1, <1>2, <1>3

\* The durable blocks stay, and there are never fewer of them.
LEMMA DurablePrefix ==
    ASSUME AInv, ChainNext
    PROVE  /\ durable' \in Nat /\ durable <= durable' /\ durable' <= Len(chain')
           /\ \A k \in 1..durable : k \in 1..Len(chain) /\ k \in 1..Len(chain')
                                    /\ chain'[k] = chain[k]
<1>1. /\ chain \in Seq(Block) /\ Len(chain) \in Nat /\ durable \in 1..Len(chain)
      /\ durable \in Nat /\ durable <= Len(chain)
  BY ChainFacts
<1>2. ReleaseInv /\ HashesAreOld
  BY DEF AInv, AuthorityState
<1>3. /\ Len(chain') \in Nat
      /\ \A k \in 1..Len(chain') : k <= Len(chain) => chain'[k] = chain[k]
  <2>1. \A k \in 1..Len(chain') :
          \/ k \in 1..Len(chain) /\ chain'[k] = chain[k]
          \/ k > Len(chain)
    BY <1>2, ChainMoves
  <2> QED
    BY <1>1, <1>2, <2>1, ChainMoves
<1>4. durable' \in Nat /\ durable <= durable' /\ durable' <= Len(chain')
  <2>1. ASSUME NEW tx, NEW m, Extend(tx, m)
        PROVE  durable' \in Nat /\ durable <= durable' /\ durable' <= Len(chain')
    <3>1. durable' = durable /\ Len(chain') = Len(chain) + 1
      BY <1>1, <2>1 DEF Extend
    <3> QED
      BY <1>1, <3>1
  <2>2. CASE MineEmpty
    BY <2>1, <2>2 DEF MineEmpty
  <2>3. CASE MineOwn
    BY <2>1, <2>3 DEF MineOwn
  <2>4. CASE MineForeign
    BY <2>1, <2>4 DEF MineForeign
  <2>5. CASE Reorg
    <3>1. PICK k \in durable..(Len(chain) - 1) : chain' = SubSeq(chain, 1, k)
      BY <2>5 DEF Reorg
    <3>2. k \in Int /\ 1 <= k /\ k <= Len(chain) /\ \A j \in 1..k : chain[j] \in Block
      BY <1>1, <3>1, ElementOfSeq
    <3>3. Len(chain') = k
      BY <3>1, <3>2, SubSeqProperties
    <3> QED
      BY <1>1, <2>5, <3>1, <3>3 DEF Reorg
  <2>6. CASE Finalize
    BY <1>1, <2>6 DEF Finalize
  <2> QED
    BY <2>2, <2>3, <2>4, <2>5, <2>6 DEF ChainNext
<1> QED
  BY <1>1, <1>3, <1>4

\* Each way to extend the chain is a step of the account.
LEMMA StepsStay ==
    ASSUME AInv, Steps, ChainNext
    PROVE  Steps'
<1>1. /\ chain \in Seq(Block) /\ Len(chain) \in Nat /\ Len(chain) >= 1
      /\ durable \in 1..Len(chain)
      /\ \A k \in 1..Len(chain) : chain[k].nonce \in Nat
  <2>1. /\ chain \in Seq(Block) /\ Len(chain) \in Nat /\ durable \in 1..Len(chain)
        /\ \A k \in 1..Len(chain) : chain[k].nonce \in Nat
    BY ChainFacts
  <2> QED
    BY <2>1
<1>2. ASSUME NEW tx, NEW m, Extend(tx, m),
             \/ tx = None /\ m \in {LatestNonce, LatestNonce + 1}
             \/ tx # None /\ tx.nonce = LatestNonce /\ m = LatestNonce + 1
      PROVE  Steps'
  <2>1. PICK b : b = [hash |-> minted + 1, tx |-> tx, nonce |-> m]
    OBVIOUS
  <2>2. b.tx = tx /\ b.nonce = m
    BY <2>1
  <2>3. chain' = Append(chain, b)
    BY <1>2, <2>1 DEF Extend
  <2>4. /\ Len(chain') = Len(chain) + 1
        /\ \A k \in 1..Len(chain) : chain'[k] = chain[k]
        /\ chain'[Len(chain) + 1] = b
    BY <1>1, <2>3
  <2>5. chain'[1].tx = None
    BY <1>1, <2>4 DEF Steps
  <2>6. ASSUME NEW k \in 2..Len(chain')
        PROVE  \/ /\ chain'[k].tx = None
                  /\ chain'[k].nonce \in {chain'[k - 1].nonce, chain'[k - 1].nonce + 1}
               \/ /\ chain'[k].tx # None
                  /\ chain'[k].tx.nonce = chain'[k - 1].nonce
                  /\ chain'[k].nonce = chain'[k - 1].nonce + 1
    <3>1. CASE k <= Len(chain)
      <4>1. k \in 2..Len(chain) /\ k \in 1..Len(chain) /\ k - 1 \in 1..Len(chain)
        BY <1>1, <2>4, <3>1
      <4>2. chain'[k] = chain[k] /\ chain'[k - 1] = chain[k - 1]
        BY <2>4, <4>1
      <4> QED
        BY <4>1, <4>2 DEF Steps
    <3>2. CASE k = Len(chain) + 1
      <4>1. k - 1 = Len(chain) /\ Len(chain) \in 1..Len(chain)
        BY <1>1, <3>2
      <4>2. chain'[k] = b /\ chain'[k - 1].nonce = LatestNonce
        BY <2>4, <3>2, <4>1 DEF LatestNonce
      <4> QED
        BY <1>2, <2>2, <4>2
    <3> QED
      BY <1>1, <2>4, <3>1, <3>2
  <2> QED
    BY <2>5, <2>6 DEF Steps
<1>3. CASE MineEmpty
  BY <1>2, <1>3 DEF MineEmpty
<1>4. CASE MineOwn
  <2>1. PICK t \in escaped : t.nonce = LatestNonce /\ Extend(t, LatestNonce + 1)
    BY <1>4 DEF MineOwn
  <2>2. t # None
    <3>1. t \in Tx
      BY <2>1, Held DEF ChainTypeOK
    <3> QED
      BY <3>1, ReferenceAssumption
  <2> QED
    BY <1>2, <2>1, <2>2
<1>5. CASE MineForeign
  <2>1. PICK t \in {[nonce |-> LatestNonce, id |-> Foreign], None} :
          Extend(t, LatestNonce + 1)
    BY <1>5 DEF MineForeign
  <2>2. t # None => t.nonce = LatestNonce
    BY <2>1
  <2> QED
    BY <1>2, <2>1, <2>2
<1>6. CASE Reorg
  <2>1. PICK k \in durable..(Len(chain) - 1) : chain' = SubSeq(chain, 1, k)
    BY <1>6 DEF Reorg
  <2>2. k \in Int /\ 1 <= k /\ k <= Len(chain) /\ \A j \in 1..k : chain[j] \in Block
    BY <1>1, <2>1, ElementOfSeq
  <2>3. Len(chain') = k /\ \A i \in 1..k : chain'[i] = chain[i]
    BY <2>1, <2>2, SubSeqProperties
  <2>4. \A i \in 2..k : i \in 2..Len(chain) /\ i \in 1..k /\ i - 1 \in 1..k
    BY <1>1, <2>2
  <2>5. 1 \in 1..k
    BY <2>2
  <2> QED
    BY <2>3, <2>4, <2>5 DEF Steps
<1>7. CASE Finalize
  BY <1>7 DEF Finalize, Steps
<1> QED
  BY <1>3, <1>4, <1>5, <1>6, <1>7 DEF ChainNext

-----------------------------------------------------------------------------
(* What a search and a recovery pass answer.                               *)

\* No block of the range carries a transaction with this nonce.
Unused(nonce, first, last) ==
    \A k \in first..last : chain[k].tx # None => chain[k].tx.nonce # nonce

\* Where a search starts: above what it has scanned before.
SearchedTo(s) == IF s.through = None THEN s.lower.num ELSE s.through.num

\* A search that answers has found its bounds canonical.  It either scanned a
\* further range in vain, or points at another transaction with the nonce.
LEMMA SearchScans ==
    ASSUME ChainTypeOK, NEW n \in 1..Len(chain),
           NEW a, NEW s \in Search \cup {None},
           SearchReplacement(a, s, n).status \in {"not-found", "replacement-found"}
    PROVE  LET r == SearchReplacement(a, s, n)
           IN  /\ s # None /\ s \in Search
               /\ s.lower.num \in 1..n /\ SearchedTo(s) \in 1..n
               /\ Canonical(AnchorPart(s.lower))
               /\ r.status = "not-found" =>
                    \E last \in 1..n :
                        /\ SearchedTo(s) < last
                        /\ r.at = AnchorOf(last)
                        /\ r.exhausted = (last = n)
                        /\ Unused(a.nonce, SearchedTo(s) + 1, last)
               /\ r.status = "replacement-found" =>
                    \E k \in 1..n :
                        /\ r.at = AnchorOf(k)
                        /\ chain[k].tx # None /\ chain[k].tx.nonce = a.nonce
                        /\ chain[k].tx # TxOf(a)
                        /\ ~r.exhausted
<1> DEFINE lower    == AnchorPart(s.lower)
           boundary == IF s.through = None THEN lower ELSE s.through
           last     == Min({boundary.num + MaxBlockRange, n})
           hits     == {k \in Scanned(boundary, last) :
                          chain[k].tx # None /\ chain[k].tx.nonce = a.nonce}
           behind   == lower.num >= n \/ boundary.num > n
           same     == Canonical(lower) /\ Canonical(boundary)
<1>0. PICK r : r = SearchReplacement(a, s, n)
  OBVIOUS
<1>a. s # None => /\ lower.num \in Nat \ {0} /\ boundary.num \in Nat \ {0}
                  /\ lower.num = s.lower.num /\ boundary.num = SearchedTo(s)
  BY DEF Search, Observation, Anchor, AnchorPart, SearchedTo
<1>b. n \in Nat /\ Len(chain) \in Nat
  BY DEF ChainTypeOK
<1>1. s # None
  <2>1. s = None => r = SearchResult("missing-lower-bound", None, FALSE)
    BY <1>0 DEF SearchReplacement
  <2> QED
    BY <1>0, <2>1 DEF SearchResult
<1>2. ~behind
  <2> SUFFICES ASSUME behind PROVE FALSE
    OBVIOUS
  <2>0. ~(lower.num < n /\ boundary.num <= n)
    BY <1>a, <1>b, <1>1
  <2>1. r = SearchResult("anchor-behind-search", None, FALSE)
    BY <1>0, <1>1, <2>0, Zenon DEF SearchReplacement
  <2> QED
    BY <1>0, <2>1 DEF SearchResult
<1>3. same
  <2> SUFFICES ASSUME ~same PROVE FALSE
    OBVIOUS
  <2>0. lower.num < n /\ boundary.num <= n
    BY <1>a, <1>b, <1>1, <1>2
  <2>1. r = SearchResult("boundary-changed", None, FALSE)
    BY <1>0, <1>1, <1>2, <2>0, Zenon DEF SearchReplacement
  <2> QED
    BY <1>0, <2>1 DEF SearchResult
<1>4. boundary.num \in Nat \ {0} /\ boundary.num <= n
  BY <1>a, <1>b, <1>1, <1>2
<1>c. s.lower.num \in 1..n /\ SearchedTo(s) \in 1..n /\ Canonical(AnchorPart(s.lower))
  BY <1>a, <1>b, <1>1, <1>2, <1>3
<1> HIDE DEF boundary
<1>5. last \in {boundary.num + MaxBlockRange, n} /\ last <= n
  <2>1. {boundary.num + MaxBlockRange, n} \subseteq Nat
    BY <1>b, <1>4, InspectionAssumption
  <2> QED
    BY <2>1, MinNat
<1>6. last \in 1..n
  BY <1>b, <1>4, <1>5, InspectionAssumption
<1> HIDE DEF last
<1>7. CASE hits = {}
  <2>1. r = SearchResult(IF last > boundary.num THEN "not-found"
                                                ELSE "nothing-scanned",
                         AnchorOf(last), Exhausts(last, n))
    BY <1>0, <1>a, <1>b, <1>1, <1>2, <1>3, <1>7 DEF SearchReplacement, boundary, last
  <2>2. r.status = "not-found" /\ last > boundary.num
    BY <1>0, <2>1 DEF SearchResult
  <2>3. r.at = AnchorOf(last) /\ r.exhausted = (last = n)
    BY <2>1 DEF SearchResult, Exhausts
  <2>4. Unused(a.nonce, SearchedTo(s) + 1, last)
    BY <1>1, <1>7, <1>a DEF Unused, Scanned, boundary
  <2>5. SearchedTo(s) < last
    BY <1>1, <1>4, <1>6, <1>a, <2>2 DEF boundary
  <2> QED
    BY <1>0, <1>1, <1>6, <1>c, <2>2, <2>3, <2>4, <2>5
<1>8. CASE hits # {}
  <2>1. hits \subseteq Nat /\ hits \subseteq 1..n
    BY <1>4, <1>6 DEF Scanned
  <2>2. PICK k : k = Min(hits)
    OBVIOUS
  <2>3. k \in 1..n /\ chain[k].tx # None /\ chain[k].tx.nonce = a.nonce
    <3>1. k \in hits
      BY <1>8, <2>1, <2>2, MinNat
    <3> QED
      BY <2>1, <3>1
  <2>4. r = SearchResult(IF chain[k].tx = TxOf(a)
                         THEN "recorded-transaction-found"
                         ELSE "replacement-found",
                         AnchorOf(k), FALSE)
    BY <1>0, <1>a, <1>b, <1>1, <1>2, <1>3, <1>8, <2>2
       DEF SearchReplacement, boundary, last
  <2>5. /\ chain[k].tx # TxOf(a) /\ r.status = "replacement-found"
        /\ r.at = AnchorOf(k) /\ ~r.exhausted
    BY <1>0, <2>4 DEF SearchResult
  <2> QED
    BY <1>0, <1>1, <1>c, <2>3, <2>5
<1> QED
  BY <1>7, <1>8

\* A recovery pass searches only for a consumed nonce whose receipt is absent, and
\* a resolution is the receipt or the replacement it found.
LEMMA RecoveryTells ==
    ASSUME ChainTypeOK, NEW n \in 1..Len(chain), NEW s \in Snapshot, NEW served
    PROVE  LET a     == s.attempts[1]
               r     == InspectRecovery(s, n, served)
               found == SearchReplacement(a, ResolvedSearch(a, s.lastObs), n)
           IN  /\ \/ r.search = NoSearch
                  \/ /\ s.attempts # <<>> /\ r.search = found
                     /\ chain[n].nonce > a.nonce
                     /\ r.status = IF found.status = "replacement-found"
                                   THEN "resolution-available" ELSE "unresolved"
               /\ r.status = "resolution-available" =>
                    \/ /\ r.receipt = "verified"
                       /\ Receipt(a, n, served).status = "verified"
                    \/ /\ r.receipt # "verified" /\ r.search = found
                       /\ found.status = "replacement-found"
<1> DEFINE obs      == AnchoredNonce(n)
           a        == s.attempts[1]
           receipt  == Receipt(a, n, served)
           consumed == obs.nonce > a.nonce
           found    == SearchReplacement(a, ResolvedSearch(a, s.lastObs), n)
<1>0. PICK r : r = InspectRecovery(s, n, served)
  OBVIOUS
<1>1. obs.nonce \in Nat /\ s.durableNext \in Nat /\ obs.nonce = chain[n].nonce
  BY ReadsAreTyped, SnapshotFields DEF AnchoredNonce
<1>2. CASE obs.nonce < s.durableNext
  <2>1. ~(obs.nonce >= s.durableNext)
    BY <1>1, <1>2
  <2>2. r = [status |-> "nonce-behind-journal", obs |-> obs,
             receipt |-> None, search |-> NoSearch]
    BY <1>0, <1>2, <2>1, Zenon DEF InspectRecovery
  <2> QED
    BY <1>0, <2>2
<1>3. CASE obs.nonce >= s.durableNext /\ s.attempts = <<>>
  <2>1. ~(obs.nonce < s.durableNext)
    BY <1>1, <1>3
  <2>2. r = [status |-> "no-attempt", obs |-> obs,
             receipt |-> None, search |-> NoSearch]
    BY <1>0, <1>3, <2>1, Zenon DEF InspectRecovery
  <2> QED
    BY <1>0, <2>2
<1>4. CASE obs.nonce >= s.durableNext /\ s.attempts # <<>>
  <2>1. ~(obs.nonce < s.durableNext)
    BY <1>1, <1>4
  <2> DEFINE Result(status, search) == [status |-> status, obs |-> obs,
                               receipt |-> receipt.status, search |-> search]
  <2>2. r = CASE receipt.status = "verified" ->
                   Result(IF consumed THEN "resolution-available"
                          ELSE "inconsistent-observations", NoSearch)
              [] receipt.status = "included-not-durable" /\ consumed ->
                   Result("inconsistent-observations", NoSearch)
              [] receipt.status # "verified" /\ ~consumed ->
                   Result("unresolved", NoSearch)
              [] receipt.status = "absent" /\ consumed ->
                   Result(IF found.status = "replacement-found"
                          THEN "resolution-available"
                          ELSE "unresolved", found)
    BY <1>0, <1>4, <2>1, Zenon DEF InspectRecovery
  <2>3. receipt.status \in {"absent", "verified", "included-not-durable"}
    BY ReceiptStatus
  <2>4. NoSearch.status = "none"
    BY DEF NoSearch, SearchResult
  <2> HIDE DEF receipt, consumed, found, obs
  <2>5. \/ receipt.status = "verified"
           /\ r = Result(IF consumed THEN "resolution-available"
                         ELSE "inconsistent-observations", NoSearch)
        \/ r = Result("inconsistent-observations", NoSearch)
        \/ r = Result("unresolved", NoSearch)
        \/ receipt.status = "absent" /\ consumed
           /\ r = Result(IF found.status = "replacement-found"
                         THEN "resolution-available" ELSE "unresolved", found)
    BY <2>2, <2>3
  <2>6. /\ \/ r.search = NoSearch
           \/ /\ r.search = found /\ consumed
              /\ r.status = IF found.status = "replacement-found"
                            THEN "resolution-available" ELSE "unresolved"
        /\ r.status = "resolution-available" =>
             \/ r.receipt = "verified" /\ receipt.status = "verified"
             \/ /\ r.receipt # "verified" /\ r.search = found
                /\ found.status = "replacement-found"
    BY <2>5
  <2> QED
    BY <1>0, <1>1, <1>4, <2>6 DEF receipt, consumed, found, obs
<1> QED
  BY <1>1, <1>2, <1>3, <1>4

-----------------------------------------------------------------------------
(* What holds of the coordinator.                                          *)

LEMMA AuthorityInvariance == Spec => []AInv
<1>1. Init => AInv
  BY InitHasNoAuthority
<1>2. AInv /\ [Next]_vars => AInv'
  BY AuthorityPreserves
<1> QED
  BY <1>1, <1>2, PTL DEF Spec

\* Every attempt but the newest is marked, so nothing waits behind an unsent nonce.
LEMMA NothingIsStranded == AInv => NoStrandedNonce
<1> SUFFICES ASSUME AInv, disk # None,
                    NEW j \in 1..Len(disk.attempts), disk.attempts[j].phase # "signed",
                    NEW i \in 1..j
             PROVE  disk.attempts[i].phase # "signed"
  BY DEF NoStrandedNonce
<1>1. Len(disk.attempts) \in Nat
  BY Held, SnapshotFields
<1>2. OnlyLastUnsent(disk)
  BY DEF AInv, AuthorityState, UnsentIsLast
<1>3. CASE i = j
  BY <1>3
<1>4. CASE i # j
  BY <1>1, <1>2, <1>4 DEF OnlyLastUnsent
<1> QED
  BY <1>3, <1>4

\* NoStrandedNonce: an attempt older than one that may have been sent was marked too,
\* so no transaction of the journal file waits behind a nonce that was never sent
\* (prepareAttempt requires every retained attempt to be included).
THEOREM NonceIsNeverStranded == Spec => []NoStrandedNonce
<1>1. AInv => NoStrandedNonce
  BY NothingIsStranded
<1> QED
  BY <1>1, AuthorityInvariance, PTL

\* AuthorityIsSound: when the gate is open, or a broadcast is permitted, the journal
\* in memory is the one in the file, and the attempts before the next nonce are in
\* canonical blocks as long as the block they were verified at is; with the gate open
\* the next nonce is exactly the observed account nonce (status.open, broadcastPermit).
THEOREM AuthorityStandsOnFacts == Spec => []AuthorityIsSound
<1>1. AInv => AuthorityIsSound
  BY AuthorityIsGrounded
<1> QED
  BY <1>1, AuthorityInvariance, PTL

\* GroundsAreSound: besides, what an inclusion pass inside an open head bracket
\* recorded was observed at the head the cycle opened (openHead, checkInclusionsOwned).
THEOREM GroundsStand == Spec => []GroundsAreSound
<1>1. AInv => GroundsAreSound
  <2> SUFFICES ASSUME AInv PROVE BracketBindsObservation
    BY AuthorityIsGrounded DEF GroundsAreSound
  <2> QED
    BY Parts DEF Grounds, BracketBindsObservation
<1> QED
  BY <1>1, AuthorityInvariance, PTL

\* AuthorityByInspection: the gate opens, and a permit appears, only in the step that
\* finishes an inspection or ends a preparation: no abandoned inspection, retried
\* write, restart or change of the chain grants anything (completeAbandonment).
THEOREM AuthorityIsInspected == Spec => AuthorityByInspection
<1>1. AInv /\ [Next]_vars =>
        [(~GateOpen /\ GateOpen') =>
           \/ owner # None /\ ~owner.abandoning /\ owner' = None
           \/ op # None /\ op.kind = "prepare" /\ current' = current]_vars
  BY GrantsAreInspected
<1>2. AInv /\ [Next]_vars =>
        [(~CanBroadcast /\ CanBroadcast') =>
           \/ owner # None /\ ~owner.abandoning /\ owner' = None
           \/ op # None /\ op.kind = "prepare" /\ permit' = op.permit]_vars
  BY GrantsAreInspected
<1> QED
  BY <1>1, <1>2, AuthorityInvariance, PTL
     DEF Spec, AuthorityByInspection, GateOpensByInspection, PermitByInspection

\* JournalOnlyAdvances: whatever a write, a crash or a lost answer leaves in the file,
\* no nonce counter falls, no evidence of unattributed activity is lost, and no
\* attempt is forgotten but the oldest one once its nonce is durably consumed.
THEOREM FileOnlyAdvances == Spec => JournalOnlyAdvances
<1>1. AInv /\ [Next]_vars =>
        [(disk # None /\ disk' # disk) =>
           /\ disk'.next >= disk.next
           /\ disk'.durableNext >= disk.durableNext
           /\ UnattributedIn(disk) => UnattributedIn(disk')
           /\ \A i \in 1..Len(disk.attempts) :
                \/ \E j \in 1..Len(disk'.attempts) :
                     TxOf(disk'.attempts[j]) = TxOf(disk.attempts[i])
                \/ i = 1 /\ disk.attempts[1].nonce < chain[durable].nonce]_vars
  BY FileAdvances DEF Advances
<1> QED
  BY <1>1, AuthorityInvariance, PTL DEF Spec, JournalOnlyAdvances

-----------------------------------------------------------------------------
(* The published status: the limit of retained attempts.                   *)

\* No snapshot outgrows the limit, and there is room while an attempt is signed.
FitsIn(s) == s # None => Len(s.attempts) <= MaxRetained

WithinLimit ==
    /\ \A s \in {disk, current, pending} : FitsIn(s)
    /\ (op # None /\ op.kind = "prepare" /\ op.stage = "sign") =>
         Len(current.attempts) < MaxRetained

\* No new snapshot appears, and no preparation starts.
LEMMA LimitFrame ==
    ASSUME WithinLimit,
           disk' \in {disk, pending}, current' \in {current, disk, pending, None},
           pending' \in {pending, None},
           \/ op' = op /\ current' = current
           \/ op' = None
           \/ op'.kind # "prepare" \/ op'.stage # "sign"
    PROVE  WithinLimit'
<1>1. \A s \in {disk, current, pending}' : FitsIn(s)
  BY DEF WithinLimit, FitsIn
<1>2. (\A s \in {disk, current, pending} : FitsIn(s))'
  BY <1>1 DEF FitsIn
<1> QED
  BY <1>2 DEF WithinLimit

\* A new one appears that is within the limit.
LEMMA LimitSaves ==
    ASSUME WithinLimit, UNCHANGED <<disk, current>>,
           NEW t, pending' = t, Len(t.attempts) <= MaxRetained,
           op'.stage # "sign"
    PROVE  WithinLimit'
<1>1. \A s \in {disk, current, pending}' : FitsIn(s)
  BY DEF WithinLimit, FitsIn
<1>2. (\A s \in {disk, current, pending} : FitsIn(s))'
  BY <1>1 DEF FitsIn
<1> QED
  BY <1>2 DEF WithinLimit

\* A snapshot that allocates no nonce has no more attempts than the one before.
LEMMA NoLonger ==
    ASSUME NEW s \in Snapshot, NEW t \in Snapshot, ValidSnapshot(s), ValidSnapshot(t),
           t.next = s.next, Keeps(s, t)
    PROVE  Len(t.attempts) <= Len(s.attempts)
<1>1. /\ s.next - s.durableNext = Len(s.attempts)
      /\ t.next - t.durableNext = Len(t.attempts)
      /\ t.durableNext >= s.durableNext
  BY DEF ValidSnapshot, Keeps
<1> QED
  BY <1>1, SnapshotFields

\* A recovery pass allocates none.
LEMMA RecoveryAllocatesNone ==
    ASSUME NEW s \in Snapshot, NEW r
    PROVE  RecoverySnapshot(s, r).next = s.next
  BY DEF RecoverySnapshot, Snapshot

LEMMA LimitPreserved == ReleaseInv /\ WithinLimit /\ [Next]_vars => WithinLimit'
<1> SUFFICES ASSUME ReleaseInv, WithinLimit, [Next]_vars PROVE WithinLimit'
  OBVIOUS
<1>0. /\ IInv /\ TypeOK /\ FileIsKnown /\ OperationState /\ ChainTypeOK
      /\ MaxRetained \in Nat
      /\ (current # None) =>
           current \in Snapshot /\ ValidSnapshot(current) /\ FitsIn(current)
      /\ op # None => op \in Op
  BY CoordinatorAssumption DEF ReleaseInv, IInv, TypeOK, AllValid, WithinLimit
<1>1. CASE Start
  BY <1>0, <1>1, LimitFrame DEF Start, FileIsKnown
<1>2. CASE Crash
  BY <1>2, LimitFrame DEF Crash, Down
<1>3. CASE WriteFails
  BY <1>3, LimitFrame DEF WriteFails
<1>4. CASE RetryPersistence
  BY <1>4, LimitFrame DEF RetryPersistence, Begin
<1>5. CASE RetryCommits
  BY <1>5, LimitFrame DEF RetryCommits, Committed
<1>6. CASE BeginInspection
  BY <1>6, LimitFrame DEF BeginInspection
<1>7. CASE FinishInspection
  BY <1>7, LimitFrame DEF FinishInspection
<1>8. CASE AbandonInspection
  BY <1>8, LimitFrame DEF AbandonInspection
<1>9. CASE CompleteAbandonment
  BY <1>9, LimitFrame DEF CompleteAbandonment
<1>10. CASE OpenHeadBegin
  BY <1>10, LimitFrame DEF OpenHeadBegin, Begin
<1>11. CASE OpenHeadEnd
  BY <1>11, LimitFrame DEF OpenHeadEnd
<1>12. CASE RecoverBegin
  BY <1>12, LimitFrame DEF RecoverBegin, Begin
<1>13. CASE RecoverGivesUp
  BY <1>13, LimitFrame DEF RecoverGivesUp
<1>14. CASE RecoverCommits
  BY <1>14, LimitFrame DEF RecoverCommits, Committed
<1>15. CASE InclusionsBegin
  BY <1>15, LimitFrame DEF InclusionsBegin, Begin
<1>16. CASE InclusionsGiveUp
  BY <1>16, LimitFrame DEF InclusionsGiveUp
<1>17. CASE InclusionsContradict
  BY <1>17, LimitFrame DEF InclusionsContradict, InclusionsContradictAt
<1>18. CASE InclusionsCommit
  BY <1>18, LimitFrame DEF InclusionsCommit, Committed
<1>19. CASE PrepareBegin
  <2>1. /\ GateOpen /\ UNCHANGED <<disk, current, pending>>
    BY <1>19 DEF PrepareBegin, PrepareBeginFor
  <2>2. Len(current.attempts) < MaxRetained
    BY <2>1 DEF GateOpen
  <2> QED
    BY <2>1, <2>2 DEF WithinLimit, FitsIn
<1>20. CASE PrepareRefused
  BY <1>20, LimitFrame DEF PrepareRefused
<1>21. CASE PrepareCommits
  BY <1>21, LimitFrame DEF PrepareCommits, Committed
<1>22. CASE BroadcastMarked
  <2>1. op \in Op
    BY <1>0, <1>22 DEF BroadcastMarked
  <2>2. op'.stage = "send"
    BY <1>22, <2>1 DEF BroadcastMarked, Op
  <2> QED
    BY <1>22, <2>2, LimitFrame DEF BroadcastMarked, Committed
<1>23. CASE BroadcastLost
  BY <1>23, LimitFrame DEF BroadcastLost
<1>24. CASE RecoverBootstraps
  <2>1. PICK n \in RecoveryAnchors : RecoverBootstrapsAt(n)
    BY <1>24 DEF RecoverBootstraps
  <2>2. /\ pending'.attempts = <<>> /\ UNCHANGED <<disk, current>>
        /\ op' = [op EXCEPT !.stage = "write"] /\ op \in Op
    BY <1>0, <2>1 DEF RecoverBootstrapsAt, Save, Reading
  <2>3. op'.stage = "write"
    BY <2>2 DEF Op
  <2>4. Len(pending'.attempts) <= MaxRetained
    BY <1>0, <2>2
  <2> QED
    BY <2>2, <2>3, <2>4, LimitSaves
<1>25. CASE RecoverInspects
  <2>1. PICK n \in RecoveryAnchors, served \in BOOLEAN : RecoverInspectsAt(n, served)
    BY <1>25 DEF RecoverInspects
  <2> DEFINE r == InspectRecovery(current, n, served)
             t == RecoverySnapshot(current, r)
  <2>2. /\ pending' = t /\ ValidSnapshot(t) /\ current # None
        /\ UNCHANGED <<disk, current>>
        /\ op' = [op EXCEPT !.stage = "write", !.permit = RecoveryPermit(current, r)]
        /\ op \in Op
    BY <1>0, <2>1 DEF RecoverInspectsAt, Save, Reading
  <2>3. n \in 1..Len(chain)
    BY <1>0 DEF ChainTypeOK, RecoveryAnchors
  <2>4. t \in Snapshot /\ Keeps(current, t)
    BY <1>0, <2>2, <2>3, RecoveryKeeps
  <2>5. t.next = current.next
    <3> HIDE DEF r
    <3> QED
      BY <1>0, <2>2, RecoveryAllocatesNone
  <2> HIDE DEF t, r
  <2>6. op'.stage = "write"
    BY <2>2 DEF Op
  <2>7. Len(t.attempts) <= Len(current.attempts)
    BY <1>0, <2>2, <2>4, <2>5, NoLonger
  <2>8. Len(t.attempts) <= MaxRetained
    BY <1>0, <2>2, <2>4, <2>7, SnapshotFields DEF FitsIn
  <2> QED
    BY <2>2, <2>6, <2>8, LimitSaves
<1>26. CASE InclusionsInspect
  <2>1. PICK n \in InclusionHeads, servedAt \in SUBSET (1..Len(current.attempts)) :
          InclusionsInspectAt(n, servedAt)
    BY <1>26 DEF InclusionsInspect
  <2> DEFINE r == InspectInclusions(current, n, servedAt)
             t == [current EXCEPT !.lastObs = ObservationToKeep(current, r.obs),
                                  !.attempts = r.attempts]
  <2>2. /\ pending' = t /\ ValidSnapshot(t)
        /\ UNCHANGED <<disk, current>>
        /\ op' = [op EXCEPT !.stage = "write", !.permit = r.permit,
                            !.complete = r.complete]
        /\ op \in Op /\ op.kind = "inclusions"
    BY <1>0, <2>1 DEF InclusionsInspectAt, Save, Reading
  <2>3. n \in 1..Len(chain) /\ current # None
    BY <1>0, <2>2, AbsentAssumption DEF InclusionHeads, OperationState
  <2>4. t \in Snapshot /\ Keeps(current, t)
    BY <1>0, <2>3, InclusionsKeep
  <2>5. t.next = current.next
    <3> HIDE DEF r
    <3> QED
      BY <1>0, <2>3 DEF Snapshot
  <2> HIDE DEF t, r
  <2>6. op'.stage = "write"
    BY <2>2 DEF Op
  <2>7. Len(t.attempts) <= Len(current.attempts)
    BY <1>0, <2>2, <2>3, <2>4, <2>5, NoLonger
  <2>8. Len(t.attempts) <= MaxRetained
    BY <1>0, <2>3, <2>4, <2>7, SnapshotFields DEF FitsIn
  <2> QED
    BY <2>2, <2>6, <2>8, LimitSaves
<1>27. CASE PrepareSigned
  <2> DEFINE a == [id |-> op.permit, nonce |-> current.next, phase |-> "signed",
                   incl |-> None, seen |-> None,
                   search |-> [lower |-> current.lastObs, through |-> None]]
             t == [current EXCEPT !.next = @ + 1, !.attempts = Append(@, a)]
  <2>1. /\ pending' = t /\ UNCHANGED <<disk, current>>
        /\ op # None /\ op.kind = "prepare" /\ op.stage = "sign"
        /\ op' = [op EXCEPT !.stage = "write"]
    BY <1>27 DEF PrepareSigned, Save
  <2>2. current # None /\ current \in Snapshot /\ Len(current.attempts) < MaxRetained
    BY <1>0, <2>1 DEF OperationState, WithinLimit
  <2> HIDE DEF a
  <2>3. t.attempts = Append(current.attempts, a)
    BY <2>2 DEF Snapshot
  <2>4. Len(t.attempts) = Len(current.attempts) + 1
    BY <2>2, <2>3, SnapshotFields
  <2>5. op'.stage = "write"
    BY <1>0, <2>1 DEF Op
  <2>6. Len(t.attempts) <= MaxRetained
    BY <1>0, <2>2, <2>4, SnapshotFields
  <2> HIDE DEF t
  <2> QED
    BY <2>1, <2>5, <2>6, LimitSaves
<1>28. CASE BroadcastBegin
  <2> DEFINE i == FirstUnresolved(current.attempts)
             t == [current EXCEPT
                     !.attempts[i].phase = "broadcast-may-have-occurred",
                     !.attempts[i].incl = None, !.attempts[i].seen = None]
  <2>1. /\ UNCHANGED <<disk, current>> /\ CanBroadcast
        /\ op'.kind = "broadcast" /\ op'.stage \in {"write", "send"}
        /\ pending' = pending \/ (pending' = t /\ ValidSnapshot(t))
    BY <1>28 DEF BroadcastBegin, Save
  <2>2. CASE pending' = pending
    BY <2>1, <2>2, LimitFrame
  <2>3. CASE pending' = t /\ ValidSnapshot(t)
    <3>1. current # None /\ i # 0
      BY <2>1 DEF CanBroadcast
    <3>2. t \in Snapshot /\ Keeps(current, t)
      BY <1>0, <3>1, MarkKeeps
    <3>3. t.next = current.next
      <4> HIDE DEF i
      <4> QED
        BY <1>0, <3>1 DEF Snapshot
    <3> HIDE DEF t, i
    <3>4. Len(t.attempts) <= Len(current.attempts)
      BY <1>0, <2>3, <3>1, <3>2, <3>3, NoLonger
    <3>5. Len(t.attempts) <= MaxRetained
      BY <1>0, <3>1, <3>2, <3>4, SnapshotFields DEF FitsIn
    <3> QED
      BY <2>1, <2>3, <3>5, LimitSaves
  <2> QED
    BY <2>1, <2>2, <2>3
<1>29. CASE BroadcastSend
  BY <1>29, LimitFrame DEF BroadcastSend
<1>30. CASE ChainNext /\ UNCHANGED <<disk, memVars>>
  BY <1>30, LimitFrame DEF memVars
<1>31. CASE UNCHANGED vars
  BY <1>31, LimitFrame DEF vars, memVars
<1> QED
  BY <1>1, <1>2, <1>3, <1>4, <1>5, <1>6, <1>7, <1>8, <1>9, <1>10, <1>11,
     <1>12, <1>13, <1>14, <1>15, <1>16, <1>17, <1>18, <1>19, <1>20, <1>21,
     <1>22, <1>23, <1>24, <1>25, <1>26, <1>27, <1>28, <1>29, <1>30, <1>31 DEF
     Next, Process, Persistence, Inspection, Recovery, Inclusion, Submission

-----------------------------------------------------------------------------
(* The published status: what the projection shows.                        *)

LEMMA MinOf ==
    ASSUME NEW x \in Nat, NEW y \in Nat
    PROVE  Min({x, y}) = IF x <= y THEN x ELSE y
<1>1. {x, y} \subseteq Nat /\ {x, y} # {}
  OBVIOUS
<1>2. Min({x, y}) \in {x, y} /\ \A z \in {x, y} : Min({x, y}) <= z
  BY <1>1, MinNat
<1> QED
  BY <1>2

LEMMA OnlyOne ==
    ASSUME NEW k \in Nat
    PROVE  Min({k}) = k /\ Max({k}) = k
<1>1. Min({k}) = k
  BY MinNat
<1>2. \E x \in {k} : \A y \in {k} : x >= y
  OBVIOUS
<1>3. Max({k}) \in {k}
  BY <1>2 DEF Max
<1> QED
  BY <1>1, <1>3

\* One detail is shown: the oldest unresolved attempt, or the oldest attempt when
\* every attempt is included; and the counts of what is shown add up.
LEMMA OneDetail ==
    ASSUME NEW q \in Seq(Attempt), q # <<>>
    PROVE  \E k \in Places(q) :
             /\ Selected(q) = {k}
             /\ Open(q) # {} => k \in Open(q)
             /\ Open(q) = {} => k = 1
             /\ Resolved(q) = {} => k = 1
<1>1. /\ Len(q) \in Nat \ {0} /\ Places(q) \subseteq Nat
      /\ IsFiniteSet(Places(q)) /\ 1 \in Places(q)
  <2>1. Len(q) \in Nat \ {0}
    BY LenProperties, EmptySeq
  <2> QED
    BY <2>1, FS_Interval DEF Places
<1>2. ASSUME NEW i \in Places(q)
      PROVE  Cardinality(Ahead(q, i)) < MaxDetails <=> Ahead(q, i) = {}
  <2>1. Ahead(q, i) \subseteq Places(q)
    BY DEF Ahead, Open, Resolved
  <2>2. IsFiniteSet(Ahead(q, i))
    BY <1>1, <2>1, FS_Subset
  <2>3. Cardinality(Ahead(q, i)) \in Nat
    BY <2>2, FS_CardinalityType
  <2>4. Cardinality(Ahead(q, i)) = 0 <=> Ahead(q, i) = {}
    BY <2>2, FS_EmptySet
  <2> QED
    BY <2>3, <2>4 DEF MaxDetails
<1>3. Selected(q) = {i \in Places(q) : Ahead(q, i) = {}}
  BY <1>2 DEF Selected
<1>4. Open(q) \cup Resolved(q) = Places(q) /\ Open(q) \cap Resolved(q) = {}
  BY DEF Open, Resolved
<1>5. CASE Open(q) = {}
  <2>1. \A i \in Places(q) : Ahead(q, i) = {j \in Places(q) : j < i}
    BY <1>4, <1>5 DEF Ahead
  <2>2. Ahead(q, 1) = {}
    BY <1>1, <2>1 DEF Places
  <2>3. \A i \in Places(q) : i # 1 => 1 \in Ahead(q, i)
    BY <1>1, <2>1 DEF Places
  <2>4. Selected(q) = {1}
    BY <1>1, <1>3, <2>2, <2>3
  <2> QED
    BY <1>1, <1>5, <2>4
<1>6. CASE Open(q) # {}
  <2> DEFINE k == Min(Open(q))
  <2>1. k \in Open(q) /\ \A j \in Open(q) : k <= j
    BY <1>1, <1>4, <1>6, MinNat
  <2> HIDE DEF k
  <2>2. k \in Places(q) /\ k \in Nat /\ \A j \in Open(q) : j \in Nat
    BY <1>1, <1>4, <2>1
  <2>3. Ahead(q, k) = {}
    <3>1. \A j \in Open(q) : ~(j < k)
      BY <2>1, <2>2
    <3> QED
      BY <2>1, <3>1 DEF Ahead
  <2>4. \A i \in Places(q) : i # k => k \in Ahead(q, i)
    BY <1>4, <2>1, <2>2 DEF Ahead
  <2>5. Selected(q) = {k}
    BY <1>3, <2>2, <2>3, <2>4
  <2>6. Resolved(q) = {} => k = 1
    BY <1>1, <1>4, <2>1, <2>2 DEF Places
  <2> QED
    BY <1>6, <2>1, <2>2, <2>5, <2>6
<1> QED
  BY <1>5, <1>6

\* The resolved and the open attempts are counted.
LEMMA Counted ==
    ASSUME NEW q \in Seq(Attempt)
    PROVE  /\ Len(q) \in Nat /\ Cardinality(Places(q)) = Len(q)
           /\ Cardinality(Resolved(q)) \in 0..Len(q)
           /\ Open(q) = {} => Cardinality(Resolved(q)) = Len(q)
           /\ Open(q) # {} => Cardinality(Resolved(q)) <= Len(q) - 1
           /\ Cardinality(Resolved(q)) = 0 <=> Resolved(q) = {}
<1>1. /\ Len(q) \in Nat /\ IsFiniteSet(Places(q))
      /\ Cardinality(Places(q)) = Len(q)
  <2>1. Len(q) \in Nat
    BY LenProperties
  <2> QED
    BY <2>1, FS_Interval DEF Places
<1>2. /\ IsFiniteSet(Resolved(q)) /\ Cardinality(Resolved(q)) <= Len(q)
      /\ Cardinality(Resolved(q)) \in Nat
  <2>1. Resolved(q) \in SUBSET Places(q)
    BY DEF Resolved
  <2> QED
    BY <1>1, <2>1, FS_Subset, FS_CardinalityType
<1>3. Open(q) = {} => Resolved(q) = Places(q)
  BY DEF Open, Resolved
<1>4. ASSUME Open(q) # {}
      PROVE  Cardinality(Resolved(q)) <= Len(q) - 1
  <2>1. Resolved(q) # Places(q)
    BY <1>4 DEF Open, Resolved
  <2>2. Resolved(q) \in SUBSET Places(q)
    BY DEF Resolved
  <2>3. Cardinality(Resolved(q)) # Cardinality(Places(q))
    BY <1>1, <2>1, <2>2, FS_Subset
  <2> QED
    BY <1>1, <1>2, <2>3
<1>5. Cardinality(Resolved(q)) = 0 <=> Resolved(q) = {}
  BY <1>2, FS_EmptySet
<1> QED
  BY <1>1, <1>2, <1>3, <1>4, <1>5

-----------------------------------------------------------------------------
(* The published status: the reader accepts it.                            *)

\* What the published attempts are known to be: a valid journal within the limit.
Publishable(q) ==
    /\ q \in Seq(Attempt) /\ Len(q) \in Nat /\ Len(q) <= MaxRetained
    /\ \A i, j \in Places(q) :
         i < j => /\ q[i].id # q[j].id
                  /\ WorkOf[q[i].id] # WorkOf[q[j].id]
    /\ \E first \in Nat : \A i \in Places(q) : q[i].nonce = first + i - 1

LEMMA AttemptsAccepted ==
    ASSUME NEW q, Publishable(q)
    PROVE  /\ AcceptsAttempts(q, Places(q), MaxRetained)
           /\ AcceptsAttempts(q, Selected(q), MaxDetails)
<1>1. \A i, j \in Places(q) :
        i < j => /\ q[i].id # q[j].id
                 /\ WorkOf[q[i].id] # WorkOf[q[j].id]
                 /\ q[i].nonce < q[j].nonce
  <2>1. PICK first \in Nat : \A i \in Places(q) : q[i].nonce = first + i - 1
    BY DEF Publishable
  <2>2. \A i \in Places(q) : i \in Nat
    BY DEF Places
  <2>3. \A i, j \in Places(q) : i < j => q[i].nonce < q[j].nonce
    BY <2>1, <2>2
  <2> QED
    BY <2>3 DEF Publishable
<1>2. Selected(q) \subseteq Places(q)
  BY DEF Selected
<1>3. Cardinality(Places(q)) <= MaxRetained
  BY Counted DEF Publishable
<1>4. Cardinality(Selected(q)) <= MaxDetails
  <2>1. CASE q = <<>>
    <3>1. Selected(q) = {}
      BY <2>1 DEF Selected, Places
    <3> QED
      BY <3>1, FS_EmptySet DEF MaxDetails
  <2>2. CASE q # <<>>
    <3>1. PICK k \in Places(q) : Selected(q) = {k}
      BY <2>2, OneDetail DEF Publishable
    <3>2. Cardinality(Selected(q)) = 1
      BY <3>1, FS_Singleton
    <3> QED
      BY <3>2 DEF MaxDetails
  <2> QED
    BY <2>1, <2>2
<1> QED
  BY <1>1, <1>2, <1>3, <1>4 DEF AcceptsAttempts

\* The fields of the summary.
LEMMA SummaryIs ==
    ASSUME NEW q
    PROVE  LET sum == Summary(q)
           IN  /\ sum.retained = Len(q)
               /\ sum.included = Cardinality(Resolved(q))
               /\ sum.unresolved = Len(q) - Cardinality(Resolved(q))
               /\ sum.lowest = IF Len(q) = 0 THEN None ELSE q[1].nonce
               /\ sum.highest = IF Len(q) = 0 THEN None ELSE q[Len(q)].nonce
               /\ sum.detailed = Cardinality(Selected(q))
               /\ sum.omitted = Len(q) - Cardinality(Selected(q))
  BY DEF Summary

LEMMA NothingAccepted ==
    ASSUME NEW q, Publishable(q), q = <<>>
    PROVE  /\ AcceptsCounts(Summary(q), q, Selected(q))
           /\ AcceptsRange(Summary(q), q, Selected(q))
<1>1. Len(q) = 0 /\ Selected(q) = {} /\ Resolved(q) = {}
  BY DEF Selected, Places, Resolved
<1>2. Cardinality({}) = 0
  BY FS_EmptySet
<1> DEFINE sum == Summary(q)
<1>3. /\ sum.retained = 0 /\ sum.included = 0 /\ sum.unresolved = 0
      /\ sum.detailed = 0 /\ sum.omitted = 0 /\ sum.lowest = None
      /\ sum.highest = None
  <2>1. Cardinality(Resolved(q)) = 0 /\ Cardinality(Selected(q)) = 0
    BY <1>1, <1>2
  <2>2. /\ sum.retained = Len(q)
        /\ sum.included = Cardinality(Resolved(q))
        /\ sum.unresolved = Len(q) - Cardinality(Resolved(q))
        /\ sum.lowest = IF Len(q) = 0 THEN None ELSE q[1].nonce
        /\ sum.highest = IF Len(q) = 0 THEN None ELSE q[Len(q)].nonce
        /\ sum.detailed = Cardinality(Selected(q))
        /\ sum.omitted = Len(q) - Cardinality(Selected(q))
    BY SummaryIs
  <2> HIDE DEF sum
  <2> QED
    BY <1>1, <2>1, <2>2
<1>4. MaxRetained \in Nat
  BY CoordinatorAssumption
<1>5. Min({0, 0}) = 0 /\ Min({0, MaxDetails}) = 0
  BY MinOf DEF MaxDetails
<1>6. {i \in Selected(q) : q[i].phase # "included"} = {}
  BY <1>1
<1> HIDE DEF sum
<1>7. AcceptsCounts(sum, q, Selected(q))
  <2>1. Cardinality(Selected(q)) = 0
    BY <1>1, <1>2
  <2>2. Cardinality({i \in Selected(q) : q[i].phase # "included"}) = 0
    BY <1>2, <1>6
  <2> QED
    BY <1>3, <1>4, <1>5, <2>1, <2>2 DEF AcceptsCounts
<1>8. AcceptsRange(sum, q, Selected(q))
  BY <1>3 DEF AcceptsRange
<1> QED
  BY <1>7, <1>8 DEF sum

LEMMA CountsAccepted ==
    ASSUME NEW q, Publishable(q), q # <<>>
    PROVE  AcceptsCounts(Summary(q), q, Selected(q))
<1>1. PICK k \in Places(q) :
             /\ Selected(q) = {k}
             /\ Open(q) # {} => k \in Open(q)
             /\ Open(q) = {} => k = 1
             /\ Resolved(q) = {} => k = 1
  BY OneDetail DEF Publishable
<1>2. PICK len \in Nat : len = Len(q)
  BY DEF Publishable
<1>3. PICK resolved \in 0..len : resolved = Cardinality(Resolved(q))
  BY <1>2, Counted DEF Publishable
<1>4. /\ len >= 1 /\ len <= MaxRetained /\ MaxRetained \in Nat
      /\ Open(q) = {} => resolved = len
      /\ Open(q) # {} => resolved <= len - 1
  BY <1>2, <1>3, Counted, EmptySeq, CoordinatorAssumption DEF Publishable
<1>5. Cardinality(Selected(q)) = 1
  BY <1>1, FS_Singleton
<1> DEFINE sum  == Summary(q)
           open == {i \in Selected(q) : q[i].phase # "included"}
<1>6. /\ sum.retained = len /\ sum.included = resolved
      /\ sum.unresolved = len - resolved
      /\ sum.detailed = 1 /\ sum.omitted = len - 1
  BY <1>2, <1>3, <1>5, SummaryIs
<1> HIDE DEF sum
<1>7. sum.detailed = Min({sum.retained, MaxDetails})
  BY <1>4, <1>6, MinOf DEF MaxDetails
<1>8. CASE Open(q) = {}
  <2>1. open = {}
    BY <1>1, <1>8 DEF Open
  <2>2. Cardinality(open) = 0
    BY <2>1, FS_EmptySet
  <2>3. Min({sum.unresolved, sum.detailed}) = 0
    BY <1>4, <1>6, <1>8, MinOf
  <2> HIDE DEF open
  <2>4. /\ Cardinality(open) = Min({sum.unresolved, sum.detailed})
        /\ Cardinality(Selected(q)) - Cardinality(open) <= sum.included
    BY <1>4, <1>5, <1>6, <1>8, <2>2, <2>3
  <2> QED
    BY <1>3, <1>4, <1>5, <1>6, <1>7, <2>4 DEF AcceptsCounts, open, sum
<1>9. CASE Open(q) # {}
  <2>1. open = {k}
    BY <1>1, <1>9 DEF Open
  <2>2. Cardinality(open) = 1
    BY <2>1, FS_Singleton
  <2>3. Min({sum.unresolved, sum.detailed}) = 1
    <3>1. sum.unresolved \in Nat /\ sum.unresolved >= 1
      BY <1>3, <1>4, <1>6, <1>9
    <3> QED
      BY <1>6, <3>1, MinOf
  <2> HIDE DEF open
  <2>4. /\ Cardinality(open) = Min({sum.unresolved, sum.detailed})
        /\ Cardinality(Selected(q)) - Cardinality(open) <= sum.included
    BY <1>4, <1>5, <1>6, <2>2, <2>3
  <2> QED
    BY <1>3, <1>4, <1>5, <1>6, <1>7, <2>4 DEF AcceptsCounts, open, sum
<1> QED
  BY <1>8, <1>9

LEMMA RangeAccepted ==
    ASSUME NEW q, Publishable(q), q # <<>>
    PROVE  AcceptsRange(Summary(q), q, Selected(q))
<1>1. PICK k \in Places(q) :
             /\ Selected(q) = {k}
             /\ Open(q) # {} => k \in Open(q)
             /\ Open(q) = {} => k = 1
             /\ Resolved(q) = {} => k = 1
  BY OneDetail DEF Publishable
<1>2. PICK len \in Nat : len = Len(q)
  BY DEF Publishable
<1>3. PICK resolved \in 0..len : resolved = Cardinality(Resolved(q))
  BY <1>2, Counted DEF Publishable
<1>4. /\ len >= 1 /\ 1 \in Places(q) /\ len \in Places(q) /\ k \in 1..len
      /\ Open(q) # {} => resolved <= len - 1
      /\ resolved = 0 => Resolved(q) = {}
  BY <1>2, <1>3, Counted, EmptySeq DEF Publishable, Places
<1>5. PICK first \in Nat : \A i \in Places(q) : q[i].nonce = first + i - 1
  BY DEF Publishable
<1>6. q[1].nonce = first /\ q[len].nonce = first + len - 1
      /\ q[k].nonce = first + k - 1
  BY <1>4, <1>5
<1>7. Cardinality(Selected(q)) = 1
  BY <1>1, FS_Singleton
<1> DEFINE sum  == Summary(q)
<1>8. /\ sum.retained = len /\ sum.included = resolved
      /\ sum.unresolved = len - resolved /\ sum.omitted = len - 1
      /\ sum.lowest = first /\ sum.highest = first + len - 1
  <2>1. /\ sum.retained = Len(q)
        /\ sum.included = Cardinality(Resolved(q))
        /\ sum.unresolved = Len(q) - Cardinality(Resolved(q))
        /\ sum.lowest = IF Len(q) = 0 THEN None ELSE q[1].nonce
        /\ sum.highest = IF Len(q) = 0 THEN None ELSE q[Len(q)].nonce
        /\ sum.omitted = Len(q) - Cardinality(Selected(q))
    BY SummaryIs
  <2> HIDE DEF sum
  <2>2. Len(q) = len /\ Len(q) # 0
    BY <1>2, <1>4
  <2> QED
    BY <1>3, <1>6, <1>7, <2>1, <2>2
<1>9. Min(Selected(q)) = k /\ Max(Selected(q)) = k
  BY <1>1, <1>4, OnlyOne
<1> HIDE DEF sum
<1>10. (sum.omitted = 0 \/ sum.unresolved = 0 \/ sum.included = 0) => k = 1
  <2>1. sum.omitted = 0 => k = 1
    BY <1>4, <1>8
  <2>2. sum.unresolved = 0 => k = 1
    BY <1>1, <1>3, <1>4, <1>8
  <2>3. sum.included = 0 => k = 1
    BY <1>1, <1>4, <1>8
  <2> QED
    BY <2>1, <2>2, <2>3
<1>11. sum.omitted = 0 => k = len
  BY <1>4, <1>8
<1>12. \A i \in Selected(q) :
         sum.lowest <= q[i].nonce /\ q[i].nonce <= sum.highest
  BY <1>1, <1>4, <1>6, <1>8
<1> QED
  BY <1>2, <1>4, <1>6, <1>8, <1>9, <1>10, <1>11, <1>12 DEF AcceptsRange, sum

\* An open gate has no reason against it.
LEMMA GateAccepted ==
    ASSUME IInv
    PROVE  AcceptsGate(Status)
<1>1. ASSUME GateOpen
      PROVE  Reasons = {}
  <2>1. /\ blockers = {} /\ pstate # "failed" /\ recovered /\ inclusions
        /\ current # None /\ FirstUnresolved(current.attempts) = 0
        /\ Len(current.attempts) < MaxRetained
    BY <1>1 DEF GateOpen
  <2>2. Len(current.attempts) \in Nat /\ MaxRetained \in Nat
    BY <2>1, SnapshotFields, CoordinatorAssumption DEF IInv, TypeOK
  <2>3. ~(Len(current.attempts) >= MaxRetained)
    BY <2>1, <2>2
  <2> QED
    BY <2>1, <2>3 DEF Reasons
<1>2. /\ Status.primary = First(Status.reasons) /\ Status.reasons = Reasons
      /\ Status.open = GateOpen /\ Status.initialized = (current # None)
      /\ Status.recovered = recovered /\ Status.inclusions = inclusions
      /\ Status.persistence = pstate
  BY DEF Status
<1>3. GateOpen => /\ current # None /\ recovered /\ inclusions
                  /\ pstate = "idle"
  BY DEF GateOpen
<1> QED
  BY <1>1, <1>2, <1>3 DEF AcceptsGate

\* What is published of the attempts is what the journal in memory retains.
PublishedAttempts == IF current = None THEN <<>> ELSE current.attempts

LEMMA JournalIsPublishable ==
    ASSUME IInv, WithinLimit
    PROVE  Publishable(PublishedAttempts)
<1>1. CASE current = None
  <2>1. PublishedAttempts = <<>> /\ Places(<<>>) = {}
    BY <1>1 DEF PublishedAttempts, Places
  <2>2. MaxRetained \in Nat /\ Len(<<>>) = 0 /\ <<>> \in Seq(Attempt)
    BY CoordinatorAssumption, EmptySeq
  <2>3. 0 \in Nat
    OBVIOUS
  <2> QED
    BY <2>1, <2>2, <2>3 DEF Publishable
<1>2. CASE current # None
  <2>1. /\ current \in Snapshot /\ ValidSnapshot(current)
        /\ Len(current.attempts) <= MaxRetained
    BY <1>2 DEF IInv, TypeOK, AllValid, WithinLimit, FitsIn
  <2>2. PublishedAttempts = current.attempts
    BY <1>2 DEF PublishedAttempts
  <2>3. \A i, j \in Places(current.attempts) :
          i < j => /\ current.attempts[i].id # current.attempts[j].id
                   /\ WorkOf[current.attempts[i].id] # WorkOf[current.attempts[j].id]
    <3>1. \A i \in Places(current.attempts) : i \in Nat
      BY DEF Places
    <3> QED
      BY <2>1, <3>1 DEF ValidSnapshot, Places
  <2>4. /\ current.durableNext \in Nat
        /\ \A i \in Places(current.attempts) :
             current.attempts[i].nonce = current.durableNext + i - 1
    BY <2>1, SnapshotFields DEF ValidSnapshot, Places
  <2> QED
    BY <2>1, <2>2, <2>3, <2>4, SnapshotFields DEF Publishable
<1> QED
  BY <1>1, <1>2

\* Nothing retained: whatever escaped has a released nonce, which is durable.
LEMMA NothingIsOut ==
    ASSUME ReleaseInv, up, current # None, Len(current.attempts) = 0,
           NEW t \in escaped
    PROVE  t.nonce < chain[durable].nonce
<1>1. current \in Snapshot /\ Records(current) /\ t \in Tx /\ ChainTypeOK
  BY DEF ReleaseInv, IInv, TypeOK, AllRecord, ChainTypeOK
<1>2. Marked(current) = {}
  BY DEF Marked
<1>3. ~(t.nonce >= current.durableNext)
  BY <1>1, <1>2 DEF Records
<1>4. current.durableNext <= chain[durable].nonce
  BY DEF ReleaseInv, ResolutionIsDurable
<1>5. /\ t.nonce \in Nat /\ current.durableNext \in Nat
      /\ chain[durable].nonce \in Nat
  BY <1>1, SnapshotFields, ReadsAreTyped DEF Tx, ChainTypeOK
<1> QED
  BY <1>3, <1>4, <1>5

LEMMA StatusIsAccepted ==
    ASSUME ReleaseInv, WithinLimit
    PROVE  StatusIsHonest
<1> DEFINE q == PublishedAttempts
<1>1. IInv
  BY DEF ReleaseInv
<1>2. Publishable(q)
  BY <1>1, JournalIsPublishable
<1>3. /\ Status.population = q /\ Status.details = Selected(q)
      /\ Status.summary = Summary(q) /\ Status.initialized = (current # None)
  BY DEF Status, PublishedAttempts
<1>4. Summary(q).retained = Len(q)
  BY SummaryIs
<1>5. current = None => Len(q) = 0
  BY DEF PublishedAttempts
<1>6. current # None => q = current.attempts
  BY DEF PublishedAttempts
<1> HIDE DEF q
<1>7. /\ AcceptsAttempts(q, Places(q), MaxRetained)
      /\ AcceptsAttempts(q, Selected(q), MaxDetails)
  BY <1>2, AttemptsAccepted
<1>8. /\ AcceptsCounts(Summary(q), q, Selected(q))
      /\ AcceptsRange(Summary(q), q, Selected(q))
  BY <1>2, NothingAccepted, CountsAccepted, RangeAccepted
<1>9. Accepts(Status)
  BY <1>1, <1>3, <1>4, <1>5, <1>7, <1>8, GateAccepted DEF Accepts
<1>10. ASSUME up, Status.initialized, Status.summary.retained = 0,
              NEW t \in escaped
       PROVE  t.nonce < chain[durable].nonce
  <2>1. current # None /\ Len(current.attempts) = 0
    BY <1>3, <1>4, <1>6, <1>10
  <2> QED
    BY <1>10, <2>1, NothingIsOut
<1> QED
  BY <1>9, <1>10 DEF StatusIsHonest

\* No snapshot in memory or in the file ever holds more attempts than the next start
\* accepts: no pass adds one, and a preparation begins only with room for one more
\* and keeps the journal to itself until it has ended (inspectJournalBounds).
THEOREM JournalStaysWithinLimit == Spec => []WithinLimit
<1>1. Init => AInv /\ WithinLimit
  <2>1. Init => WithinLimit
    BY DEF Init, WithinLimit, FitsIn
  <2> QED
    BY <2>1, InitHasNoAuthority
<1>2. AInv /\ WithinLimit /\ [Next]_vars => AInv' /\ WithinLimit'
  BY AuthorityPreserves, LimitPreserved DEF AInv
<1> QED
  BY <1>1, <1>2, PTL DEF Spec

\* StatusIsHonest: whenever it is captured, in the middle of an operation too, what
\* the daemon publishes of the signer passes the reader's checks; and when it shows no
\* retained attempt, every transaction that left has a durably consumed nonce
\* (readSignerRuntimeObservation, projectDaemonStatusAttempts, readDaemonStatusSnapshot).
THEOREM StatusCanBeReliedOn == Spec => []StatusIsHonest
<1>1. AInv /\ WithinLimit => StatusIsHonest
  BY StatusIsAccepted DEF AInv
<1> QED
  BY <1>1, AuthorityInvariance, JournalStaysWithinLimit, PTL
=============================================================================
