---------------------------- MODULE NonceSyncProofs ----------------------------
(***************************************************************************)
(* What the signer concludes about other holders of its key, and how the   *)
(* sync-nonce command repairs a journal after them: proofs about           *)
(* SignerCoordinator, ResolutionEvidence and NonceSync, for every set of   *)
(* attempts, every search range and every bound on the chain.              *)
(***************************************************************************)
EXTENDS SignerCoordinatorProofs, NonceSync, ResolutionEvidence

(***************************************************************************)
(* The inductive invariant, beyond that of SignerCoordinatorProofs.          *)
(***************************************************************************)

\* An observation of the account: true as long as its block is canonical.
Seen(o) ==
    /\ o.hash <= minted
    /\ Canonical(AnchorPart(o)) => chain[o.num].nonce = o.nonce

\* A recorded search began where the nonce was free, has scanned durable blocks
\* only, and found nothing in them.
Scanning(nonce, q) ==
    q # None =>
        /\ Seen(q.lower)
        /\ q.through # None =>
             /\ q.through.num <= durable
             /\ Canonical(q.through)
             /\ Canonical(AnchorPart(q.lower))
             /\ Unused(nonce, q.lower.num + 1, q.through.num)

Searched(a) == Scanning(a.nonce, a.search)

Supported(s) ==
    /\ Seen(s.lastObs)
    /\ \A i \in 1..Len(s.attempts) : Searched(s.attempts[i])

\* In a durable block the account moved on from this nonce or a later one, with no
\* transaction.
Gap(nonce) ==
    \E k \in 2..durable :
        /\ chain[k].tx = None
        /\ chain[k].nonce > chain[k - 1].nonce
        /\ chain[k - 1].nonce >= nonce

AllSupported == \A s \in {disk, current, pending} : s # None => Supported(s)

\* An exhausted search, latched or about to be, is about an unreleased nonce.
Exhaustion ==
    /\ Exhausted \in blockers => up /\ current # None /\ Gap(current.durableNext)
    /\ pending # None =>
         /\ write.kind = "search-progress" /\ write.exhausted =>
              Gap(pending.durableNext)
         /\ current # None /\ write.kind # "resolution" =>
              pending.durableNext = current.durableNext
    /\ op # None /\ op.kind = "broadcast" => blockers = {}

EInv == AInv /\ Steps /\ AllSupported /\ Exhaustion

\* A repair in progress: the daemon is down, and what is about to be written was
\* read at a durable block and is ahead of the file.
Repairing ==
    sync # None =>
        /\ sync \in Sync
        /\ ~up /\ disk # None /\ sync.base = disk /\ disk.attempts = <<>>
        /\ sync.stage = "save" =>
             /\ sync.plan # None /\ ValidSnapshot(sync.plan)
             /\ sync.plan.attempts = <<>>
             /\ sync.plan.next = sync.plan.lastObs.nonce
             /\ sync.plan.durableNext = sync.plan.next
             /\ sync.plan.lastObs.num \in 1..durable
             /\ sync.plan.lastObs = AnchoredNonce(sync.plan.lastObs.num)
             /\ sync.plan.next > disk.next
             /\ sync.plan.next >= disk.lastObs.nonce

SInv == EInv /\ Repairing

-----------------------------------------------------------------------------
(* The chain.                                                              *)

\* Two transactions of the account never have the same nonce.
LEMMA OneTxPerNonce ==
    ASSUME AInv, Steps, NEW i \in 1..Len(chain), NEW j \in 1..Len(chain),
           chain[i].tx # None, chain[j].tx # None,
           chain[i].tx.nonce = chain[j].tx.nonce
    PROVE  i = j
<1>1. /\ Len(chain) \in Nat /\ NoncesGrow
      /\ \A k \in 1..Len(chain) : chain[k].nonce \in Nat
  BY ChainFacts
<1>2. ASSUME NEW x \in 1..Len(chain), NEW y \in 1..Len(chain), x < y,
             chain[x].tx # None, chain[y].tx # None,
             chain[x].tx.nonce = chain[y].tx.nonce
      PROVE  FALSE
  <2>1. x \in 2..Len(chain)
    <3>1. x # 1
      BY <1>2 DEF Steps
    <3> QED
      BY <1>1, <3>1
  <2>2. y \in 2..Len(chain) /\ y - 1 \in 1..Len(chain) /\ x <= y - 1
        /\ x - 1 \in 1..Len(chain)
    BY <1>1, <1>2, <2>1
  <2>3. /\ chain[x].tx.nonce = chain[x - 1].nonce
        /\ chain[x].nonce = chain[x - 1].nonce + 1
        /\ chain[y].tx.nonce = chain[y - 1].nonce
    BY <1>2, <2>1, <2>2 DEF Steps
  <2>4. chain[x].nonce <= chain[y - 1].nonce
    BY <1>1, <2>2 DEF NoncesGrow
  <2>a. PICK b : b = chain[x - 1].nonce
    OBVIOUS
  <2>b. PICK d : d = chain[y - 1].nonce
    OBVIOUS
  <2>5. b \in Nat /\ d \in Nat
    BY <1>1, <2>2, <2>a, <2>b
  <2>6. b + 1 <= d /\ b = d
    BY <1>2, <2>3, <2>4, <2>a, <2>b
  <2> QED
    BY <2>5, <2>6
<1> QED
  BY <1>1, <1>2

\* Where the nonce moves past x without a transaction that carries x, a block moves
\* it with none.
LEMMA NonceMoves ==
    ASSUME AInv, Steps, NEW l \in 1..Len(chain), NEW m \in 1..Len(chain),
           NEW x \in Nat, chain[l].nonce <= x, chain[m].nonce > x,
           Unused(x, l + 1, m)
    PROVE  \E k \in 2..m : /\ chain[k].tx = None
                           /\ chain[k].nonce > chain[k - 1].nonce
                           /\ chain[k - 1].nonce = x
<1>1. /\ Len(chain) \in Nat /\ NoncesGrow
      /\ \A k \in 1..Len(chain) : chain[k].nonce \in Nat
  BY ChainFacts
<1> DEFINE past == {k \in 1..m : chain[k].nonce > x}
<1>2. past \subseteq Nat /\ m \in past
  BY <1>1
<1>3. PICK k : k = Min(past)
  OBVIOUS
<1>4. k \in past /\ \A y \in past : k <= y
  BY <1>2, <1>3, MinNat
<1>5. k \in 1..m /\ k \in 1..Len(chain) /\ chain[k].nonce > x
  BY <1>1, <1>4
<1>6. k > l
  <2> SUFFICES ASSUME k <= l PROVE FALSE
    BY <1>1, <1>5
  <2>1. chain[k].nonce <= chain[l].nonce
    BY <1>1, <1>5 DEF NoncesGrow
  <2> QED
    BY <1>1, <1>5, <2>1
<1>7. k \in 2..m /\ k \in 2..Len(chain) /\ k \in (l + 1)..m /\ k - 1 \in 1..m
      /\ k - 1 \in 1..Len(chain)
  BY <1>1, <1>5, <1>6
<1>8. chain[k - 1].nonce <= x
  <2> SUFFICES ASSUME chain[k - 1].nonce > x PROVE FALSE
    BY <1>1, <1>7
  <2>1. k - 1 \in past
    BY <1>7
  <2>2. k <= k - 1
    BY <1>4, <2>1
  <2> QED
    BY <1>5, <2>2
<1> HIDE DEF past
<1>a. PICK b : b = chain[k].nonce
  OBVIOUS
<1>b. PICK d : d = chain[k - 1].nonce
  OBVIOUS
<1>9. b = chain[k].nonce /\ d = chain[k - 1].nonce /\ b \in Nat /\ d \in Nat
  <2>1. chain[k].nonce \in Nat
    BY <1>1, <1>5
  <2>2. chain[k - 1].nonce \in Nat
    BY <1>1, <1>7
  <2> QED
    BY <1>a, <1>b, <2>1, <2>2
<1>10. chain[k - 1].nonce = x
  <2>1. \/ chain[k].nonce \in {chain[k - 1].nonce, chain[k - 1].nonce + 1}
        \/ chain[k].nonce = chain[k - 1].nonce + 1
    BY <1>7 DEF Steps
  <2>2. b = d \/ b = d + 1
    BY <1>9, <2>1
  <2>3. b > x /\ d <= x /\ b \in Nat /\ d \in Nat
    BY <1>5, <1>8, <1>9
  <2>4. d = x
    BY <2>2, <2>3
  <2> QED
    BY <1>9, <2>4
<1>11. chain[k].tx = None
  <2> SUFFICES ASSUME chain[k].tx # None PROVE FALSE
    OBVIOUS
  <2>1. chain[k].tx.nonce = x
    BY <1>7, <1>10 DEF Steps
  <2> QED
    BY <1>7, <2>1 DEF Unused
<1> QED
  <2>1. chain[k].nonce > chain[k - 1].nonce
    BY <1>5, <1>10
  <2> QED
    BY <1>7, <2>1, <1>10, <1>11

-----------------------------------------------------------------------------
(* What a search answers.                                                  *)

\* The searches of an attempt after a step that keeps or forgets its progress.
SearchStays(a, b) ==
    /\ b.nonce = a.nonce
    /\ \/ b.search = a.search
       \/ /\ a.search # None
          /\ b.search = [a.search EXCEPT !.through = None]

LEMMA StayingIsSearched ==
    ASSUME NEW a \in Attempt, NEW b, SearchStays(a, b), Searched(a)
    PROVE  Searched(b)
<1>1. a.search # None => a.search \in Search
  BY DEF Attempt
<1>2. CASE b.search = a.search
  BY <1>2 DEF SearchStays, Searched
<1>3. CASE a.search # None /\ b.search = [a.search EXCEPT !.through = None]
  <2>1. b.search.lower = a.search.lower /\ b.search.through = None
    BY <1>1, <1>3 DEF Search
  <2> QED
    BY <1>3, <2>1 DEF Searched, Scanning
<1> QED
  BY <1>2, <1>3 DEF SearchStays

\* What validation requires of the inclusion an attempt records.
Recorded(a) ==
    /\ (a.phase = "included") = (a.incl # None)
    /\ (a.phase = "included") = (a.seen # None)
    /\ a.phase = "included" => ValidInclusion(a)

\* A search that stays is one the journal's validation accepts.
LEMMA StayingIsValid ==
    ASSUME NEW a \in Attempt, NEW b, SearchStays(a, b), ValidAttempt(a), Recorded(b)
    PROVE  ValidAttempt(b)
<1>1. a.search # None => a.search \in Search
  BY DEF Attempt
<1>2. CASE b.search = a.search
  BY <1>2 DEF SearchStays, ValidAttempt, Recorded
<1>3. CASE a.search # None /\ b.search = [a.search EXCEPT !.through = None]
  <2>1. b.search.lower = a.search.lower /\ b.search.through = None
    BY <1>1, <1>3 DEF Search
  <2> QED
    BY <1>3, <2>1 DEF ValidAttempt, SearchStays, Recorded
<1> QED
  BY <1>2, <1>3 DEF SearchStays

\* An inclusion in a canonical block fits the canonical head it is seen under.
LEMMA SightingFits ==
    ASSUME ChainTypeOK, NEW n \in 1..Len(chain), NEW at \in Anchor,
           at.num <= n, Canonical(at)
    PROVE  /\ AnchorOf(n) \in Anchor /\ AnchorOf(n).num = n
           /\ at.num = n => at = AnchorOf(n)
<1>1. AnchorOf(n) \in Anchor
  BY ReadsAreTyped
<1>2. AnchorOf(n).num = n /\ AnchorOf(n).hash = chain[n].hash
  BY DEF AnchorOf
<1>3. ASSUME at.num = n PROVE at = AnchorOf(n)
  <2>1. at.hash = chain[n].hash
    BY <1>3 DEF Canonical
  <2> QED
    BY <1>1, <1>2, <1>3, <2>1 DEF Anchor
<1> QED
  BY <1>1, <1>2, <1>3

\* Validation accepts an inclusion found at block at: the attempt's own transaction,
\* or another one that took its nonce.
LEMMA FoundIsRecorded ==
    ASSUME ChainTypeOK, NEW n \in 1..Len(chain), NEW a \in Attempt, NEW at \in Anchor,
           at.num <= n, Canonical(at), NEW tx \in Tx, NEW nonce \in Nat \cup {None},
           IF nonce = None THEN tx = TxOf(a) ELSE tx # TxOf(a) /\ nonce > a.nonce,
           NEW b, b = Included(a, at, tx, n, nonce)
    PROVE  SearchStays(a, b) /\ Recorded(b)
<1>1. /\ b \in Attempt /\ b.id = a.id /\ b.nonce = a.nonce /\ b.search = a.search
      /\ b.phase = "included" /\ b.incl = at
      /\ b.seen.head = AnchorOf(n) /\ b.seen.tx = tx /\ b.seen.nonce = nonce
      /\ b.seen \in Sighting
  BY IncludedIs
<1>2. AnchorOf(n).num = n /\ (at.num = n => at = AnchorOf(n)) /\ n \in Nat
  BY SightingFits DEF ChainTypeOK
<1>3. b.incl # None /\ b.seen # None
  BY <1>1, ReferenceAssumption, SightingAssumption
<1>4. TxOf(b) = TxOf(a)
  BY <1>1 DEF TxOf
<1>5. ValidInclusion(b)
  BY <1>1, <1>2, <1>4 DEF ValidInclusion
<1> QED
  BY <1>1, <1>3, <1>5 DEF SearchStays, Recorded

\* Validation accepts an inclusion that is seen again.
LEMMA SeenAgainIsRecorded ==
    ASSUME ChainTypeOK, NEW n \in 1..Len(chain), NEW a \in Attempt, ValidAttempt(a),
           a.phase = "included", a.incl.num <= n, Canonical(a.incl),
           NEW b, b = SeenAgain(a, n)
    PROVE  SearchStays(a, b) /\ Recorded(b)
<1>1. a.incl \in Anchor /\ a.seen \in Sighting /\ ValidInclusion(a)
  BY DEF ValidAttempt, Attempt
<1>2. /\ b.id = a.id /\ b.nonce = a.nonce /\ b.search = a.search
      /\ b.phase = a.phase /\ b.incl = a.incl
      /\ b.seen \in Sighting /\ b.seen.head = AnchorOf(n)
      /\ b.seen.tx = a.seen.tx /\ b.seen.nonce = a.seen.nonce
  BY <1>1, SeenAgainIs
<1>3. AnchorOf(n).num = n /\ (a.incl.num = n => a.incl = AnchorOf(n)) /\ n \in Nat
  BY <1>1, SightingFits DEF ChainTypeOK
<1>4. b.incl # None /\ b.seen # None
  BY <1>1, <1>2, ReferenceAssumption, SightingAssumption
<1>5. TxOf(b) = TxOf(a)
  BY <1>2 DEF TxOf
<1>6. ValidInclusion(b)
  BY <1>1, <1>2, <1>3, <1>5 DEF ValidInclusion
<1> QED
  BY <1>2, <1>4, <1>6 DEF SearchStays, Recorded

\* The receipt pass leaves the search alone, or resets it with an inclusion that was
\* reorganised away.
LEMMA InspectStays ==
    ASSUME ChainTypeOK, NEW n \in 1..Len(chain), NEW served \in BOOLEAN,
           NEW a \in Attempt, ValidAttempt(a)
    PROVE  LET k == InspectAttempt(a, n, served)
           IN  /\ k = [attempt |-> k.attempt, verified |-> k.verified,
                       candidate |-> k.candidate]
               /\ SearchStays(a, k.attempt)
               /\ Recorded(k.attempt)
<1>1. PICK k : k = InspectAttempt(a, n, served)
  OBVIOUS
<1>2. k = [attempt |-> k.attempt, verified |-> k.verified, candidate |-> k.candidate]
  BY <1>1, InspectCases
<1>3. ASSUME k.attempt = a
      PROVE  SearchStays(a, k.attempt) /\ Recorded(k.attempt)
  BY <1>3 DEF SearchStays, ValidAttempt, Recorded
<1>4. ASSUME k.attempt = Demoted(a)
      PROVE  SearchStays(a, k.attempt) /\ Recorded(k.attempt)
  <2>1. PICK d : d = Demoted(a)
    OBVIOUS
  <2>2. SearchStays(a, d) /\ d.phase # "included" /\ d.incl = None /\ d.seen = None
    BY <2>1 DEF Demoted, SearchStays, Attempt
  <2> QED
    BY <1>4, <2>1, <2>2 DEF Recorded
<1>5. ASSUME a.phase = "included", k.attempt = SeenAgain(a, n),
             a.incl.num <= n, Canonical(a.incl)
      PROVE  SearchStays(a, k.attempt) /\ Recorded(k.attempt)
  BY <1>5, SeenAgainIsRecorded
<1>6. ASSUME NEW j \in 1..n, k.attempt = Included(a, AnchorOf(j), TxOf(a), n, None)
      PROVE  SearchStays(a, k.attempt) /\ Recorded(k.attempt)
  <2>1. PICK at, tx, m : at = AnchorOf(j) /\ tx = TxOf(a) /\ m = None
    OBVIOUS
  <2>2. at \in Anchor /\ at.num <= n /\ Canonical(at)
    BY <2>1, ReadIsCanonical
  <2>3. tx \in Tx
    BY <2>1 DEF Attempt, TxOf, Tx
  <2>4. /\ m \in Nat \cup {None}
        /\ IF m = None THEN tx = TxOf(a) ELSE tx # TxOf(a) /\ m > a.nonce
    BY <2>1
  <2>5. k.attempt = Included(a, at, tx, n, m)
    BY <1>6, <2>1
  <2> QED
    BY <2>2, <2>3, <2>4, <2>5, FoundIsRecorded
<1>7. \/ k.attempt = a \/ k.attempt = Demoted(a)
      \/ /\ a.phase = "included" /\ k.attempt = SeenAgain(a, n)
         /\ a.incl.num <= n /\ Canonical(a.incl)
      \/ \E j \in 1..n : k.attempt = Included(a, AnchorOf(j), TxOf(a), n, None)
  BY <1>1, InspectCases
<1>8. SearchStays(a, k.attempt) /\ Recorded(k.attempt)
  BY <1>3, <1>4, <1>5, <1>6, <1>7
<1> QED
  BY <1>1, <1>2, <1>8

\* So does the replacement search.
LEMMA CandidateStays ==
    ASSUME ChainTypeOK, NEW n \in 1..Len(chain), NEW lastObs \in Observation, NEW k,
           k.attempt \in Attempt, NEW a,
           k = [attempt |-> k.attempt, verified |-> k.verified,
                candidate |-> k.candidate],
           SearchStays(a, k.attempt), Recorded(k.attempt)
    PROVE  LET b == SearchCandidate(k, lastObs, n).attempt
           IN  SearchStays(a, b) /\ Recorded(b)
<1>1. PICK f : f = SearchCandidate(k, lastObs, n)
  OBVIOUS
<1>2. CASE f = k
  BY <1>1, <1>2
<1>3. ASSUME NEW j \in 1..n, chain[j].tx \in Tx, chain[n].nonce \in Nat,
             chain[j].tx # TxOf(k.attempt), chain[n].nonce > k.attempt.nonce,
             f.attempt = Included(k.attempt, AnchorOf(j), chain[j].tx, n, chain[n].nonce)
      PROVE  SearchStays(a, f.attempt) /\ Recorded(f.attempt)
  <2>1. PICK at, tx, m : at = AnchorOf(j) /\ tx = chain[j].tx /\ m = chain[n].nonce
    OBVIOUS
  <2>2. at \in Anchor /\ at.num <= n /\ Canonical(at)
    BY <2>1, ReadIsCanonical
  <2>3. PICK b : b = k.attempt
    OBVIOUS
  <2>4. tx \in Tx /\ m \in Nat \cup {None} /\ m # None /\ b \in Attempt
    BY <1>3, <2>1, <2>3, SightingAssumption
  <2>5. IF m = None THEN tx = TxOf(b) ELSE tx # TxOf(b) /\ m > b.nonce
    BY <1>3, <2>1, <2>3, <2>4
  <2>6. f.attempt = Included(b, at, tx, n, m)
    BY <1>3, <2>1, <2>3
  <2>7. SearchStays(b, f.attempt) /\ Recorded(f.attempt)
    BY <2>2, <2>4, <2>5, <2>6, FoundIsRecorded
  <2>8. f.attempt.search = b.search /\ f.attempt.nonce = b.nonce
    BY <2>2, <2>4, <2>6, IncludedIs
  <2> QED
    BY <2>3, <2>7, <2>8 DEF SearchStays
<1> QED
  BY <1>1, <1>2, <1>3, SearchCases

\* An inclusion pass keeps or forgets search progress, attempt by attempt.
LEMMA InclusionStays ==
    ASSUME ChainTypeOK, NEW n \in 1..Len(chain), NEW servedAt,
           NEW s \in Snapshot, ValidSnapshot(s)
    PROVE  \A i \in 1..Len(s.attempts) :
               LET b == InspectInclusions(s, n, servedAt).attempts[i]
               IN  /\ SearchStays(s.attempts[i], b)
                   /\ Recorded(b)
<1> DEFINE len   == Len(s.attempts)
           seen  == [i \in 1..len |-> InspectAttempt(s.attempts[i], n, i \in servedAt)]
           final == [i \in 1..Len(seen) |-> SearchCandidate(seen[i], s.lastObs, n)]
           out   == [i \in 1..Len(final) |-> final[i].attempt]
<1>1. InspectInclusions(s, n, servedAt).attempts = out
  BY Zenon DEF InspectInclusions
<1>2. len \in Nat /\ Len(seen) = len /\ Len(final) = len /\ s.lastObs \in Observation
  BY SnapshotFields
<1>3. ASSUME NEW i \in 1..len
      PROVE  /\ SearchStays(s.attempts[i], out[i])
             /\ Recorded(out[i])
  <2>1. s.attempts[i] \in Attempt /\ ValidAttempt(s.attempts[i])
    BY SnapshotFields DEF ValidSnapshot
  <2>2. (i \in servedAt) \in BOOLEAN
    OBVIOUS
  <2>3. PICK k : k = InspectAttempt(s.attempts[i], n, i \in servedAt)
    OBVIOUS
  <2>4. /\ k = [attempt |-> k.attempt, verified |-> k.verified,
                candidate |-> k.candidate]
        /\ SearchStays(s.attempts[i], k.attempt)
        /\ Recorded(k.attempt)
        /\ k.attempt \in Attempt
    BY <2>1, <2>2, <2>3, InspectStays, InspectAttemptIsSame DEF SameTransaction
  <2>5. out[i] = SearchCandidate(k, s.lastObs, n).attempt
    <3>1. seen[i] = k
      BY <2>3
    <3> HIDE DEF seen
    <3> QED
      BY <1>2, <3>1
  <2> HIDE DEF seen, final, out
  <2> QED
    BY <1>2, <2>4, <2>5, CandidateStays
<1> QED
  BY <1>1, <1>3

\* The baseline and the repair history stay valid while the durable nonce grows.
LEMMA HistoryIsValid ==
    ASSUME NEW s \in Snapshot, ValidSnapshot(s), NEW t, t.baseline = s.baseline,
           t.repairs = s.repairs, t.durableNext \in Nat, t.durableNext >= s.durableNext
    PROVE  t.durableNext >= t.baseline /\ ValidRepairs(t)
<1>1. /\ s.durableNext \in Nat /\ s.baseline \in Nat
      /\ s.durableNext >= s.baseline /\ ValidRepairs(s)
      /\ s.repairs \in Seq(Repair)
  BY SnapshotFields DEF ValidSnapshot
<1>2. ASSUME s.repairs # <<>>
      PROVE  s.repairs[Len(s.repairs)].next <= t.durableNext
  <2>1. Len(s.repairs) \in 1..Len(s.repairs)
    BY <1>1, <1>2
  <2>2. s.repairs[Len(s.repairs)] \in Repair
    BY <1>1, <2>1, ElementOfSeq
  <2>3. PICK m : m = s.repairs[Len(s.repairs)].next
    OBVIOUS
  <2>4. m \in Nat /\ m <= s.durableNext
    BY <1>1, <1>2, <2>2, <2>3 DEF Repair, ValidRepairs
  <2> QED
    BY <1>1, <2>3, <2>4
<1>3. ValidRepairs(t)
  BY <1>1, <1>2 DEF ValidRepairs
<1> QED
  BY <1>1, <1>3

\* Validation accepts what an inclusion pass derives.
LEMMA InclusionIsValid ==
    ASSUME ChainTypeOK, NEW n \in 1..Len(chain), NEW servedAt,
           NEW s \in Snapshot, ValidSnapshot(s), NEW o \in Observation,
           InspectInclusions(s, n, servedAt).status = "inspected"
    PROVE  ValidSnapshot([s EXCEPT !.lastObs = o,
                            !.attempts = InspectInclusions(s, n, servedAt).attempts])
<1>1. PICK as : as = InspectInclusions(s, n, servedAt).attempts
  OBVIOUS
<1>2. PICK t : t = [s EXCEPT !.lastObs = o, !.attempts = as]
  OBVIOUS
<1>3. /\ Len(as) = Len(s.attempts)
      /\ \A i \in 1..Len(s.attempts) : SameTransaction(s.attempts[i], as[i])
  BY <1>1, InclusionEffect
<1>4. \A i \in 1..Len(s.attempts) :
        /\ SearchStays(s.attempts[i], as[i])
        /\ Recorded(as[i])
  BY <1>1, InclusionStays
<1>5. /\ t.next = s.next /\ t.durableNext = s.durableNext /\ t.attempts = as
      /\ t.baseline = s.baseline /\ t.repairs = s.repairs
  BY <1>2 DEF Snapshot
<1>6. \A i \in 1..Len(s.attempts) :
        /\ ValidAttempt(as[i])
        /\ as[i].nonce = s.attempts[i].nonce /\ as[i].id = s.attempts[i].id
  <2> SUFFICES ASSUME NEW i \in 1..Len(s.attempts)
               PROVE  /\ ValidAttempt(as[i])
                      /\ as[i].nonce = s.attempts[i].nonce /\ as[i].id = s.attempts[i].id
    OBVIOUS
  <2>1. s.attempts[i] \in Attempt /\ ValidAttempt(s.attempts[i])
    BY SnapshotFields DEF ValidSnapshot
  <2>2. ValidAttempt(as[i])
    BY <1>4, <2>1, StayingIsValid
  <2>3. TxOf(as[i]) = TxOf(s.attempts[i])
    BY <1>3 DEF SameTransaction
  <2> QED
    BY <2>2, <2>3 DEF TxOf
<1>7. t.durableNext >= t.baseline /\ ValidRepairs(t)
  <2>1. s.durableNext \in Nat /\ s.durableNext >= s.durableNext
    BY SnapshotFields
  <2> QED
    BY <1>5, <2>1, HistoryIsValid
<1>8. ValidSnapshot(t)
  BY <1>3, <1>5, <1>6, <1>7 DEF ValidSnapshot
<1> QED
  BY <1>1, <1>2, <1>8

\* What readReplacementSearch requires of a search for a nonce.
Bounded(nonce, q) ==
    q # None =>
        /\ q.lower.nonce <= nonce
        /\ q.through # None => q.through.num > q.lower.num

\* A search that found nothing may be recorded.  When it has reached a block where
\* the nonce is consumed, some block consumed it without a transaction.
LEMMA NothingFound ==
    ASSUME AInv, Steps, NEW n \in 1..durable, NEW a \in Attempt,
           NEW q \in Search \cup {None},
           Scanning(a.nonce, q), Bounded(a.nonce, q),
           SearchReplacement(a, q, n).status = "not-found"
    PROVE  LET r == SearchReplacement(a, q, n)
               p == [q EXCEPT !.through = r.at]
           IN  /\ q # None
               /\ p \in Search
               /\ Scanning(a.nonce, p) /\ Bounded(a.nonce, p)
               /\ (r.exhausted /\ chain[n].nonce > a.nonce) =>
                    \E k \in 2..durable :
                        /\ chain[k].tx = None
                        /\ chain[k].nonce > chain[k - 1].nonce
                        /\ chain[k - 1].nonce = a.nonce
<1>1. /\ ChainTypeOK /\ durable \in Nat /\ durable <= Len(chain) /\ Len(chain) \in Nat
      /\ n \in 1..Len(chain) /\ n \in Nat
      /\ \A k \in 1..Len(chain) : chain[k].nonce \in Nat /\ AnchorOf(k) \in Anchor
  <2>1. ChainTypeOK /\ durable \in Nat /\ durable <= Len(chain) /\ Len(chain) \in Nat
    BY ChainFacts, Held
  <2> QED
    BY <2>1, ChainFacts
<1>2. PICK r : r = SearchReplacement(a, q, n)
  OBVIOUS
<1>3. /\ q # None /\ q \in Search
      /\ q.lower.num \in 1..n /\ SearchedTo(q) \in 1..n
      /\ Canonical(AnchorPart(q.lower))
      /\ \E last \in 1..n : /\ SearchedTo(q) < last
                            /\ r.at = AnchorOf(last)
                            /\ r.exhausted = (last = n)
                            /\ Unused(a.nonce, SearchedTo(q) + 1, last)
  <2>1. SearchReplacement(a, q, n).status = "not-found"
    OBVIOUS
  <2>2. /\ q # None /\ q \in Search
        /\ q.lower.num \in 1..n /\ SearchedTo(q) \in 1..n
        /\ Canonical(AnchorPart(q.lower))
        /\ SearchReplacement(a, q, n).status = "not-found" =>
             \E last \in 1..n :
                 /\ SearchedTo(q) < last
                 /\ SearchReplacement(a, q, n).at = AnchorOf(last)
                 /\ SearchReplacement(a, q, n).exhausted = (last = n)
                 /\ Unused(a.nonce, SearchedTo(q) + 1, last)
    BY <1>1, <2>1, SearchScans
  <2> QED
    BY <1>2, <2>1, <2>2
<1>4. PICK last \in 1..n : /\ SearchedTo(q) < last
                           /\ r.at = AnchorOf(last)
                           /\ r.exhausted = (last = n)
                           /\ Unused(a.nonce, SearchedTo(q) + 1, last)
  BY <1>3
<1>5. PICK low \in 1..n : low = q.lower.num
  BY <1>3
<1>6. PICK from \in 1..n : from = SearchedTo(q)
  BY <1>3
<1>7. from >= low /\ Unused(a.nonce, low + 1, from)
  <2>1. CASE q.through = None
    <3>1. from = low
      BY <1>5, <1>6, <2>1 DEF SearchedTo
    <3> QED
      BY <3>1 DEF Unused
  <2>2. CASE q.through # None
    <3>1. from = q.through.num
      BY <1>6, <2>2 DEF SearchedTo
    <3> QED
      BY <1>3, <1>5, <2>2, <3>1 DEF Scanning, Bounded
  <2> QED
    BY <2>1, <2>2
<1>8. Unused(a.nonce, low + 1, last)
  <2> SUFFICES ASSUME NEW k \in (low + 1)..last, chain[k].tx # None
               PROVE  chain[k].tx.nonce # a.nonce
    BY DEF Unused
  <2>1. k \in (low + 1)..from \/ k \in (from + 1)..last
    OBVIOUS
  <2> QED
    BY <1>4, <1>6, <1>7, <2>1 DEF Unused
<1>9. last \in 1..Len(chain) /\ r.at \in Anchor /\ r.at.num = last /\ Canonical(r.at)
  <2>1. last \in 1..Len(chain)
    BY <1>1
  <2>2. AnchorOf(last).num = last /\ Canonical(AnchorOf(last))
    BY <1>1, <2>1 DEF AnchorOf, Canonical
  <2> QED
    BY <1>1, <1>4, <2>1, <2>2
<1>10. PICK p : p = [q EXCEPT !.through = r.at]
  OBVIOUS
<1>11. p \in Search /\ p.lower = q.lower /\ p.through = r.at
  BY <1>3, <1>9, <1>10 DEF Search
<1>12. Scanning(a.nonce, p) /\ Bounded(a.nonce, p)
  <2>1. last <= durable /\ last > low
    BY <1>1, <1>4, <1>6, <1>7
  <2> QED
    BY <1>3, <1>5, <1>8, <1>9, <1>11, <2>1 DEF Scanning, Bounded
<1>13. ASSUME r.exhausted, chain[n].nonce > a.nonce
       PROVE  \E k \in 2..durable :
                  /\ chain[k].tx = None
                  /\ chain[k].nonce > chain[k - 1].nonce
                  /\ chain[k - 1].nonce = a.nonce
  <2>1. last = n
    BY <1>4, <1>13
  <2>2. a.nonce \in Nat
    BY DEF Attempt
  <2>3. low \in 1..Len(chain)
    BY <1>1
  <2>4. chain[low].nonce = q.lower.nonce /\ q.lower.nonce <= a.nonce
    BY <1>3, <1>5 DEF Scanning, Bounded, Seen
  <2>5. \E k \in 2..n : /\ chain[k].tx = None
                        /\ chain[k].nonce > chain[k - 1].nonce
                        /\ chain[k - 1].nonce = a.nonce
    BY <1>1, <1>8, <1>13, <2>1, <2>2, <2>3, <2>4, NonceMoves
  <2>6. \A k \in 2..n : k \in 2..durable
    BY <1>1
  <2> QED
    BY <2>5, <2>6
<1> QED
  BY <1>2, <1>3, <1>10, <1>11, <1>12, <1>13

\* The lower bound that recovery resumes from or records for the oldest attempt.
LEMMA RecordedBound ==
    ASSUME AInv, NEW s \in Snapshot, ValidSnapshot(s), Supported(s),
           s.attempts # <<>>, NEW o \in Observation, Seen(o)
    PROVE  LET a     == s.attempts[1]
               q     == ResolvedSearch(a, s.lastObs)
               bound == RecordedSearch(a, s, o)
           IN  /\ q \in Search \cup {None}
               /\ Scanning(a.nonce, q) /\ Bounded(a.nonce, q)
               /\ bound \in Search \cup {None}
               /\ Scanning(a.nonce, bound) /\ Bounded(a.nonce, bound)
               /\ o.nonce > a.nonce => bound = q
<1>1. PICK a : a = s.attempts[1]
  OBVIOUS
<1>2. PICK q : q = ResolvedSearch(a, s.lastObs)
  OBVIOUS
<1>3. PICK bound : bound = RecordedSearch(a, s, o)
  OBVIOUS
<1>4. /\ a \in Attempt /\ ValidAttempt(a) /\ Searched(a) /\ a.nonce \in Nat
      /\ s.lastObs \in Observation /\ Seen(s.lastObs) /\ o.nonce \in Nat
  <2>1. 1 \in 1..Len(s.attempts)
    BY SnapshotFields
  <2> QED
    BY <1>1, <2>1, SnapshotFields DEF Supported, ValidSnapshot, Observation
<1>5. ASSUME NEW x \in Observation, Seen(x), x.nonce <= a.nonce
      PROVE  LET p == [lower |-> x, through |-> None]
             IN  p \in Search /\ Scanning(a.nonce, p) /\ Bounded(a.nonce, p)
  BY <1>5 DEF Search, Scanning, Bounded
<1>6. a.search \in Search \cup {None}
      /\ Scanning(a.nonce, a.search) /\ Bounded(a.nonce, a.search)
  BY <1>4 DEF Attempt, Searched, ValidAttempt, Bounded
<1>7. q \in Search \cup {None} /\ Scanning(a.nonce, q) /\ Bounded(a.nonce, q)
  <2>1. CASE a.search = None /\ s.lastObs.nonce <= a.nonce
    <3>1. q = [lower |-> s.lastObs, through |-> None]
      BY <1>2, <2>1 DEF ResolvedSearch
    <3> QED
      BY <1>4, <1>5, <2>1, <3>1
  <2>2. CASE ~(a.search = None /\ s.lastObs.nonce <= a.nonce)
    <3>1. q = a.search
      BY <1>2, <2>2 DEF ResolvedSearch
    <3> QED
      BY <1>6, <3>1
  <2> QED
    BY <2>1, <2>2
<1>8. /\ bound \in Search \cup {None}
      /\ Scanning(a.nonce, bound) /\ Bounded(a.nonce, bound)
      /\ o.nonce > a.nonce => bound = q
  <2>1. CASE a.search = None /\ o.nonce <= a.nonce
    <3>1. bound = [lower |-> o, through |-> None]
      BY <1>3, <2>1 DEF RecordedSearch
    <3> QED
      BY <1>4, <1>5, <2>1, <3>1
  <2>2. CASE ~(a.search = None /\ o.nonce <= a.nonce)
    <3>1. bound = q
      BY <1>2, <1>3, <2>2 DEF RecordedSearch
    <3> QED
      BY <1>7, <3>1
  <2> QED
    BY <2>1, <2>2
<1> QED
  BY <1>1, <1>2, <1>3, <1>7, <1>8

\* What is read in a block of the chain is seen there.
LEMMA ReadIsSeen ==
    ASSUME AInv, NEW n \in 1..Len(chain)
    PROVE  Seen(AnchoredNonce(n)) /\ AnchoredNonce(n) \in Observation
<1>1. AnchoredNonce(n) \in Observation /\ chain[n].hash <= minted
  BY ChainFacts
<1> QED
  BY <1>1 DEF Seen, AnchoredNonce

\* What a recovery pass records is supported by the chain, and validation accepts
\* it.  A search that reached the anchor in vain has met a gap.
LEMMA RecoverySupports ==
    ASSUME AInv, Steps, NEW n \in RecoveryAnchors, NEW served \in BOOLEAN,
           NEW s, Base(s), Supported(s)
    PROVE  LET r == InspectRecovery(s, n, served)
               t == RecoverySnapshot(s, r)
           IN  /\ Supported(t) /\ ValidSnapshot(t)
               /\ RecoveryWriteKind(r) # "resolution" => t.durableNext = s.durableNext
               /\ (RecoveryWriteKind(r) = "search-progress" /\ r.search.exhausted) =>
                    Gap(t.durableNext)
<1>0. /\ s \in Snapshot /\ ValidSnapshot(s) /\ ChainTypeOK
      /\ Unattributed \in blockers <=> UnattributedIn(s)
  BY Held DEF Base
<1>1. n \in 1..Len(chain) /\ n \in 1..durable
  <2>1. durable \in Nat /\ Len(chain) \in Nat /\ durable <= Len(chain)
    BY ChainFacts
  <2> QED
    BY <2>1 DEF RecoveryAnchors
<1>2. PICK r : r = InspectRecovery(s, n, served)
  OBVIOUS
<1>3. PICK o : o = ObservationToKeep(s, r.obs)
  OBVIOUS
<1>4. PICK t : t = RecoverySnapshot(s, r)
  OBVIOUS
<1>5. /\ r.obs = AnchoredNonce(n)
      /\ r.status \in {"resolution-available", "unresolved"} => s.attempts # <<>>
  BY <1>0, <1>1, <1>2, RecoveryAnswers
<1>6. /\ AnchoredNonce(n) \in Observation /\ Seen(AnchoredNonce(n))
      /\ AnchoredNonce(n).nonce = chain[n].nonce /\ chain[n].nonce \in Nat
  BY <1>1, ReadIsSeen, ChainFacts DEF AnchoredNonce
<1>7. /\ o \in Observation /\ Seen(o) /\ o.nonce \in Nat /\ o.nonce >= chain[n].nonce
  <2>1. /\ o \in {s.lastObs, AnchoredNonce(n)}
        /\ o = s.lastObs /\ o # AnchoredNonce(n) => o.nonce > chain[n].nonce
    BY <1>3, <1>5, <1>6 DEF ObservationToKeep, KeepsEvidence
  <2>2. o \in Observation /\ Seen(o)
    BY <1>0, <1>6, <2>1, SnapshotFields DEF Supported
  <2>3. o.nonce \in Nat
    BY <2>2 DEF Observation
  <2> QED
    BY <1>6, <2>1, <2>2, <2>3
<1>8. /\ s.attempts \in Seq(Attempt) /\ Len(s.attempts) \in Nat
      /\ s.next \in Nat /\ s.durableNext \in Nat
      /\ s.next - s.durableNext = Len(s.attempts)
      /\ \A i \in 1..Len(s.attempts) :
           /\ s.attempts[i].nonce = s.durableNext + i - 1
           /\ ValidAttempt(s.attempts[i]) /\ Searched(s.attempts[i])
           /\ s.attempts[i] \in Attempt
      /\ \A i, j \in 1..Len(s.attempts) :
           (s.attempts[i].id = s.attempts[j].id
              \/ WorkOf[s.attempts[i].id] = WorkOf[s.attempts[j].id]) => i = j
  BY <1>0, SnapshotFields DEF ValidSnapshot, Supported
<1>9. CASE s.attempts = <<>>
  <2>1. t = [s EXCEPT !.lastObs = o]
    BY <1>3, <1>4, <1>9, Zenon DEF RecoverySnapshot
  <2>2. /\ t.next = s.next /\ t.durableNext = s.durableNext
        /\ t.attempts = s.attempts /\ t.lastObs = o
        /\ t.baseline = s.baseline /\ t.repairs = s.repairs
    BY <1>0, <2>1 DEF Snapshot
  <2>a. t.durableNext >= t.baseline /\ ValidRepairs(t)
    <3>1. s.durableNext >= s.durableNext
      BY <1>8
    <3> QED
      BY <1>0, <1>8, <2>2, <3>1, HistoryIsValid
  <2>3. Supported(t) /\ ValidSnapshot(t)
    BY <1>0, <1>7, <2>2, <2>a DEF Supported, ValidSnapshot
  <2>4. RecoveryWriteKind(r) # "search-progress"
    BY <1>5, <1>9 DEF RecoveryWriteKind
  <2> QED
    BY <1>2, <1>4, <2>2, <2>3, <2>4
<1>10. CASE s.attempts # <<>> /\ r.status = "resolution-available"
  <2>1. t = [s EXCEPT !.lastObs = o, !.durableNext = s.attempts[1].nonce + 1,
                      !.attempts = Tail(@)]
    BY <1>3, <1>4, <1>10, Zenon DEF RecoverySnapshot
  <2>2. PICK rest : rest = Tail(s.attempts)
    OBVIOUS
  <2>3. /\ 1 \in 1..Len(s.attempts)
        /\ Len(rest) = Len(s.attempts) - 1
        /\ \A i \in 1..Len(rest) : rest[i] = s.attempts[i + 1]
    BY <1>0, <1>8, <1>10, <2>2, SnapshotFields, HeadTailProperties
  <2>4. /\ t.next = s.next /\ t.durableNext = s.durableNext + 1
        /\ t.attempts = rest /\ t.lastObs = o
        /\ t.baseline = s.baseline /\ t.repairs = s.repairs
    <3>1. s.attempts[1].nonce + 1 = s.durableNext + 1
      BY <1>8, <2>3
    <3> QED
      BY <1>0, <2>1, <2>2, <3>1 DEF Snapshot
  <2>5. \A i \in 1..Len(rest) : i + 1 \in 1..Len(s.attempts)
    BY <1>8, <2>3
  <2>6. Supported(t)
    BY <1>7, <1>8, <2>3, <2>4, <2>5 DEF Supported
  <2>7. ValidSnapshot(t)
    <3>1. PICK m \in Nat, c \in Nat, d \in Nat :
            m = Len(s.attempts) /\ c = s.next /\ d = s.durableNext
      BY <1>8
    <3>2. t.next - t.durableNext = Len(t.attempts)
      BY <1>8, <2>3, <2>4, <3>1
    <3>3. ASSUME NEW i \in 1..Len(rest)
          PROVE  rest[i].nonce = t.durableNext + i - 1 /\ ValidAttempt(rest[i])
      <4>1. s.attempts[i + 1].nonce = s.durableNext + (i + 1) - 1
        BY <1>8, <2>5
      <4>2. d + (i + 1) - 1 = (d + 1) + i - 1
        OBVIOUS
      <4> QED
        BY <1>8, <2>3, <2>4, <2>5, <3>1, <4>1, <4>2
    <3>4. ASSUME NEW i \in 1..Len(rest), NEW j \in 1..Len(rest),
                 rest[i].id = rest[j].id \/ WorkOf[rest[i].id] = WorkOf[rest[j].id]
          PROVE  i = j
      <4>1. PICK x \in 1..Len(s.attempts), y \in 1..Len(s.attempts) :
              x = i + 1 /\ y = j + 1
        BY <2>5
      <4>2. rest[i] = s.attempts[x] /\ rest[j] = s.attempts[y]
        BY <2>3, <4>1
      <4>3. x = y
        BY <1>8, <3>4, <4>2
      <4> QED
        BY <4>1, <4>3
    <3>5. t.durableNext >= t.baseline /\ ValidRepairs(t)
      <4>1. t.durableNext \in Nat /\ t.durableNext >= s.durableNext
        BY <2>4, <3>1
      <4> QED
        BY <1>0, <2>4, <4>1, HistoryIsValid
    <3> QED
      BY <2>4, <3>2, <3>3, <3>4, <3>5 DEF ValidSnapshot
  <2>8. RecoveryWriteKind(r) = "resolution"
    BY <1>10 DEF RecoveryWriteKind
  <2> QED
    BY <1>2, <1>4, <2>6, <2>7, <2>8
<1>11. CASE s.attempts # <<>> /\ r.status # "resolution-available"
  <2>1. PICK a : a = s.attempts[1]
    OBVIOUS
  <2>2. 1 \in 1..Len(s.attempts) /\ a \in Attempt /\ ValidAttempt(a)
        /\ a.nonce = s.durableNext
    <3>1. 1 \in 1..Len(s.attempts)
      BY <1>0, <1>11, SnapshotFields
    <3>2. a.nonce = s.durableNext + 1 - 1 /\ a \in Attempt /\ ValidAttempt(a)
      BY <1>8, <2>1, <3>1
    <3> QED
      BY <1>8, <3>1, <3>2
  <2>3. PICK q : q = ResolvedSearch(a, s.lastObs)
    OBVIOUS
  <2>4. PICK bound : bound = RecordedSearch(a, s, o)
    OBVIOUS
  <2>5. /\ q \in Search \cup {None}
        /\ Scanning(a.nonce, q) /\ Bounded(a.nonce, q)
        /\ bound \in Search \cup {None}
        /\ Scanning(a.nonce, bound) /\ Bounded(a.nonce, bound)
        /\ o.nonce > a.nonce => bound = q
    BY <1>0, <1>7, <1>11, <2>1, <2>3, <2>4, RecordedBound
  <2>6. PICK found : found = SearchReplacement(a, q, n)
    OBVIOUS
  <2>7. \/ r.search = NoSearch
        \/ r.search = found /\ chain[n].nonce > a.nonce /\ r.status = "unresolved"
    BY <1>0, <1>1, <1>2, <1>11, <2>1, <2>3, <2>6, RecoveryTells
  <2>8. NoSearch.status = "none"
    BY DEF NoSearch, SearchResult
  <2>9. PICK p : p = IF r.search.status = "not-found"
                     THEN [bound EXCEPT !.through = r.search.at] ELSE bound
    OBVIOUS
  <2>10. /\ p \in Search \cup {None}
         /\ Scanning(a.nonce, p) /\ Bounded(a.nonce, p)
         /\ (r.search.status = "not-found" /\ r.search.exhausted) =>
              \E k \in 2..durable :
                  /\ chain[k].tx = None
                  /\ chain[k].nonce > chain[k - 1].nonce
                  /\ chain[k - 1].nonce = a.nonce
    <3>1. CASE r.search.status = "not-found"
      <4>1. r.search = found /\ chain[n].nonce > a.nonce
        BY <2>7, <2>8, <3>1
      <4>2. bound = q
        BY <1>6, <1>7, <2>2, <2>5, <4>1 DEF Attempt
      <4>3. p = [q EXCEPT !.through = found.at]
        BY <2>9, <3>1, <4>1, <4>2
      <4>4. found.status = "not-found"
        BY <3>1, <4>1
      <4> QED
        BY <1>1, <2>2, <2>5, <2>6, <4>1, <4>3, <4>4, NothingFound
    <3>2. CASE r.search.status # "not-found"
      BY <2>5, <2>9, <3>2
    <3> QED
      BY <3>1, <3>2
  <2>11. t = [s EXCEPT !.lastObs = o, !.attempts[1].search = p]
    BY <1>3, <1>4, <1>11, <2>1, <2>4, <2>9, Zenon DEF RecoverySnapshot
  <2>12. PICK b : b = [a EXCEPT !.search = p]
    OBVIOUS
  <2>13. /\ b \in Attempt /\ b.nonce = a.nonce /\ b.id = a.id /\ b.phase = a.phase
         /\ b.incl = a.incl /\ b.seen = a.seen /\ b.search = p
    BY <2>2, <2>10, <2>12 DEF Attempt
  <2>14. Searched(b) /\ ValidAttempt(b)
    BY <2>2, <2>10, <2>13 DEF Searched, ValidAttempt, ValidInclusion, TxOf, Bounded
  <2>15. PICK as : as = [s.attempts EXCEPT ![1] = b]
    OBVIOUS
  <2>16. /\ t.next = s.next /\ t.durableNext = s.durableNext
         /\ t.attempts = as /\ t.lastObs = o
         /\ t.baseline = s.baseline /\ t.repairs = s.repairs
    BY <1>0, <2>1, <2>2, <2>11, <2>12, <2>15 DEF Snapshot
  <2>17. /\ Len(as) = Len(s.attempts)
         /\ \A j \in 1..Len(s.attempts) :
              as[j] = IF j = 1 THEN b ELSE s.attempts[j]
    BY <1>8, <2>2, <2>13, <2>15, ExceptSeq
  <2>18. Supported(t)
    BY <1>7, <1>8, <2>14, <2>16, <2>17 DEF Supported
  <2>19. \A i \in 1..Len(s.attempts) :
           /\ as[i].nonce = s.attempts[i].nonce /\ as[i].id = s.attempts[i].id
           /\ ValidAttempt(as[i])
    BY <1>8, <2>1, <2>13, <2>14, <2>17
  <2>a. t.durableNext >= t.baseline /\ ValidRepairs(t)
    <3>1. s.durableNext >= s.durableNext
      BY <1>8
    <3> QED
      BY <1>0, <1>8, <2>16, <3>1, HistoryIsValid
  <2>20. ValidSnapshot(t)
    BY <1>8, <2>16, <2>17, <2>19, <2>a DEF ValidSnapshot
  <2>21. ASSUME RecoveryWriteKind(r) = "search-progress", r.search.exhausted
         PROVE  Gap(t.durableNext)
    <3>1. r.search.status = "not-found"
      BY <1>11, <2>21 DEF RecoveryWriteKind
    <3>2. PICK k \in 2..durable :
                  /\ chain[k].tx = None
                  /\ chain[k].nonce > chain[k - 1].nonce
                  /\ chain[k - 1].nonce = a.nonce
      BY <2>10, <2>21, <3>1
    <3>3. chain[k - 1].nonce >= t.durableNext
      BY <1>8, <2>2, <2>16, <3>2
    <3> QED
      BY <3>2, <3>3 DEF Gap
  <2> QED
    BY <1>2, <1>4, <2>16, <2>18, <2>20, <2>21
<1> QED
  BY <1>9, <1>10, <1>11

-----------------------------------------------------------------------------
(* The chain moves.                                                        *)

LEMMA SeenStays ==
    ASSUME AInv, ChainNext, NEW o \in Observation, Seen(o)
    PROVE  Seen(o)'
<1>1. ReleaseInv /\ HashesAreOld
  BY DEF AInv, AuthorityState
<1>2. /\ o.num \in Nat \ {0} /\ o.hash \in Nat /\ o.hash <= minted
      /\ AnchorPart(o).num = o.num /\ AnchorPart(o).hash = o.hash
      /\ minted \in Nat /\ minted' \in Nat /\ minted <= minted'
      /\ Len(chain) \in Nat /\ Len(chain') \in Nat
  BY <1>1, ChainMoves DEF Seen, Observation, AnchorPart
<1>3. ASSUME o.num <= Len(chain'), chain'[o.num].hash = o.hash
      PROVE  chain'[o.num].nonce = o.nonce
  <2>1. o.num \in 1..Len(chain')
    BY <1>2, <1>3
  <2>2. o.num \in 1..Len(chain) /\ chain'[o.num] = chain[o.num]
    BY <1>1, <1>2, <1>3, <2>1, ChainMoves
  <2>3. Canonical(AnchorPart(o))
    BY <1>2, <1>3, <2>2 DEF Canonical
  <2> QED
    BY <2>2, <2>3 DEF Seen
<1> QED
  BY <1>2, <1>3 DEF Seen, Canonical

LEMMA ScanningStays ==
    ASSUME AInv, ChainNext, NEW x \in Nat, NEW q \in Search \cup {None},
           Bounded(x, q), Scanning(x, q)
    PROVE  Scanning(x, q)'
<1> SUFFICES ASSUME q # None PROVE Scanning(x, q)'
  BY DEF Scanning
<1>1. q \in Search /\ q.lower \in Observation /\ Seen(q.lower)
  BY DEF Search, Scanning
<1>2. Seen(q.lower)'
  BY <1>1, SeenStays
<1>3. ASSUME q.through # None
      PROVE  /\ q.through.num <= durable'
             /\ Canonical(q.through)' /\ Canonical(AnchorPart(q.lower))'
             /\ Unused(x, q.lower.num + 1, q.through.num)'
  <2>1. /\ q.through.num <= durable /\ Canonical(q.through)
        /\ Canonical(AnchorPart(q.lower))
        /\ Unused(x, q.lower.num + 1, q.through.num)
        /\ q.through.num > q.lower.num
    BY <1>3 DEF Scanning, Bounded
  <2>2. PICK low \in Nat, hi \in Nat :
          low = q.lower.num /\ hi = q.through.num /\ low >= 1 /\ hi >= 1
    BY <1>1, <1>3 DEF Search, Observation, Anchor
  <2>3. /\ durable \in Nat /\ durable' \in Nat /\ durable <= durable'
        /\ durable' <= Len(chain')
        /\ \A k \in 1..durable : k \in 1..Len(chain') /\ chain'[k] = chain[k]
    BY DurablePrefix, ChainFacts
  <2>4. low \in 1..durable /\ hi \in 1..durable /\ hi <= durable'
    BY <2>1, <2>2, <2>3
  <2>5. Canonical(q.through)'
    BY <2>1, <2>2, <2>3, <2>4 DEF Canonical
  <2>6. Canonical(AnchorPart(q.lower))'
    BY <2>1, <2>2, <2>3, <2>4 DEF Canonical, AnchorPart
  <2>7. ASSUME NEW k \in (low + 1)..hi, chain'[k].tx # None
        PROVE  chain'[k].tx.nonce # x
    <3>1. k \in 1..durable
      BY <2>2, <2>3, <2>4
    <3> QED
      BY <2>1, <2>2, <2>3, <2>7, <3>1 DEF Unused
  <2>8. Unused(x, q.lower.num + 1, q.through.num)'
    BY <2>2, <2>7 DEF Unused
  <2> QED
    BY <2>2, <2>4, <2>5, <2>6, <2>8
<1> QED
  BY <1>2, <1>3 DEF Scanning

LEMMA GapStays ==
    ASSUME AInv, ChainNext, NEW x, Gap(x)
    PROVE  Gap(x)'
<1>1. PICK k \in 2..durable : /\ chain[k].tx = None
                              /\ chain[k].nonce > chain[k - 1].nonce
                              /\ chain[k - 1].nonce >= x
  BY DEF Gap
<1>2. durable \in Nat /\ durable' \in Nat /\ durable <= durable'
  BY DurablePrefix, ChainFacts
<1>3. k \in 1..durable /\ k - 1 \in 1..durable /\ k \in 2..durable'
  BY <1>2
<1>4. chain'[k] = chain[k] /\ chain'[k - 1] = chain[k - 1]
  BY <1>3, DurablePrefix
<1> QED
  BY <1>1, <1>3, <1>4 DEF Gap

LEMMA SupportStays ==
    ASSUME AInv, ChainNext, NEW s \in Snapshot, ValidSnapshot(s), Supported(s)
    PROVE  Supported(s)'
<1>1. Seen(s.lastObs)'
  BY SnapshotFields, SeenStays DEF Supported
<1>2. ASSUME NEW i \in 1..Len(s.attempts)
      PROVE  Searched(s.attempts[i])'
  <2>1. PICK a : a = s.attempts[i]
    OBVIOUS
  <2>2. a \in Attempt /\ ValidAttempt(a) /\ Searched(a)
    BY <2>1, SnapshotFields DEF ValidSnapshot, Supported
  <2>3. /\ a.nonce \in Nat /\ a.search \in Search \cup {None}
        /\ Bounded(a.nonce, a.search) /\ Scanning(a.nonce, a.search)
    BY <2>2 DEF Attempt, ValidAttempt, Bounded, Searched
  <2>4. Scanning(a.nonce, a.search)'
    BY <2>3, ScanningStays
  <2> QED
    BY <2>1, <2>4 DEF Searched
<1> QED
  BY <1>1, <1>2 DEF Supported

\* Of a snapshot held, Supported says what it says of its value.
LEMMA SameSupport ==
    ASSUME NEW s
    PROVE  /\ disk' = s => (Supported(disk)' <=> Supported(s)')
           /\ current' = s => (Supported(current)' <=> Supported(s)')
           /\ pending' = s => (Supported(pending)' <=> Supported(s)')
<1>1. disk' = s => (Supported(disk)' <=> Supported(s)')
  BY DEF Supported, Searched, Scanning, Seen, Unused, Canonical, AnchorPart
<1>2. current' = s => (Supported(current)' <=> Supported(s)')
  BY DEF Supported, Searched, Scanning, Seen, Unused, Canonical, AnchorPart
<1>3. pending' = s => (Supported(pending)' <=> Supported(s)')
  BY DEF Supported, Searched, Scanning, Seen, Unused, Canonical, AnchorPart
<1> QED
  BY <1>1, <1>2, <1>3

\* What was concluded from durable blocks stands while the chain moves.
LEMMA ChainKeepsEvidence ==
    ASSUME EInv, ChainNext, UNCHANGED <<disk, memVars>>
    PROVE  (Steps /\ AllSupported /\ Exhaustion)'
<1>1. /\ AInv /\ Steps /\ AllSupported /\ Exhaustion
      /\ UNCHANGED <<disk, up, current, pending, write, op, blockers>>
  BY DEF EInv, memVars
<1>2. \A s \in {disk, current, pending} :
        s # None => s \in Snapshot /\ ValidSnapshot(s) /\ Supported(s)
  BY <1>1, Held DEF AllSupported
<1>3. /\ disk # None => Supported(disk)'
      /\ current # None => Supported(current)'
      /\ pending # None => Supported(pending)'
  <2>1. ASSUME NEW s \in {disk, current, pending}, s # None
        PROVE  Supported(s)'
    BY <1>1, <1>2, <2>1, SupportStays
  <2>2. PICK d : d = disk
    OBVIOUS
  <2>3. PICK c : c = current
    OBVIOUS
  <2>4. PICK p : p = pending
    OBVIOUS
  <2>5. /\ d # None => Supported(d)'
        /\ c # None => Supported(c)'
        /\ p # None => Supported(p)'
    BY <2>1, <2>2, <2>3, <2>4
  <2>6. disk' = d /\ current' = c /\ pending' = p
    BY <1>1, <2>2, <2>3, <2>4
  <2>7. /\ Supported(disk)' <=> Supported(d)'
        /\ Supported(current)' <=> Supported(c)'
        /\ Supported(pending)' <=> Supported(p)'
    BY <2>6, SameSupport
  <2> QED
    BY <2>2, <2>3, <2>4, <2>5, <2>7
<1>4. AllSupported'
  BY <1>1, <1>3 DEF AllSupported
<1>5. ASSUME NEW x, Gap(x) PROVE Gap(x)'
  BY <1>1, <1>5, GapStays
<1>6. Exhaustion'
  <2>1. PICK c, p : c = current.durableNext /\ p = pending.durableNext
    OBVIOUS
  <2>2. (Gap(c) => Gap(c)') /\ (Gap(p) => Gap(p)')
    BY <1>5
  <2>3. c = (current.durableNext)' /\ p = (pending.durableNext)'
    BY <1>1, <2>1
  <2>4. /\ Gap(current.durableNext) => Gap(current.durableNext)'
        /\ Gap(pending.durableNext) => Gap(pending.durableNext)'
    BY <2>1, <2>2, <2>3 DEF Gap
  <2> QED
    BY <1>1, <2>4 DEF Exhaustion
<1> QED
  BY <1>1, <1>4, <1>6, StepsStay

-----------------------------------------------------------------------------
(* The steps of the coordinator.                                           *)

\* While the chain stands still, support depends on the snapshot only.
LEMMA SupportKept ==
    ASSUME Steps, AllSupported, UNCHANGED <<chain, minted, durable>>,
           NEW t, t # None => Supported(t),
           disk' \in {disk, pending, t}, current' \in {disk, current, pending, None},
           pending' \in {pending, None, t}
    PROVE  Steps' /\ AllSupported' /\ \A x : Gap(x) => Gap(x)'
<1>1. Steps' /\ \A x : Gap(x) => Gap(x)'
  BY DEF Steps, Gap
<1>2. ASSUME NEW s, Supported(s)
      PROVE  Supported(s)'
  BY <1>2 DEF Supported, Searched, Scanning, Seen, Unused, Canonical, AnchorPart
<1>3. \A s \in {disk, current, pending, t} : s # None => Supported(s)
  BY DEF AllSupported
<1>4. ASSUME disk' # None PROVE Supported(disk)'
  <2>1. PICK d : d = disk'
    OBVIOUS
  <2>2. Supported(d)'
    BY <1>2, <1>3, <1>4, <2>1
  <2> QED
    BY <2>1, <2>2, SameSupport
<1>5. ASSUME current' # None PROVE Supported(current)'
  <2>1. PICK c : c = current'
    OBVIOUS
  <2>2. Supported(c)'
    BY <1>2, <1>3, <1>5, <2>1
  <2> QED
    BY <2>1, <2>2, SameSupport
<1>6. ASSUME pending' # None PROVE Supported(pending)'
  <2>1. PICK p : p = pending'
    OBVIOUS
  <2>2. Supported(p)'
    BY <1>2, <1>3, <1>6, <2>1
  <2> QED
    BY <2>1, <2>2, SameSupport
<1> QED
  BY <1>1, <1>4, <1>5, <1>6 DEF AllSupported

\* A search that is recorded to have reached the observed block has met a gap.
LEMMA LatchedIsReal ==
    ASSUME AInv, Steps, NEW s \in Snapshot, ValidSnapshot(s), Supported(s),
           ExhaustedIn(s)
    PROVE  Gap(s.durableNext)
<1>1. PICK i : i = FirstUnresolved(s.attempts)
  OBVIOUS
<1>2. PICK a : a = s.attempts[i]
  OBVIOUS
<1>3. /\ i # 0 /\ a.search # None /\ a.search.through # None
      /\ s.lastObs.nonce > a.nonce
      /\ a.search.through = AnchorPart(s.lastObs)
  BY <1>1, <1>2 DEF ExhaustedIn, Unresolved
<1>4. /\ s.attempts \in Seq(Attempt) /\ Len(s.attempts) \in Nat
      /\ s.durableNext \in Nat /\ s.lastObs \in Observation
  BY SnapshotFields
<1>5. i \in 1..Len(s.attempts)
  BY <1>1, <1>3, <1>4, FirstUnresolvedRange
<1>6. /\ a \in Attempt /\ ValidAttempt(a) /\ Searched(a)
      /\ a.nonce = s.durableNext + i - 1 /\ Seen(s.lastObs)
  BY <1>2, <1>5, SnapshotFields DEF ValidSnapshot, Supported
<1>7. PICK q : q = a.search
  OBVIOUS
<1>8. /\ q \in Search /\ q.lower \in Observation /\ a.nonce \in Nat
      /\ q # None /\ q.through # None
  BY <1>3, <1>6, <1>7 DEF Attempt, Search
<1>9. /\ q.lower.nonce <= a.nonce /\ q.through.num > q.lower.num
      /\ Seen(q.lower) /\ q.through.num <= durable
      /\ Canonical(q.through) /\ Canonical(AnchorPart(q.lower))
      /\ Unused(a.nonce, q.lower.num + 1, q.through.num)
  BY <1>6, <1>7, <1>8 DEF ValidAttempt, Searched, Scanning
<1>10. PICK l \in Nat \ {0}, m \in Nat \ {0} : l = q.lower.num /\ m = q.through.num
  BY <1>3, <1>4, <1>7, <1>8 DEF Observation, AnchorPart
<1>11. m = s.lastObs.num
  BY <1>3, <1>7, <1>10 DEF AnchorPart
<1>12. Len(chain) \in Nat /\ durable \in Nat /\ durable <= Len(chain)
  BY ChainFacts
<1>13. l \in 1..Len(chain) /\ m \in 1..Len(chain) /\ m <= durable
  BY <1>9, <1>10, <1>12
<1>14. chain[l].nonce <= a.nonce /\ chain[m].nonce > a.nonce
  <2>1. chain[l].nonce = q.lower.nonce
    BY <1>9, <1>10 DEF Seen
  <2>2. chain[m].nonce = s.lastObs.nonce
    BY <1>3, <1>6, <1>7, <1>9, <1>11 DEF Seen
  <2> QED
    BY <1>3, <1>9, <2>1, <2>2
<1>15. Unused(a.nonce, l + 1, m)
  BY <1>9, <1>10
<1>16. PICK k \in 2..m : /\ chain[k].tx = None
                         /\ chain[k].nonce > chain[k - 1].nonce
                         /\ chain[k - 1].nonce = a.nonce
  BY <1>8, <1>13, <1>14, <1>15, NonceMoves
<1>17. k \in 2..durable /\ a.nonce >= s.durableNext
  BY <1>4, <1>5, <1>6, <1>12, <1>13
<1> QED
  BY <1>16, <1>17 DEF Gap

\* What EInv says of the snapshots and of the operation.
LEMMA EParts ==
    ASSUME EInv
    PROVE  /\ AInv /\ Steps /\ AllSupported /\ Exhaustion
           /\ TypeOK /\ FileIsKnown /\ OperationState
           /\ \A s \in {disk, current, pending} :
                s # None => s \in Snapshot /\ ValidSnapshot(s) /\ Supported(s)
BY Held, Parts DEF EInv, AllSupported

\* Steps that write nothing new and raise no blocker.
LEMMA QuietKeepsEvidence ==
    ASSUME EInv,
           UNCHANGED <<chain, minted, durable, up, current, pending, write, blockers>>,
           disk' \in {disk, pending},
           op' # None /\ op'.kind = "broadcast" => blockers = {}
    PROVE  (Steps /\ AllSupported /\ Exhaustion)'
<1>1. Steps /\ AllSupported /\ Exhaustion
  BY EParts
<1>2. Steps' /\ AllSupported' /\ \A x : Gap(x) => Gap(x)'
  BY <1>1, SupportKept
<1>3. Exhaustion'
  BY <1>1 DEF Exhaustion, Gap
<1> QED
  BY <1>2, <1>3

\* A new snapshot is about to be written.
LEMMA SaveKeepsEvidence ==
    ASSUME EInv,
           UNCHANGED <<chain, minted, durable, disk, up, current, blockers>>,
           NEW t, Supported(t), pending' = t,
           NEW kind, NEW exhausted,
           write' = [kind |-> kind, exhausted |-> exhausted],
           kind = "search-progress" /\ exhausted => Gap(t.durableNext),
           current # None /\ kind # "resolution" =>
               t.durableNext = current.durableNext,
           op' # None /\ op'.kind = "broadcast" => blockers = {}
    PROVE  (Steps /\ AllSupported /\ Exhaustion)'
<1>1. Steps /\ AllSupported /\ Exhaustion
  BY EParts
<1>2. Steps' /\ AllSupported' /\ \A x : Gap(x) => Gap(x)'
  BY <1>1, SupportKept
<1>3. write'.kind = kind /\ write'.exhausted = exhausted
  OBVIOUS
<1>4. Exhaustion'
  BY <1>1, <1>3 DEF Exhaustion, Gap
<1> QED
  BY <1>2, <1>4

\* A write is acknowledged: the blockers are about what was written.
LEMMA FinishKeepsEvidence ==
    ASSUME EInv, up, op # None, op.stage = "write", UNCHANGED <<chain, minted, durable, up>>,
           Committed, FinishWrite, op' = None
    PROVE  (Steps /\ AllSupported /\ Exhaustion)'
<1>1. /\ AInv /\ Steps /\ AllSupported /\ Exhaustion /\ FileIsKnown
  BY EParts
<1>2. /\ pending # None /\ pending \in Snapshot /\ ValidSnapshot(pending)
      /\ Supported(pending)
      /\ disk' = pending /\ current' = pending /\ pending' = None
  BY <1>1, EParts DEF FileIsKnown, Committed
<1>3. Steps' /\ AllSupported' /\ \A x : Gap(x) => Gap(x)'
  BY <1>1, <1>2, SupportKept
<1>4. Exhausted \in Latched(pending) => Gap(pending.durableNext)
  <2>1. Exhausted \in Latched(pending) => ExhaustedIn(pending)
    BY DEF Latched, Unattributed, Exhausted
  <2> QED
    BY <1>1, <1>2, <2>1, LatchedIsReal
<1> DEFINE rest == CASE write.kind = "resolution" -> blockers \ {Exhausted}
                     [] write.kind = "search-progress" /\ write.exhausted ->
                          blockers \cup {Exhausted}
                     [] write.kind = "search-progress" /\ ~write.exhausted ->
                          blockers \ {Exhausted}
                     [] OTHER -> blockers
<1>5. blockers' = rest \cup Latched(pending)
  BY DEF FinishWrite
<1>6. Exhausted \in rest => Gap(pending.durableNext)
  <2> SUFFICES ASSUME Exhausted \in rest PROVE Gap(pending.durableNext)
    OBVIOUS
  <2>1. CASE write.kind = "search-progress" /\ write.exhausted
    BY <1>1, <1>2, <2>1 DEF Exhaustion
  <2>2. CASE ~(write.kind = "search-progress" /\ write.exhausted)
    <3>1. write.kind # "resolution" /\ Exhausted \in blockers
      BY <2>2
    <3>2. /\ current # None /\ Gap(current.durableNext)
          /\ pending.durableNext = current.durableNext
      BY <1>1, <1>2, <3>1 DEF Exhaustion
    <3> QED
      BY <3>2
  <2> QED
    BY <2>1, <2>2
<1> HIDE DEF rest
<1>7. Exhausted \in blockers' => Gap(pending.durableNext)
  BY <1>4, <1>5, <1>6
<1>8. Exhaustion'
  BY <1>2, <1>7 DEF Exhaustion, Gap
<1> QED
  BY <1>3, <1>8

LEMMA CommitsKeepEvidence ==
    ASSUME EInv,
           \/ RetryCommits \/ RecoverCommits \/ InclusionsCommit
           \/ PrepareCommits \/ BroadcastMarked
    PROVE  (Steps /\ AllSupported /\ Exhaustion)'
<1>1. /\ AInv /\ Steps /\ AllSupported /\ Exhaustion /\ FileIsKnown
      /\ TypeOK /\ OperationState
  BY EParts
<1>2. ASSUME RetryCommits \/ RecoverCommits \/ InclusionsCommit \/ PrepareCommits
      PROVE  (Steps /\ AllSupported /\ Exhaustion)'
  <2>1. /\ up /\ op # None /\ op.stage = "write" /\ Committed /\ FinishWrite
        /\ op' = None /\ UNCHANGED <<chain, minted, durable, up>>
    BY <1>1, <1>2 DEF RetryCommits, RecoverCommits, InclusionsCommit, PrepareCommits,
       OperationState, chainVars
  <2> QED
    BY <2>1, FinishKeepsEvidence
<1>3. ASSUME BroadcastMarked
      PROVE  (Steps /\ AllSupported /\ Exhaustion)'
  <2>1. /\ op # None /\ op.kind = "broadcast"
        /\ disk' = pending /\ current' = pending /\ pending' = None
        /\ UNCHANGED <<chain, minted, durable, blockers>>
    BY <1>3 DEF BroadcastMarked, Committed, chainVars
  <2>2. blockers = {}
    BY <1>1, <2>1 DEF Exhaustion
  <2>3. Steps' /\ AllSupported'
    BY <1>1, <2>1, SupportKept
  <2>4. Exhaustion'
    BY <2>1, <2>2 DEF Exhaustion
  <2> QED
    BY <2>3, <2>4
<1> QED
  BY <1>2, <1>3

LEMMA ProcessKeepsEvidence ==
    ASSUME EInv, Process
    PROVE  (Steps /\ AllSupported /\ Exhaustion)'
<1>1. /\ AInv /\ Steps /\ AllSupported /\ Exhaustion /\ FileIsKnown
  BY EParts
<1>2. CASE Start
  <2>1. /\ up' /\ current' = disk /\ disk' = disk /\ pending' = None /\ op' = None
        /\ blockers' = Latched(disk) /\ UNCHANGED <<chain, minted, durable>>
    BY <1>1, <1>2 DEF Start, FileIsKnown, chainVars
  <2>2. Steps' /\ AllSupported' /\ \A x : Gap(x) => Gap(x)'
    <3>1. pending' = pending
      BY <1>2 DEF Start
    <3> QED
      BY <1>1, <2>1, <3>1, SupportKept
  <2>3. Exhausted \in Latched(disk) => disk # None /\ Gap(disk.durableNext)
    <3>1. Exhausted \in Latched(disk) => ExhaustedIn(disk)
      BY DEF Latched, Unattributed, Exhausted
    <3>2. ExhaustedIn(disk) => disk # None
      BY DEF ExhaustedIn
    <3>3. disk # None => disk \in Snapshot /\ ValidSnapshot(disk) /\ Supported(disk)
      BY EParts
    <3> QED
      BY <1>1, <3>1, <3>2, <3>3, LatchedIsReal
  <2>4. Exhaustion'
    BY <2>1, <2>3 DEF Exhaustion, Gap
  <2> QED
    BY <2>2, <2>4
<1>3. CASE Crash
  <2>1. /\ disk' \in {disk, pending} /\ current' = None /\ pending' = None
        /\ op' = None /\ blockers' = {} /\ UNCHANGED <<chain, minted, durable>>
    BY <1>3 DEF Crash, Down, chainVars
  <2>2. Steps' /\ AllSupported'
    BY <1>1, <2>1, SupportKept
  <2>3. Exhaustion'
    BY <2>1 DEF Exhaustion
  <2> QED
    BY <2>2, <2>3
<1> QED
  BY <1>2, <1>3 DEF Process

LEMMA QuietStepsKeepEvidence ==
    ASSUME EInv,
           \/ WriteFails \/ RetryPersistence \/ Inspection
           \/ RecoverBegin \/ RecoverGivesUp
           \/ InclusionsBegin \/ InclusionsGiveUp \/ InclusionsContradict
           \/ PrepareBegin \/ PrepareRefused
           \/ BroadcastSend \/ BroadcastLost
           \/ UNCHANGED vars
    PROVE  (Steps /\ AllSupported /\ Exhaustion)'
<1>1. Exhaustion
  BY EParts
<1>2. CASE WriteFails
  BY <1>2, QuietKeepsEvidence DEF WriteFails, chainVars
<1>3. CASE RetryPersistence
  BY <1>3, QuietKeepsEvidence DEF RetryPersistence, Begin, chainVars
<1>4. CASE Inspection
  <2>1. /\ UNCHANGED <<chain, minted, durable, disk, up, current, pending, write, blockers>>
        /\ op' = op \/ op' = None \/ op'.kind = "open-head"
    <3>1. CASE BeginInspection \/ FinishInspection \/ AbandonInspection
               \/ CompleteAbandonment
      BY <3>1 DEF BeginInspection, FinishInspection, AbandonInspection,
         CompleteAbandonment, chainVars
    <3>2. CASE OpenHeadBegin
      <4>1. op'.kind = "open-head"
        BY <3>2 DEF OpenHeadBegin, Begin
      <4>2. UNCHANGED <<chainVars, disk, up, current, pending, pstate, write,
                        recovered, inclusions, permit, blockers>>
        BY <3>2 DEF OpenHeadBegin
      <4> QED
        BY <4>1, <4>2 DEF chainVars
    <3>3. CASE OpenHeadEnd
      BY <3>3 DEF OpenHeadEnd, chainVars
    <3> QED
      BY <1>4, <3>1, <3>2, <3>3 DEF Inspection
  <2> QED
    BY <1>1, <2>1, QuietKeepsEvidence DEF Exhaustion
<1>5. CASE RecoverBegin
  BY <1>5, QuietKeepsEvidence DEF RecoverBegin, Begin, chainVars
<1>6. CASE RecoverGivesUp
  BY <1>6, QuietKeepsEvidence DEF RecoverGivesUp, chainVars
<1>7. CASE InclusionsBegin
  BY <1>7, QuietKeepsEvidence DEF InclusionsBegin, Begin, chainVars
<1>8. CASE InclusionsGiveUp
  BY <1>8, QuietKeepsEvidence DEF InclusionsGiveUp, chainVars
<1>9. CASE InclusionsContradict
  <2>1. /\ op' = None
        /\ UNCHANGED <<chainVars, disk, up, current, pending, pstate, write,
                       inclusions, permit, blockers>>
    BY <1>9 DEF InclusionsContradict, InclusionsContradictAt
  <2> QED
    BY <2>1, QuietKeepsEvidence DEF chainVars
<1>10. CASE PrepareBegin
  <2>1. PICK id \in AttemptIds : PrepareBeginFor(id)
    BY <1>10 DEF PrepareBegin
  <2> QED
    BY <2>1, QuietKeepsEvidence DEF PrepareBeginFor, chainVars
<1>11. CASE PrepareRefused
  BY <1>11, QuietKeepsEvidence DEF PrepareRefused, chainVars
<1>12. CASE BroadcastSend \/ BroadcastLost
  BY <1>12, QuietKeepsEvidence DEF BroadcastSend, BroadcastLost, Deliver, chainVars
<1>13. CASE UNCHANGED vars
  BY <1>1, <1>13, QuietKeepsEvidence DEF vars, memVars, chainVars, Exhaustion
<1> QED
  BY <1>2, <1>3, <1>4, <1>5, <1>6, <1>7, <1>8, <1>9, <1>10, <1>11, <1>12, <1>13

LEMMA BootstrapKeepsEvidence ==
    ASSUME EInv, RecoverBootstraps
    PROVE  (Steps /\ AllSupported /\ Exhaustion)'
<1>1. AInv /\ TypeOK
  BY EParts
<1>2. PICK n \in RecoveryAnchors : RecoverBootstrapsAt(n)
  BY DEF RecoverBootstraps
<1>3. n \in 1..Len(chain)
  BY <1>1 DEF TypeOK, ChainTypeOK, RecoveryAnchors
<1>4. PICK t : t = [baseline |-> chain[n].nonce, next |-> chain[n].nonce,
                    durableNext |-> chain[n].nonce, lastObs |-> AnchoredNonce(n),
                    repairs |-> <<>>, attempts |-> <<>>]
  OBVIOUS
<1>5. /\ pending' = t /\ write' = [kind |-> "bootstrap", exhausted |-> FALSE]
      /\ current = None /\ op' = [op EXCEPT !.stage = "write"]
      /\ op.kind = "recover"
      /\ UNCHANGED <<chainVars, disk, up, current, recovered, inclusions, permit,
                     blockers, owner>>
  BY <1>2, <1>4 DEF RecoverBootstrapsAt, Save, Reading
<1>6. Supported(t)
  <2>1. t.lastObs = AnchoredNonce(n) /\ t.attempts = <<>>
    BY <1>4
  <2>2. Seen(AnchoredNonce(n))
    BY <1>1, <1>3, ReadIsSeen
  <2>3. Len(t.attempts) = 0
    BY <2>1
  <2> QED
    BY <2>1, <2>2, <2>3 DEF Supported
<1>7. op'.kind = "recover"
  <2>1. op # None /\ op \in Op
    BY <1>1, <1>2 DEF RecoverBootstrapsAt, Reading, TypeOK
  <2> QED
    BY <1>5, <2>1 DEF Op
<1> QED
  BY <1>5, <1>6, <1>7, SaveKeepsEvidence DEF chainVars

LEMMA RecoveryKeepsEvidence ==
    ASSUME EInv, RecoverInspects
    PROVE  (Steps /\ AllSupported /\ Exhaustion)'
<1>1. AInv /\ Steps /\ TypeOK
  BY EParts
<1>2. PICK n \in RecoveryAnchors, served \in BOOLEAN : RecoverInspectsAt(n, served)
  BY DEF RecoverInspects
<1>3. PICK r : r = InspectRecovery(current, n, served)
  OBVIOUS
<1>4. PICK t : t = RecoverySnapshot(current, r)
  OBVIOUS
<1>5. /\ pending' = t
      /\ write' = [kind |-> RecoveryWriteKind(r), exhausted |-> r.search.exhausted]
      /\ up /\ current # None /\ op # None /\ op.kind = "recover"
      /\ op' = [op EXCEPT !.stage = "write", !.permit = RecoveryPermit(current, r)]
      /\ UNCHANGED <<chainVars, disk, up, current, recovered, inclusions, permit,
                     blockers, owner>>
  BY <1>2, <1>3, <1>4 DEF RecoverInspectsAt, Save, Reading
<1>6. Base(current) /\ Supported(current)
  BY <1>1, <1>5, Held, EParts
<1>7. /\ Supported(t)
      /\ RecoveryWriteKind(r) # "resolution" => t.durableNext = current.durableNext
      /\ (RecoveryWriteKind(r) = "search-progress" /\ r.search.exhausted) =>
           Gap(t.durableNext)
  BY <1>1, <1>3, <1>4, <1>6, RecoverySupports
<1>8. op'.kind = "recover"
  <2>1. op \in Op
    BY <1>1, <1>5 DEF TypeOK
  <2> QED
    BY <1>5, <2>1 DEF Op
<1> QED
  BY <1>5, <1>7, <1>8, SaveKeepsEvidence DEF chainVars

\* What an inclusion pass records is supported by the chain.
LEMMA InclusionSupports ==
    ASSUME AInv, NEW n \in 1..Len(chain), NEW servedAt, NEW s, Base(s), Supported(s),
           NEW r, r = InspectInclusions(s, n, servedAt), r.status = "inspected",
           NEW t, t.lastObs = ObservationToKeep(s, r.obs), t.attempts = r.attempts
    PROVE  Supported(t)
<1>1. /\ ChainTypeOK /\ s \in Snapshot /\ ValidSnapshot(s)
      /\ Unattributed \in blockers <=> UnattributedIn(s)
  BY Held DEF Base
<1>3. PICK o : o = ObservationToKeep(s, r.obs)
  OBVIOUS
<1>5. r.obs = AnchoredNonce(n) /\ Len(r.attempts) = Len(s.attempts)
  BY <1>1, InclusionEffect
<1>6. Seen(o)
  <2>1. Seen(AnchoredNonce(n)) /\ AnchoredNonce(n) \in Observation
    BY ReadIsSeen
  <2>2. o \in {s.lastObs, AnchoredNonce(n)}
    BY <1>1, <1>3, <1>5, <2>1, EvidenceIsKept
  <2> QED
    BY <2>1, <2>2 DEF Supported
<1>7. ASSUME NEW i \in 1..Len(s.attempts)
      PROVE  Searched(r.attempts[i])
  <2>1. SearchStays(s.attempts[i], r.attempts[i])
    BY <1>1, InclusionStays
  <2>2. s.attempts[i] \in Attempt /\ Searched(s.attempts[i])
    BY <1>1, SnapshotFields DEF Supported
  <2> QED
    BY <2>1, <2>2, StayingIsSearched
<1> QED
  BY <1>3, <1>5, <1>6, <1>7 DEF Supported

LEMMA InclusionKeepsEvidence ==
    ASSUME EInv, InclusionsInspect
    PROVE  (Steps /\ AllSupported /\ Exhaustion)'
<1>1. AInv /\ TypeOK /\ OperationState
  BY EParts
<1>2. PICK n \in InclusionHeads, servedAt \in SUBSET (1..Len(current.attempts)) :
        InclusionsInspectAt(n, servedAt)
  BY DEF InclusionsInspect
<1>3. PICK r : r = InspectInclusions(current, n, servedAt)
  OBVIOUS
<1>4. PICK t : t = [current EXCEPT !.lastObs = ObservationToKeep(current, r.obs),
                                   !.attempts = r.attempts]
  OBVIOUS
<1>5. /\ pending' = t /\ up /\ r.status = "inspected"
      /\ write' = [kind |-> "observation", exhausted |-> FALSE]
      /\ op # None /\ op.kind = "inclusions"
      /\ op' = [op EXCEPT !.stage = "write", !.permit = r.permit,
                          !.complete = r.complete]
      /\ UNCHANGED <<chainVars, disk, up, current, recovered, inclusions, permit,
                     blockers, owner>>
  BY <1>2, <1>3, <1>4 DEF InclusionsInspectAt, Save, Reading
<1>6. current # None /\ n \in 1..Len(chain)
  BY <1>1, <1>5 DEF OperationState, InclusionHeads
<1>7. Base(current) /\ Supported(current)
  BY <1>1, <1>5, <1>6, Held, EParts
<1>8. Supported(t) /\ t.durableNext = current.durableNext
  <2>1. AInv /\ n \in 1..Len(chain) /\ Base(current) /\ Supported(current)
        /\ InspectInclusions(current, n, servedAt).status = "inspected"
    BY <1>1, <1>3, <1>5, <1>6, <1>7
  <2>2. current \in Snapshot
    BY <2>1 DEF Base
  <2>3. /\ t.lastObs = ObservationToKeep(current, r.obs) /\ t.attempts = r.attempts
        /\ t.durableNext = current.durableNext
    BY <1>4, <2>2 DEF Snapshot
  <2> QED
    BY <1>3, <1>5, <2>1, <2>3, InclusionSupports
<1>9. op'.kind = "inclusions"
  <2>1. op \in Op
    BY <1>1, <1>5 DEF TypeOK
  <2> QED
    BY <1>5, <2>1 DEF Op
<1> QED
  BY <1>5, <1>8, <1>9, SaveKeepsEvidence DEF chainVars

LEMMA PreparationKeepsEvidence ==
    ASSUME EInv, PrepareSigned
    PROVE  (Steps /\ AllSupported /\ Exhaustion)'
<1>1. AInv /\ TypeOK /\ OperationState
  BY EParts
<1>2. PICK q : q = [lower |-> current.lastObs, through |-> None]
  OBVIOUS
<1>3. PICK a : a = [id |-> op.permit, nonce |-> current.next, phase |-> "signed",
                    incl |-> None, seen |-> None, search |-> q]
  OBVIOUS
<1>4. PICK as : as = Append(current.attempts, a)
  OBVIOUS
<1>5. PICK t : t = [current EXCEPT !.next = @ + 1, !.attempts = as]
  OBVIOUS
<1>6. /\ pending' = t /\ write' = [kind |-> "prepared", exhausted |-> FALSE]
      /\ op # None /\ op.kind = "prepare"
      /\ op' = [op EXCEPT !.stage = "write"]
      /\ UNCHANGED <<chainVars, disk, up, current, recovered, permit, blockers, owner>>
  BY <1>2, <1>3, <1>4, <1>5 DEF PrepareSigned, Save
<1>7. current # None /\ current \in Snapshot /\ Supported(current)
  <2>1. current # None
    BY <1>1, <1>6 DEF OperationState
  <2> QED
    BY <2>1, EParts
<1>8. /\ t.lastObs = current.lastObs /\ t.attempts = as
      /\ t.durableNext = current.durableNext
  BY <1>5, <1>7 DEF Snapshot
<1>9. Searched(a)
  <2>1. /\ a.search = q /\ q.lower = current.lastObs /\ q.through = None
        /\ Seen(current.lastObs)
    BY <1>2, <1>3, <1>7 DEF Supported
  <2> QED
    BY <2>1 DEF Searched, Scanning
<1>10. /\ current.attempts \in Seq(Attempt) /\ Len(current.attempts) \in Nat
       /\ Len(as) = Len(current.attempts) + 1
       /\ \A i \in 1..Len(current.attempts) : as[i] = current.attempts[i]
       /\ as[Len(current.attempts) + 1] = a
  BY <1>4, <1>7, SnapshotFields
<1>11. ASSUME NEW i \in 1..Len(as) PROVE Searched(as[i])
  <2>1. CASE i \in 1..Len(current.attempts)
    BY <1>7, <1>10, <2>1 DEF Supported
  <2>2. CASE i \notin 1..Len(current.attempts)
    <3>1. i = Len(current.attempts) + 1
      BY <1>10, <2>2
    <3> QED
      BY <1>9, <1>10, <3>1
  <2> QED
    BY <2>1, <2>2
<1>12. Supported(t)
  BY <1>7, <1>8, <1>11 DEF Supported
<1>13. op'.kind = "prepare"
  <2>1. op \in Op
    BY <1>1, <1>6 DEF TypeOK
  <2> QED
    BY <1>6, <2>1 DEF Op
<1> QED
  BY <1>6, <1>8, <1>12, <1>13, SaveKeepsEvidence DEF chainVars

LEMMA BroadcastBeginKeepsEvidence ==
    ASSUME EInv, BroadcastBegin
    PROVE  (Steps /\ AllSupported /\ Exhaustion)'
<1>1. AInv /\ TypeOK
  BY EParts
<1>2. PICK i : i = FirstUnresolved(current.attempts)
  OBVIOUS
<1>3. PICK a : a = current.attempts[i]
  OBVIOUS
<1>4. /\ blockers = {} /\ current # None /\ i # 0
      /\ UNCHANGED <<chainVars, disk, up, current, blockers, owner>>
  BY <1>2, <1>3 DEF BroadcastBegin, CanBroadcast
<1>5. current \in Snapshot /\ Supported(current)
  BY <1>4, EParts
<1>6. CASE NeedsMark(a)
  <2>1. PICK t : t = [current EXCEPT
                        !.attempts[i].phase = "broadcast-may-have-occurred",
                        !.attempts[i].incl = None,
                        !.attempts[i].seen = None]
    OBVIOUS
  <2>2. pending' = t /\ write' = [kind |-> "broadcast", exhausted |-> FALSE]
    BY <1>2, <1>3, <1>6, <2>1 DEF BroadcastBegin, Save
  <2>3. current.attempts \in Seq(Attempt) /\ Len(current.attempts) \in Nat
        /\ i \in 1..Len(current.attempts) /\ a \in Attempt /\ Searched(a)
    <3>1. current.attempts \in Seq(Attempt) /\ Len(current.attempts) \in Nat
      BY <1>5, SnapshotFields
    <3>2. i \in 1..Len(current.attempts)
      BY <1>2, <1>4, <3>1, FirstUnresolvedRange
    <3> QED
      BY <1>3, <1>5, <3>1, <3>2, SnapshotFields DEF Supported
  <2>4. PICK b : b = [a EXCEPT !.phase = "broadcast-may-have-occurred",
                               !.incl = None, !.seen = None]
    OBVIOUS
  <2>5. b \in Attempt /\ b.nonce = a.nonce /\ b.search = a.search
    BY <2>3, <2>4 DEF Attempt, Phase
  <2>6. PICK as : as = [current.attempts EXCEPT ![i] = b]
    OBVIOUS
  <2>7. /\ t.lastObs = current.lastObs /\ t.attempts = as
        /\ t.durableNext = current.durableNext
    BY <1>3, <1>5, <2>1, <2>3, <2>4, <2>6 DEF Snapshot
  <2>8. /\ Len(as) = Len(current.attempts)
        /\ \A j \in 1..Len(current.attempts) :
             as[j] = IF j = i THEN b ELSE current.attempts[j]
    BY <2>3, <2>5, <2>6, ExceptSeq
  <2>9. Searched(b)
    BY <2>3, <2>5 DEF Searched
  <2>10. Supported(t)
    BY <1>5, <2>7, <2>8, <2>9 DEF Supported
  <2> QED
    BY <1>4, <2>2, <2>7, <2>10, SaveKeepsEvidence DEF chainVars
<1>7. CASE ~NeedsMark(a)
  <2>1. UNCHANGED <<pending, pstate, write>>
    BY <1>2, <1>3, <1>7 DEF BroadcastBegin
  <2> QED
    BY <1>4, <2>1, QuietKeepsEvidence DEF chainVars
<1> QED
  BY <1>6, <1>7

LEMMA EvidencePreserves == EInv /\ [Next]_vars => EInv'
<1> SUFFICES ASSUME EInv, [Next]_vars PROVE (Steps /\ AllSupported /\ Exhaustion)'
  BY AuthorityPreserves DEF EInv
<1>1. CASE Process
  BY <1>1, ProcessKeepsEvidence
<1>2. CASE Persistence
  BY <1>2, QuietStepsKeepEvidence, CommitsKeepEvidence DEF Persistence
<1>3. CASE Inspection
  BY <1>3, QuietStepsKeepEvidence
<1>4. CASE Recovery
  BY <1>4, QuietStepsKeepEvidence, CommitsKeepEvidence, BootstrapKeepsEvidence,
     RecoveryKeepsEvidence DEF Recovery
<1>5. CASE Inclusion
  BY <1>5, QuietStepsKeepEvidence, CommitsKeepEvidence, InclusionKeepsEvidence
     DEF Inclusion
<1>6. CASE Submission
  BY <1>6, QuietStepsKeepEvidence, CommitsKeepEvidence, PreparationKeepsEvidence,
     BroadcastBeginKeepsEvidence DEF Submission
<1>7. CASE ChainNext /\ UNCHANGED <<disk, memVars>>
  BY <1>7, ChainKeepsEvidence
<1>8. CASE UNCHANGED vars
  BY <1>8, QuietStepsKeepEvidence
<1> QED
  BY <1>1, <1>2, <1>3, <1>4, <1>5, <1>6, <1>7, <1>8 DEF Next

LEMMA InitHasEvidence == Init => EInv
<1> SUFFICES ASSUME Init PROVE EInv
  OBVIOUS
<1>1. AInv
  BY InitHasNoAuthority
<1>2. Steps
  <2>1. chain = <<[hash |-> 0, tx |-> None, nonce |-> 0]>>
    BY DEF Init, ChainInit
  <2>2. Len(chain) = 1 /\ chain[1].tx = None
    BY <2>1
  <2> QED
    BY <2>2 DEF Steps
<1>3. AllSupported /\ Exhaustion
  BY DEF Init, AllSupported, Exhaustion
<1> QED
  BY <1>1, <1>2, <1>3 DEF EInv

-----------------------------------------------------------------------------
(* The sync-nonce command.                                                 *)

\* The history with a repair appended to it is valid up to its length.
LEMMA AppendedRepairs ==
    ASSUME NEW s \in Snapshot, ValidSnapshot(s), s.attempts = <<>>,
           NEW o \in Observation, o.nonce > s.next,
           NEW w, w = Append(s.repairs, RepairOf(s, o))
    PROVE  /\ w \in Seq(Repair) /\ Len(w) \in Nat \ {0}
           /\ \A i \in 1..Len(w) : w[i].next > w[i].previous /\ w[i].observed = w[i].next
           /\ \A i \in 2..Len(w) : w[i].previous >= w[i - 1].next
           /\ w[Len(w)].next = o.nonce
<1>1. PICK rs : rs = s.repairs
  OBVIOUS
<1>2. PICK r : r = RepairOf(s, o)
  OBVIOUS
<1>3. PICK m : m = Len(rs)
  OBVIOUS
<1>4. rs \in Seq(Repair) /\ m \in Nat /\ ValidRepairs(s)
  BY <1>1, <1>3, SnapshotFields DEF ValidSnapshot
<1>5. s.next \in Nat /\ s.durableNext \in Nat /\ s.next = s.durableNext
      /\ o.nonce \in Nat
  <2>1. s.next - s.durableNext = 0
    BY DEF ValidSnapshot
  <2> QED
    BY <2>1, SnapshotFields DEF Observation
<1>6. r \in Repair /\ r.previous = s.next /\ r.next = o.nonce /\ r.observed = o.nonce
  BY <1>2, <1>5 DEF RepairOf, Repair
<1>7. /\ w \in Seq(Repair) /\ Len(w) = m + 1 /\ w[m + 1] = r
      /\ \A i \in 1..m : w[i] = rs[i]
  BY <1>1, <1>2, <1>3, <1>4, <1>6, AppendProperties
<1>8. ASSUME NEW i \in 1..Len(w)
      PROVE  w[i].next > w[i].previous /\ w[i].observed = w[i].next
  <2>1. CASE i = m + 1
    BY <1>5, <1>6, <1>7, <2>1
  <2>2. CASE i # m + 1
    <3>1. i \in 1..m
      BY <1>4, <1>7, <2>2
    <3> QED
      BY <1>1, <1>3, <1>4, <1>7, <3>1 DEF ValidRepairs
  <2> QED
    BY <2>1, <2>2
<1>9. ASSUME NEW i \in 2..Len(w)
      PROVE  w[i].previous >= w[i - 1].next
  <2>1. CASE i = m + 1
    <3>1. m \in 1..m /\ rs # <<>> /\ i - 1 = m
      BY <1>1, <1>3, <1>4, <2>1
    <3>2. rs[m] \in Repair
      BY <1>3, <1>4, <3>1, ElementOfSeq
    <3>3. PICK e : e = rs[m].next
      OBVIOUS
    <3>4. e \in Nat /\ e <= s.durableNext
      BY <1>1, <1>3, <1>4, <3>1, <3>2, <3>3 DEF ValidRepairs, Repair
    <3>5. w[i] = r /\ w[i - 1] = rs[m]
      BY <1>7, <2>1, <3>1
    <3> QED
      BY <1>5, <1>6, <3>3, <3>4, <3>5
  <2>2. CASE i # m + 1
    <3>1. i \in 2..m /\ i \in 1..m /\ i - 1 \in 1..m
      BY <1>4, <1>7, <2>2
    <3> QED
      BY <1>1, <1>3, <1>4, <1>7, <3>1 DEF ValidRepairs
  <2> QED
    BY <2>1, <2>2
<1> QED
  BY <1>4, <1>6, <1>7, <1>8, <1>9

\* What the journal keeps of it is a history that validation accepts.
LEMMA RepairHistory ==
    ASSUME NEW s \in Snapshot, ValidSnapshot(s), s.attempts = <<>>,
           NEW o \in Observation, o.nonce > s.next,
           NEW t, t.repairs = LatestRepairs(Append(s.repairs, RepairOf(s, o))),
           t.durableNext = o.nonce
    PROVE  t.repairs \in Seq(Repair) /\ ValidRepairs(t)
<1>1. PICK w : w = Append(s.repairs, RepairOf(s, o))
  OBVIOUS
<1>2. PICK m : m = Len(w)
  OBVIOUS
<1>3. /\ w \in Seq(Repair) /\ m \in Nat \ {0}
      /\ \A i \in 1..m : w[i].next > w[i].previous /\ w[i].observed = w[i].next
      /\ \A i \in 2..m : w[i].previous >= w[i - 1].next
      /\ w[m].next = o.nonce
  BY <1>1, <1>2, AppendedRepairs
<1>4. MaxRepairs \in Nat \ {0} /\ o.nonce \in Nat
  BY InspectionAssumption DEF Observation
<1>5. PICK k : k = IF m > MaxRepairs THEN m - MaxRepairs ELSE 0
  OBVIOUS
<1>6. k \in Nat /\ k < m /\ m - k <= MaxRepairs
  BY <1>3, <1>4, <1>5
<1>7. PICK v : v = LatestRepairs(w)
  OBVIOUS
<1>8. /\ v \in Seq(Repair) /\ Len(v) = m - k
      /\ \A i \in 1..(m - k) : v[i] = w[i + k]
  <2>1. CASE m > MaxRepairs
    <3>1. v = SubSeq(w, k + 1, m)
      <4>1. m - MaxRepairs + 1 = k + 1
        BY <1>3, <1>4, <1>5, <2>1
      <4> QED
        BY <1>2, <1>7, <2>1, <4>1 DEF LatestRepairs
    <3>2. k + 1 \in Int /\ m \in Int /\ \A i \in (k + 1)..m : w[i] \in Repair
      <4>1. \A i \in (k + 1)..m : i \in 1..Len(w)
        BY <1>2, <1>3, <1>6
      <4> QED
        BY <1>3, <1>6, <4>1, ElementOfSeq
    <3>3. v \in Seq(Repair)
      BY <3>1, <3>2, SubSeqProperties
    <3>4. Len(v) = IF k + 1 <= m THEN m - (k + 1) + 1 ELSE 0
      BY <3>1, <3>2, SubSeqProperties
    <3>5. \A i \in 1..(m - (k + 1) + 1) : v[i] = w[(k + 1) + i - 1]
      BY <3>1, <3>2, SubSeqProperties
    <3>6. \A i \in 1..(m - k) : i \in 1..(m - (k + 1) + 1) /\ (k + 1) + i - 1 = i + k
      BY <1>3, <1>6
    <3> QED
      BY <1>3, <1>6, <3>3, <3>4, <3>5, <3>6
  <2>2. CASE ~(m > MaxRepairs)
    <3>1. k = 0 /\ v = w
      BY <1>2, <1>5, <1>7, <2>2 DEF LatestRepairs
    <3> QED
      BY <1>2, <1>3, <3>1
  <2> QED
    BY <2>1, <2>2
<1>9. \A i \in 1..(m - k) : v[i].next > v[i].previous /\ v[i].observed = v[i].next
  <2>1. \A i \in 1..(m - k) : i + k \in 1..m
    BY <1>3, <1>6
  <2> QED
    BY <1>3, <1>8, <2>1
<1>10. ASSUME NEW i \in 2..(m - k)
       PROVE  v[i].previous >= v[i - 1].next
  <2>1. /\ i \in 1..(m - k) /\ i - 1 \in 1..(m - k)
        /\ i + k \in 2..m /\ (i - 1) + k = (i + k) - 1
    <3>1. m \in Nat /\ k \in Nat
      BY <1>3, <1>6
    <3> QED
      BY <3>1
  <2>2. v[i] = w[i + k] /\ v[i - 1] = w[(i + k) - 1]
    BY <1>8, <2>1
  <2> QED
    BY <1>3, <2>1, <2>2
<1>11. v[m - k].next = o.nonce
  <2>1. m - k \in 1..(m - k) /\ (m - k) + k = m
    BY <1>3, <1>6
  <2> QED
    BY <1>3, <1>8, <2>1
<1>12. t.repairs = v /\ t.durableNext = o.nonce
  BY <1>1, <1>7
<1> QED
  BY <1>4, <1>6, <1>8, <1>9, <1>10, <1>11, <1>12 DEF ValidRepairs

\* What a repair consists of.
LEMMA PlanTells ==
    ASSUME AInv, NEW s \in Snapshot, ValidSnapshot(s), NEW n \in InspectedBlocks, NEW latest, NEW waiting,
           NEW p, p = PlanNonceSync(s, AnchoredNonce(n), latest, waiting),
           p.status = "repair-available"
    PROVE  /\ s.attempts = <<>>
           /\ n \in 1..durable
           /\ p.snapshot \in Snapshot
           /\ p.snapshot.lastObs = AnchoredNonce(n)
           /\ p.snapshot.next = chain[n].nonce
           /\ p.snapshot.durableNext = chain[n].nonce
           /\ p.snapshot.attempts = <<>>
           /\ chain[n].nonce > s.next /\ chain[n].nonce >= s.lastObs.nonce
           /\ ValidSnapshot(p.snapshot)
<1>1. PICK o : o = AnchoredNonce(n)
  OBVIOUS
<1>2. n \in 1..durable /\ n \in 1..Len(chain)
  <2>1. durable \in Nat /\ Len(chain) \in Nat /\ durable <= Len(chain)
    BY ChainFacts
  <2> QED
    BY <2>1 DEF InspectedBlocks
<1>3. /\ o \in Observation /\ o.nonce = chain[n].nonce /\ o.nonce \in Nat
  BY <1>1, <1>2, ChainFacts DEF AnchoredNonce
<1>4. /\ s.next \in Nat /\ s.lastObs \in Observation /\ s.lastObs.nonce \in Nat
  BY SnapshotFields DEF Observation
<1>5. Plan("refused", None).status = "refused" /\ Plan("deferred", None).status = "deferred"
      /\ Plan("already-synchronized", None).status = "already-synchronized"
  BY DEF Plan
<1>6. ~HasAttempts(s) /\ ~AnchorRefused(s, o)
  <2>1. HasAttempts(s) => p = Plan("refused", None)
    BY <1>1 DEF PlanNonceSync
  <2>2. ~HasAttempts(s) /\ AnchorRefused(s, o) => p = Plan("refused", None)
    BY <1>1 DEF PlanNonceSync
  <2> QED
    BY <1>5, <2>1, <2>2
<1>7. p = CASE NonceRefused(s, o) -> Plan("refused", None)
            [] ~NonceRefused(s, o) /\ (o.nonce # latest \/ o.nonce # waiting) ->
                 Plan("deferred", None)
            [] ~NonceRefused(s, o) /\ o.nonce = latest /\ o.nonce = waiting ->
                 IF o.nonce = s.next THEN Plan("already-synchronized", None)
                 ELSE Plan("repair-available", Repaired(s, o))
  BY <1>1, <1>6, Zenon DEF PlanNonceSync
<1>8. ~NonceRefused(s, o) /\ o.nonce # s.next
      /\ p = Plan("repair-available", Repaired(s, o))
  BY <1>5, <1>7
<1>a. PICK rs : rs = LatestRepairs(Append(s.repairs, RepairOf(s, o)))
  OBVIOUS
<1>9. p.snapshot = [s EXCEPT !.lastObs = o, !.next = o.nonce, !.durableNext = o.nonce,
                             !.repairs = rs]
  BY <1>8, <1>a DEF Plan, Repaired
<1>10. s.attempts = <<>>
  BY <1>6 DEF HasAttempts
<1>11. PICK r : r = p.snapshot
  OBVIOUS
<1>b. /\ r.lastObs = o /\ r.next = o.nonce /\ r.durableNext = o.nonce
      /\ r.attempts = <<>> /\ r.baseline = s.baseline /\ r.repairs = rs
  BY <1>9, <1>10, <1>11 DEF Snapshot
<1>14. o.nonce > s.next /\ o.nonce >= s.lastObs.nonce
  BY <1>3, <1>4, <1>8 DEF NonceRefused
<1>c. rs \in Seq(Repair) /\ ValidRepairs(r)
  BY <1>3, <1>10, <1>14, <1>a, <1>b, RepairHistory
<1>12. r \in Snapshot
  BY <1>3, <1>9, <1>11, <1>c DEF Snapshot
<1>d. r.durableNext >= r.baseline
  <2>1. /\ s.baseline \in Nat /\ s.durableNext \in Nat /\ s.durableNext >= s.baseline
        /\ s.next - s.durableNext = 0
    BY <1>10, SnapshotFields DEF ValidSnapshot
  <2> QED
    BY <1>3, <1>4, <1>14, <1>b, <2>1
<1>13. ValidSnapshot(r)
  BY <1>3, <1>b, <1>c, <1>d DEF ValidSnapshot
<1> QED
  BY <1>1, <1>2, <1>3, <1>10, <1>11, <1>12, <1>13, <1>14, <1>b

\* The repair is written: the file accounts for everything that escaped, and claims
\* nothing that the chain does not show.
LEMMA ApplyKeepsEvidence ==
    ASSUME SInv, SyncApply
    PROVE  EInv' /\ Repairing'
<1>1. /\ EInv /\ AInv /\ ReleaseInv /\ IInv /\ AuthorityState
      /\ Steps /\ AllSupported /\ Exhaustion /\ Repairing
  BY DEF SInv, EInv, AInv, ReleaseInv
<1>2. PICK p : p = sync.plan
  OBVIOUS
<1>3. /\ sync # None /\ sync.stage = "save" /\ disk' = p /\ sync' = None
      /\ UNCHANGED <<chain, minted, durable, escaped>>
      /\ UNCHANGED <<up, current, pending, pstate, write, recovered, inclusions, op,
                     permit, blockers, owner>>
  BY <1>2 DEF SyncApply, chainVars, memVars
<1>4. PICK n : n = p.lastObs.num
  OBVIOUS
<1>5. /\ ~up /\ disk # None /\ disk.attempts = <<>>
      /\ p # None /\ p \in Snapshot /\ ValidSnapshot(p) /\ p.attempts = <<>>
      /\ p.next = p.lastObs.nonce /\ p.durableNext = p.next
      /\ n \in 1..durable /\ p.lastObs = AnchoredNonce(n)
      /\ p.next > disk.next
  BY <1>1, <1>2, <1>3, <1>4 DEF Repairing, Sync
<1>6. /\ TypeOK /\ FileIsKnown /\ AllRecord /\ AllValid /\ OperationState
      /\ NoEquivocation /\ NoncesGrow /\ ResolutionIsDurable
  BY <1>1 DEF IInv, ReleaseInv
<1>7. /\ current = None /\ pending = None /\ op = None /\ pstate = "idle"
  BY <1>5, <1>6 DEF FileIsKnown
<1>8. n \in 1..Len(chain) /\ durable \in 1..Len(chain) /\ n <= durable
      /\ p.lastObs.hash = chain[n].hash /\ p.lastObs.nonce = chain[n].nonce
      /\ chain[n].hash <= minted
  BY <1>1, <1>5, ChainFacts DEF AnchoredNonce
<1>9. TypeOK'
  BY <1>3, <1>5, <1>6 DEF TypeOK, ChainTypeOK
<1>10. FileIsKnown'
  BY <1>3, <1>5, <1>6, <1>7 DEF FileIsKnown
<1>11. AllRecord'
  <2>1. ASSUME NEW t \in escaped PROVE t.nonce < p.durableNext
    <3>1. t \in Tx /\ t.nonce \in Nat
      BY <1>6 DEF TypeOK, ChainTypeOK, Tx
    <3>2. t.nonce >= disk.durableNext => t \in Marked(disk)
      BY <1>6 DEF AllRecord, Records
    <3>3. Marked(disk) = {}
      <4>1. Len(disk.attempts) = 0
        BY <1>5
      <4> QED
        BY <4>1 DEF Marked
    <3>4. disk.next = disk.durableNext /\ disk.next \in Nat /\ disk.durableNext \in Nat
      <4>1. disk \in Snapshot /\ ValidSnapshot(disk)
        BY <1>1, <1>5, Held
      <4>2. disk.next - disk.durableNext = 0
        BY <1>5, <4>1 DEF ValidSnapshot
      <4> QED
        BY <4>1, <4>2, SnapshotFields
    <3>5. p.next \in Nat
      BY <1>5, SnapshotFields
    <3> QED
      BY <1>5, <3>1, <3>2, <3>3, <3>4, <3>5
  <2>2. p.durableNext \in Nat /\ \A t \in escaped : t.nonce \in Nat
    BY <1>5, <1>6, SnapshotFields DEF TypeOK, ChainTypeOK, Tx
  <2>3. \A t \in escaped : ~(t.nonce >= p.durableNext)
    BY <2>1, <2>2
  <2> QED
    BY <1>3, <1>5, <1>7, <2>3 DEF AllRecord, Records
<1>12. AllValid'
  BY <1>3, <1>5, <1>7 DEF AllValid
<1>13. OperationState' /\ NoEquivocation' /\ NoncesGrow'
  BY <1>3, <1>6, <1>7 DEF OperationState, NoEquivocation, NoncesGrow
<1>14. ResolutionIsDurable'
  <2>1. p.durableNext <= chain[durable].nonce
    BY <1>5, <1>6, <1>8 DEF NoncesGrow
  <2> QED
    BY <1>3, <1>7, <2>1 DEF ResolutionIsDurable
<1>15. ReleaseInv'
  BY <1>9, <1>10, <1>11, <1>12, <1>13, <1>14 DEF ReleaseInv, IInv
<1>16. AuthorityState'
  <2>1. HashesAreOld'
    BY <1>1, <1>3, <1>7, <1>8 DEF AuthorityState, HashesAreOld
  <2>2. UnsentIsLast'
    <3>1. Len(p.attempts) = 0
      BY <1>5
    <3> QED
      BY <1>3, <1>7, <3>1 DEF UnsentIsLast, OnlyLastUnsent
  <2>3. Revoked' /\ Latch' /\ Writing' /\ Grounds'
    BY <1>1, <1>3, <1>5, <1>7
       DEF AuthorityState, Revoked, Latch, Writing, Grounds
  <2> QED
    BY <2>1, <2>2, <2>3 DEF AuthorityState
<1>17. Supported(p)
  <2>1. Len(p.attempts) = 0
    BY <1>5
  <2>2. Seen(p.lastObs)
    BY <1>1, <1>5, <1>8, ReadIsSeen
  <2> QED
    BY <2>1, <2>2 DEF Supported
<1>18. Steps' /\ AllSupported'
  BY <1>1, <1>3, <1>17, SupportKept
<1>19. Exhaustion'
  BY <1>1, <1>3, <1>7 DEF Exhaustion, Gap
<1> QED
  BY <1>3, <1>15, <1>16, <1>18, <1>19 DEF EInv, AInv, Repairing

\* The coordinator's own steps take a running process.
Running == Crash \/ Persistence \/ Inspection \/ Recovery \/ Inclusion \/ Submission

LEMMA RunningIsUp == Running => up
<1>1. Crash \/ Persistence => up
  BY DEF Crash, Persistence, WriteFails, RetryPersistence, RetryCommits, Available
<1>2. Inspection => up
  BY DEF Inspection, BeginInspection, FinishInspection, AbandonInspection,
     CompleteAbandonment, OpenHeadBegin, OpenHeadEnd, Available, OwnerAvailable,
     WorkAllowed
<1>3. Recovery => up
  BY DEF Recovery, RecoverBegin, RecoverGivesUp, RecoverBootstraps,
     RecoverBootstrapsAt, RecoverInspects, RecoverInspectsAt, RecoverCommits,
     OwnerAvailable, WorkAllowed, Reading
<1>4. Inclusion => up
  BY DEF Inclusion, InclusionsBegin, InclusionsGiveUp, InclusionsContradict,
     InclusionsContradictAt, InclusionsInspect, InclusionsInspectAt, InclusionsCommit,
     OwnerAvailable, WorkAllowed, Reading
<1>5. Submission => up
  BY DEF Submission, PrepareBegin, PrepareBeginFor, PrepareSigned, PrepareRefused,
     PrepareCommits, BroadcastBegin, BroadcastMarked, BroadcastSend, BroadcastLost,
     GateOpen, CanBroadcast
<1> QED
  BY <1>1, <1>2, <1>3, <1>4, <1>5 DEF Running

\* Every step of the composition is one of the coordinator or writes a repair; while
\* the command runs, only a repair changes the file.
LEMMA SyncSteps ==
    ASSUME SInv, [SyncNext]_syncVars
    PROVE  /\ SyncApply \/ [Next]_vars
           /\ sync # None => SyncApply \/ UNCHANGED disk
<1>1. sync # None => ~up
  BY DEF SInv, Repairing
<1>2. CASE SyncRead \/ SyncPlan \/ SyncStop
  BY <1>2 DEF SyncRead, SyncPlan, SyncStop, vars
<1>3. CASE SyncStart
  BY <1>3 DEF SyncStart, Next, Process
<1>4. CASE Running /\ UNCHANGED sync
  BY <1>1, <1>4, RunningIsUp DEF Running, Next, Process
<1>5. CASE ChainNext /\ UNCHANGED <<disk, memVars, sync>>
  BY <1>5 DEF Next
<1>6. CASE UNCHANGED syncVars
  BY <1>6 DEF syncVars, vars
<1> QED
  BY <1>2, <1>3, <1>4, <1>5, <1>6 DEF SyncNext, Running

LEMMA SyncPreserves == SInv /\ [SyncNext]_syncVars => SInv'
<1> SUFFICES ASSUME SInv, [SyncNext]_syncVars PROVE SInv'
  OBVIOUS
<1>1. EInv /\ AInv /\ Repairing
  BY DEF SInv, EInv
<1>2. EInv'
  BY <1>1, SyncSteps, EvidencePreserves, ApplyKeepsEvidence
<1>3. disk # None => disk \in Snapshot /\ ValidSnapshot(disk)
  BY <1>1, Held
<1>4. CASE SyncRead
  <2>1. PICK apply \in BOOLEAN :
          sync' = [stage |-> "inspect", apply |-> apply, base |-> disk, plan |-> None]
    BY <1>4 DEF SyncRead
  <2>2. ~up /\ disk # None /\ disk.attempts = <<>> /\ UNCHANGED <<up, disk>>
    BY <1>4 DEF SyncRead, HasAttempts, vars, memVars
  <2>3. sync' \in Sync /\ sync'.stage = "inspect" /\ sync'.base = disk
    BY <1>3, <2>1, <2>2 DEF Sync
  <2>4. Repairing'
    BY <2>2, <2>3 DEF Repairing
  <2> QED
    BY <1>2, <2>4 DEF SInv
<1>5. CASE SyncPlan
  <2>1. PICK n \in InspectedBlocks, waiting \in {LatestNonce, LatestNonce + 1} :
          sync' = IF /\ sync.apply
                     /\ PlanAt(n, waiting).status = "repair-available"
                     /\ ValidSnapshot(PlanAt(n, waiting).snapshot)
                  THEN [sync EXCEPT !.stage = "save",
                                    !.plan = PlanAt(n, waiting).snapshot]
                  ELSE None
    BY <1>5 DEF SyncPlan
  <2>2. PICK p : p = PlanAt(n, waiting)
    OBVIOUS
  <2>3. /\ sync # None /\ sync \in Sync /\ ~up /\ disk # None /\ sync.base = disk
        /\ disk.attempts = <<>> /\ disk \in Snapshot /\ ValidSnapshot(disk)
        /\ UNCHANGED <<chain, durable, up, disk>>
    BY <1>1, <1>3, <1>5 DEF SyncPlan, Repairing, vars, memVars, chainVars
  <2>4. CASE sync' = None
    BY <1>2, <2>4 DEF SInv, Repairing
  <2>5. CASE sync' # None
    <3>1. /\ p.status = "repair-available"
          /\ sync' = [sync EXCEPT !.stage = "save", !.plan = p.snapshot]
      BY <2>1, <2>2, <2>5
    <3>2. p = PlanNonceSync(disk, AnchoredNonce(n), LatestNonce, waiting)
      BY <2>2, <2>3 DEF PlanAt
    <3>3. PICK s : s = p.snapshot
      OBVIOUS
    <3>4. /\ n \in 1..durable /\ s \in Snapshot
          /\ s.lastObs = AnchoredNonce(n) /\ s.next = chain[n].nonce
          /\ s.durableNext = chain[n].nonce /\ s.attempts = <<>>
          /\ chain[n].nonce > disk.next /\ chain[n].nonce >= disk.lastObs.nonce
          /\ ValidSnapshot(s)
      BY <1>1, <2>3, <3>1, <3>2, <3>3, PlanTells
    <3>5. /\ sync' \in Sync /\ sync'.stage = "save" /\ sync'.plan = s
          /\ sync'.base = disk
      BY <2>3, <3>1, <3>3, <3>4 DEF Sync
    <3>6. s # None
      BY <3>4, AbsentAssumption
    <3>7. s.lastObs.num = n /\ s.lastObs.nonce = chain[n].nonce
          /\ s.lastObs = AnchoredNonce(n)'
      BY <2>3, <3>4 DEF AnchoredNonce
    <3>8. /\ sync'.plan.lastObs.num \in 1..durable'
          /\ (sync.plan.lastObs = AnchoredNonce(sync.plan.lastObs.num))'
      BY <2>3, <3>4, <3>5, <3>7 DEF AnchoredNonce
    <3>9. Repairing'
      BY <2>3, <3>4, <3>5, <3>6, <3>7, <3>8 DEF Repairing
    <3> QED
      BY <1>2, <3>9 DEF SInv
  <2> QED
    BY <2>4, <2>5
<1>6. CASE SyncApply
  BY <1>2, <1>6, ApplyKeepsEvidence DEF SInv
<1>7. CASE SyncStop
  BY <1>2, <1>7 DEF SyncStop, SInv, Repairing
<1>8. CASE SyncStart
  BY <1>2, <1>8 DEF SyncStart, SInv, Repairing
<1>9. CASE Running /\ UNCHANGED sync
  <2>1. sync = None
    BY <1>1, <1>9, RunningIsUp DEF Repairing
  <2> QED
    BY <1>2, <1>9, <2>1 DEF SInv, Repairing
<1>10. CASE ChainNext /\ UNCHANGED <<disk, memVars, sync>>
  <2>1. UNCHANGED <<disk, up, sync>>
    BY <1>10 DEF memVars
  <2>2. ASSUME sync # None, sync.stage = "save"
        PROVE  /\ sync.plan.lastObs.num \in 1..durable'
               /\ (sync.plan.lastObs = AnchoredNonce(sync.plan.lastObs.num))'
    <3>1. PICK n : n = sync.plan.lastObs.num
      OBVIOUS
    <3>2. n \in 1..durable /\ sync.plan.lastObs = AnchoredNonce(n)
      BY <1>1, <2>2, <3>1 DEF Repairing
    <3>3. durable \in Nat /\ durable' \in Nat /\ durable <= durable'
          /\ chain'[n] = chain[n]
      BY <1>1, <1>10, <3>2, DurablePrefix, ChainFacts
    <3>4. n \in 1..durable' /\ AnchoredNonce(n)' = AnchoredNonce(n)
      BY <3>2, <3>3 DEF AnchoredNonce
    <3> QED
      BY <2>1, <3>1, <3>2, <3>4 DEF AnchoredNonce
  <2>3. Repairing'
    BY <1>1, <2>1, <2>2 DEF Repairing
  <2> QED
    BY <1>2, <2>3 DEF SInv
<1>11. CASE UNCHANGED syncVars
  BY <1>1, <1>2, <1>11
     DEF syncVars, vars, memVars, chainVars, SInv, Repairing, AnchoredNonce
<1> QED
  BY <1>4, <1>5, <1>6, <1>7, <1>8, <1>9, <1>10, <1>11 DEF SyncNext, Running

LEMMA SyncInvariance == SyncSpec => []SInv
<1>1. SyncInit => SInv
  BY InitHasEvidence DEF SyncInit, SInv, Repairing
<1>2. SInv /\ [SyncNext]_syncVars => SInv'
  BY SyncPreserves
<1> QED
  BY <1>1, <1>2, PTL DEF SyncSpec

-----------------------------------------------------------------------------
(* What follows from it.                                                   *)

\* ForeignActivityIsFound: a recorded search has skipped no block that consumed its
\* nonce, the exhausted-search blocker is raised only over a nonce that moved without
\* a transaction in a durable block, and the blocker for unattributed activity is
\* what the journal records, over reorganisations, restarts and repairs
\* (searchAttemptReplacement, latchExhaustedSearch, latchUnattributedActivity).
THEOREM ForeignActivityFound == SyncSpec => []ForeignActivityIsFound
<1>1. SInv => ForeignActivityIsFound
  <2> SUFFICES ASSUME SInv PROVE ForeignActivityIsFound
    OBVIOUS
  <2>1. EInv /\ AllSupported /\ Exhaustion /\ Latch
    BY Parts DEF SInv, EInv
  <2>2. SearchIsSound
    <3> SUFFICES ASSUME NEW s \in {disk, current} \ {None},
                        NEW i \in 1..Len(s.attempts),
                        s.attempts[i].search # None,
                        s.attempts[i].search.through # None
                 PROVE  /\ Canonical(s.attempts[i].search.through)
                        /\ \A k \in (s.attempts[i].search.lower.num + 1)
                                      ..s.attempts[i].search.through.num :
                             chain[k].tx # None =>
                               chain[k].tx.nonce # s.attempts[i].nonce
      BY DEF SearchIsSound
    <3>1. Searched(s.attempts[i])
      BY <2>1 DEF AllSupported, Supported
    <3> QED
      BY <3>1 DEF Searched, Scanning, Unused
  <2>3. ExhaustionIsReal
    BY <2>1 DEF Exhaustion, Gap, ExhaustionIsReal
  <2>4. UnattributedIsRecorded
    BY <2>1 DEF Latch, UnattributedIn, UnattributedIsRecorded
  <2> QED
    BY <2>2, <2>3, <2>4 DEF ForeignActivityIsFound
<1> QED
  BY <1>1, SyncInvariance, PTL

\* ResolutionsAreTrue: when recovery removes an attempt, its evidence passes the
\* checks of the log, and it says `mined' exactly when the attempt itself is in a
\* block up to the anchor, `replaced' when another transaction has its nonce
\* (reconcileAttemptReceipt, searchAttemptReplacement, assertResolutionTransaction).
THEOREM ResolutionsTellTheTruth == SyncSpec => []ResolutionsAreTrue
<1>1. SInv => ResolutionsAreTrue
  <2> SUFFICES ASSUME SInv, Reading("recover"), current # None,
                      current.attempts # <<>>,
                      NEW n \in RecoveryAnchors, NEW served \in BOOLEAN,
                      NEW a, a = current.attempts[1],
                      NEW r, r = InspectRecovery(current, n, served),
                      NEW e, e = Evidence(current, r, n),
                      r.status = "resolution-available"
               PROVE  /\ LogAccepts(a, e)
                      /\ (e.outcome = "mined") <=>
                           (\E k \in 1..n : chain[k].tx = TxOf(a))
    BY DEF ResolutionsAreTrue
  <2>1. EInv /\ AInv /\ Steps /\ ChainTypeOK /\ current \in Snapshot
    BY EParts, Held DEF SInv
  <2>2. n \in 1..Len(chain) /\ n \in Nat /\ Len(chain) \in Nat
    <3>1. durable \in Nat /\ Len(chain) \in Nat /\ durable <= Len(chain)
      BY <2>1, ChainFacts
    <3> QED
      BY <3>1 DEF RecoveryAnchors
  <2>3. a \in Attempt /\ TxOf(a) \in Tx /\ a.nonce \in Nat
    BY <2>1, SnapshotFields
  <2>4. PICK q : q = ResolvedSearch(a, current.lastObs)
    OBVIOUS
  <2>5. PICK found : found = SearchReplacement(a, q, n)
    OBVIOUS
  <2>6. /\ r.obs = AnchoredNonce(n) /\ AnchoredNonce(n).nonce > a.nonce
        /\ \/ /\ r.receipt = "verified"
              /\ Receipt(a, n, served).status = "verified"
           \/ /\ r.receipt # "verified" /\ r.search = found
              /\ found.status = "replacement-found"
    BY <2>1, <2>2, <2>4, <2>5, RecoveryTells, RecoveryAnswers
  <2>7. CASE /\ r.receipt = "verified"
             /\ Receipt(a, n, served).status = "verified"
    <3> DEFINE at == {k \in 1..Len(chain) : chain[k].tx = TxOf(a)}
               pick == CHOOSE k \in at : TRUE
    <3>1. served /\ at # {}
      BY <2>7 DEF Receipt
    <3>2. pick \in at
      BY <3>1
    <3>3. /\ Receipt(a, n, served)
               = [status |-> IF pick <= n THEN "verified" ELSE "included-not-durable",
                  at |-> AnchorOf(pick)]
          /\ Receipt(a, n, TRUE).at = AnchorOf(pick)
      BY <3>1 DEF Receipt
    <3> HIDE DEF pick
    <3>4. pick <= n /\ pick \in 1..Len(chain) /\ chain[pick].tx = TxOf(a)
          /\ pick \in 1..n
      BY <2>2, <2>7, <3>2, <3>3
    <3>5. e = [outcome |-> "mined", anchor |-> AnchorOf(n), at |-> AnchorOf(pick),
               tx |-> TxOf(a), nonce |-> None]
      BY <2>7, <3>3 DEF Evidence
    <3>6. LogAccepts(a, e) /\ e.outcome = "mined"
      BY <3>4, <3>5 DEF LogAccepts, InclusionUnderAnchor, MatchesAttempt, AnchorOf
    <3> QED
      BY <3>4, <3>6
  <2>8. CASE /\ r.receipt # "verified" /\ r.search = found
             /\ found.status = "replacement-found"
    <3>1. q \in Search \cup {None}
      BY <2>1, <2>3, <2>4, SnapshotFields DEF ResolvedSearch, Search, Attempt
    <3>2. PICK k \in 1..n : /\ found.at = AnchorOf(k)
                            /\ chain[k].tx # None /\ chain[k].tx.nonce = a.nonce
                            /\ chain[k].tx # TxOf(a)
      BY <2>1, <2>2, <2>5, <2>8, <3>1, SearchScans
    <3>3. k <= n /\ found.at.num = k
      BY <2>2, <3>2 DEF AnchorOf
    <3>4. e = [outcome |-> "replaced", anchor |-> AnchorOf(n), at |-> AnchorOf(k),
               tx |-> chain[k].tx, nonce |-> AnchoredNonce(n).nonce]
      BY <2>6, <2>8, <3>2, <3>3 DEF Evidence
    <3>5. LogAccepts(a, e) /\ e.outcome = "replaced"
      BY <2>6, <3>2, <3>3, <3>4
         DEF LogAccepts, InclusionUnderAnchor, MatchesAttempt, AnchorOf
    <3>6. ASSUME NEW j \in 1..n, chain[j].tx = TxOf(a)
          PROVE  FALSE
      <4>1. chain[j].tx # None
        BY <2>3, <3>6, ReferenceAssumption
      <4>2. chain[j].tx.nonce = a.nonce
        BY <3>6 DEF TxOf
      <4>3. j \in 1..Len(chain) /\ k \in 1..Len(chain)
        BY <2>2
      <4>4. j = k
        BY <2>1, <3>2, <4>1, <4>2, <4>3, OneTxPerNonce
      <4> QED
        BY <3>2, <3>6, <4>4
    <3> QED
      BY <3>5, <3>6
  <2> QED
    BY <2>6, <2>7, <2>8
<1> QED
  BY <1>1, SyncInvariance, PTL

\* SyncInv: every snapshot that a recovery pass, an inclusion pass or the sync-nonce
\* command derives from the journal is one that validation accepts, so neither can
\* lock itself out of its journal (validateJournalSnapshotStructure).
THEOREM NobodyIsLockedOut == SyncSpec => []SyncInv
<1>1. SInv => SyncInv
  <2> SUFFICES ASSUME SInv PROVE SyncInv
    OBVIOUS
  <2>1. EInv /\ AInv /\ Steps /\ TypeOK /\ ChainTypeOK /\ OperationState /\ Repairing
    BY EParts, Held DEF SInv
  <2>2. SyncTypeOK
    BY <2>1 DEF SyncTypeOK, Repairing
  <2>3. ASSUME Reading("recover"), current # None,
               NEW n \in RecoveryAnchors, NEW served \in BOOLEAN
        PROVE  ValidSnapshot(RecoverySnapshot(current, InspectRecovery(current, n, served)))
    <3>1. Base(current) /\ Supported(current)
      BY <2>1, <2>3, EParts, Held DEF Reading
    <3> QED
      BY <2>1, <2>3, <3>1, RecoverySupports
  <2>4. ASSUME Reading("inclusions"),
               NEW n \in InclusionHeads, NEW servedAt \in SUBSET (1..Len(current.attempts)),
               NEW r, r = InspectInclusions(current, n, servedAt), r.status = "inspected"
        PROVE  ValidSnapshot([current EXCEPT !.lastObs = r.obs, !.attempts = r.attempts])
    <3>1. current # None /\ current \in Snapshot /\ ValidSnapshot(current)
          /\ n \in 1..Len(chain)
      BY <2>1, <2>4, EParts DEF OperationState, Reading, InclusionHeads
    <3>2. r.obs = AnchoredNonce(n) /\ AnchoredNonce(n) \in Observation
      BY <2>1, <2>4, <3>1, InclusionEffect, ReadIsSeen
    <3> QED
      BY <2>1, <2>4, <3>1, <3>2, InclusionIsValid
  <2>5. OwnUpdatesAreValid
    BY <2>3, <2>4 DEF OwnUpdatesAreValid
  <2>6. RepairIsValid
    <3> SUFFICES ASSUME sync # None, sync.stage = "inspect",
                        NEW n \in InspectedBlocks,
                        NEW waiting \in {LatestNonce, LatestNonce + 1},
                        NEW p, p = PlanAt(n, waiting), p.status = "repair-available"
                 PROVE  ValidSnapshot(p.snapshot)
      BY DEF RepairIsValid
    <3>1. sync.base \in Snapshot /\ ValidSnapshot(sync.base)
      BY <2>1, Held DEF Repairing
    <3>2. p = PlanNonceSync(sync.base, AnchoredNonce(n), LatestNonce, waiting)
      BY DEF PlanAt
    <3> QED
      BY <2>1, <3>1, <3>2, PlanTells
  <2> QED
    BY <2>2, <2>5, <2>6 DEF SyncInv
<1> QED
  BY <1>1, SyncInvariance, PTL

\* What a repair leaves in the file.
LEMMA RepairEffect ==
    ASSUME SInv, SyncApply
    PROVE  /\ sync # None
           /\ Latched(disk') = {}
           /\ disk'.lastObs.num <= durable
           /\ disk'.next = chain[disk'.lastObs.num].nonce
           /\ disk'.next > disk.next
           /\ disk.lastObs.nonce <= disk'.next
           /\ disk'.next <= chain[durable].nonce
<1>1. AInv /\ Repairing /\ NoncesGrow
  BY Held DEF SInv, EInv
<1>2. PICK p : p = sync.plan
  OBVIOUS
<1>3. PICK n : n = p.lastObs.num
  OBVIOUS
<1>4. /\ sync # None /\ disk' = p /\ disk # None
      /\ p \in Snapshot /\ p.attempts = <<>> /\ p.next = p.lastObs.nonce
      /\ n \in 1..durable /\ p.lastObs = AnchoredNonce(n)
      /\ p.next > disk.next /\ p.next >= disk.lastObs.nonce
  BY <1>1, <1>2, <1>3 DEF SyncApply, Repairing, Sync
<1>5. /\ n \in 1..Len(chain) /\ durable \in 1..Len(chain) /\ n <= durable
      /\ p.next = chain[n].nonce /\ p.next \in Nat
  BY <1>1, <1>4, ChainFacts DEF AnchoredNonce
<1>6. chain[n].nonce <= chain[durable].nonce
  BY <1>1, <1>5 DEF NoncesGrow
<1>7. Latched(p) = {}
  <2>1. FirstUnresolved(p.attempts) = 0
    <3>1. p.attempts \in Seq(Attempt) /\ Len(p.attempts) = 0
      BY <1>4
    <3>2. FirstUnresolved(p.attempts) \in 0..0
      BY <3>1, FirstUnresolvedRange
    <3> QED
      BY <3>2
  <2>2. ~UnattributedIn(p) /\ ~ExhaustedIn(p)
    BY <1>4, <1>5, <2>1 DEF UnattributedIn, ExhaustedIn
  <2> QED
    BY <2>2 DEF Latched
<1>8. disk.lastObs.nonce \in Nat /\ chain[durable].nonce \in Nat
  <2>1. disk \in Snapshot
    BY <1>1, <1>4, Held
  <2> QED
    BY <1>1, <1>5, <2>1, SnapshotFields, ChainFacts DEF Observation
<1> QED
  BY <1>3, <1>4, <1>5, <1>6, <1>7, <1>8

\* RepairsAreSound: evidence of unattributed activity leaves the journal only with a
\* repair that takes a durable block's nonce not below the evidence, and what a repair
\* leaves latches no blocker and raises the next nonce to that of a durable block
\* (planNonceSync, syncNonce).
THEOREM RepairsAccount == SyncSpec => RepairsAreSound
<1>1. SInv /\ [SyncNext]_syncVars =>
        [(disk # None /\ UnattributedIn(disk) /\ ~UnattributedIn(disk')) =>
           /\ sync # None
           /\ disk.lastObs.nonce <= disk'.next
           /\ disk'.next <= chain[durable].nonce]_syncVars
  <2> SUFFICES ASSUME SInv, [SyncNext]_syncVars,
                      disk # None, UnattributedIn(disk), ~UnattributedIn(disk')
               PROVE  /\ sync # None
                      /\ disk.lastObs.nonce <= disk'.next
                      /\ disk'.next <= chain[durable].nonce
    OBVIOUS
  <2>1. ~[Next]_vars
    <3>1. AInv /\ disk' # disk
      BY DEF SInv, EInv
    <3> QED
      BY <3>1, FileAdvances DEF Advances
  <2>2. SyncApply
    BY <2>1, SyncSteps
  <2> QED
    BY <2>2, RepairEffect
<1>2. SInv /\ [SyncNext]_syncVars =>
        [(sync # None /\ disk' # disk) =>
           /\ Latched(disk') = {}
           /\ disk'.lastObs.num <= durable
           /\ disk'.next = chain[disk'.lastObs.num].nonce
           /\ disk'.next > disk.next]_syncVars
  BY SyncSteps, RepairEffect
<1> QED
  BY <1>1, <1>2, SyncInvariance, PTL
     DEF SyncSpec, RepairsAreSound, EvidenceIsAccountedFor, RepairUnblocks

\* A repair leaves no attempt in the file, and changes nothing of what escaped.
LEMMA RepairsFit ==
    SInv /\ WithinLimit /\ OneTransactionPerWork /\ [SyncNext]_syncVars =>
        WithinLimit' /\ OneTransactionPerWork'
<1> SUFFICES ASSUME SInv, WithinLimit, OneTransactionPerWork, [SyncNext]_syncVars
             PROVE  WithinLimit' /\ OneTransactionPerWork'
  OBVIOUS
<1>1. AInv /\ ReleaseInv /\ Repairing
  BY DEF SInv, EInv, AInv
<1>2. CASE [Next]_vars
  BY <1>1, <1>2, LimitPreserved, WorkPreserves
<1>3. CASE SyncApply
  <2>1. /\ sync # None /\ sync.stage = "save" /\ disk' = sync.plan
        /\ UNCHANGED <<chain, durable, escaped, current, pending, op>>
    BY <1>3 DEF SyncApply, chainVars, memVars
  <2>2. disk'.attempts = <<>>
    BY <1>1, <2>1 DEF Repairing
  <2>3. FitsIn(disk')
    BY <2>2, CoordinatorAssumption DEF FitsIn
  <2>4. WithinLimit'
    BY <2>1, <2>3 DEF WithinLimit, FitsIn
  <2> QED
    BY <2>1, <2>4 DEF OneTransactionPerWork
<1> QED
  BY <1>2, <1>3, SyncSteps

\* With repairs between its runs the signer keeps its promises: what escaped is
\* journaled, no nonce carries two transactions and no work two that can be mined,
\* nothing is released before its nonce is durably consumed or stranded behind an
\* unsent one, authority stands on facts, and the published status can be relied on.
THEOREM RepairsKeepPromises ==
    SyncSpec => [](/\ EscapedIsJournaled /\ NoEquivocation /\ OneTransactionPerWork
                   /\ ResolutionIsDurable /\ NoStrandedNonce /\ GroundsAreSound
                   /\ StatusIsHonest)
<1> DEFINE PInv == SInv /\ WithinLimit /\ OneTransactionPerWork
<1>1. SyncInit => PInv
  <2>1. SyncInit => WithinLimit /\ OneTransactionPerWork
    BY DEF SyncInit, Init, ChainInit, WithinLimit, FitsIn, OneTransactionPerWork
  <2> QED
    BY <2>1, InitHasEvidence DEF SyncInit, SInv, Repairing
<1>2. PInv /\ [SyncNext]_syncVars => PInv'
  BY SyncPreserves, RepairsFit
<1>3. PInv => /\ EscapedIsJournaled /\ NoEquivocation /\ OneTransactionPerWork
              /\ ResolutionIsDurable /\ NoStrandedNonce /\ GroundsAreSound
              /\ StatusIsHonest
  <2> SUFFICES ASSUME PInv
               PROVE  /\ EscapedIsJournaled /\ NoEquivocation
                      /\ OneTransactionPerWork /\ ResolutionIsDurable
                      /\ NoStrandedNonce /\ GroundsAreSound /\ StatusIsHonest
    OBVIOUS
  <2>1. AInv /\ ReleaseInv /\ IInv
    BY DEF SInv, EInv, AInv, ReleaseInv
  <2>2. EscapedIsJournaled /\ NoEquivocation /\ ResolutionIsDurable
    BY <2>1 DEF IInv, AllRecord, Records, EscapedIsJournaled, ReleaseInv
  <2>3. BracketBindsObservation
    BY <2>1, Parts DEF Grounds, BracketBindsObservation
  <2>4. StatusIsHonest
    BY <2>1, StatusIsAccepted
  <2> QED
    BY <2>1, <2>2, <2>3, <2>4, NothingIsStranded, AuthorityIsGrounded
       DEF GroundsAreSound
<1> QED
  BY <1>1, <1>2, <1>3, PTL DEF SyncSpec
=============================================================================
