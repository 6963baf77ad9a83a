--------------------------- MODULE SignerInspection ---------------------------
(***************************************************************************)
(* What one pass of apps/relayer/src/chain answers about a journal         *)
(* snapshot.  Every pass brackets its reads between two checks that the    *)
(* block it is anchored at is still canonical, and a block hash fixes the  *)
(* chain below it, so a pass that is not answered `anchor-changed' reads   *)
(* as if at one instant: each operator below is evaluated in one state and *)
(* is given n, the number of the (canonical) anchor block.                 *)
(*                                                                         *)
(* A node may fail to serve a receipt it should have; `served' says        *)
(* whether it does.  A receipt served from an abandoned fork is handled by *)
(* the code exactly as a missing one, and both are "absent" here.          *)
(***************************************************************************)
EXTENDS SignerChain, FiniteSetsExt

CONSTANTS
    WorkOf,         \* the work identity each signed attempt is for
    MaxBlockRange,  \* blocks one replacement search may scan
    MaxRepairs      \* MAX_RETAINED_NONCE_REPAIRS

ASSUME InspectionAssumption ==
    MaxBlockRange \in Nat \ {0} /\ MaxRepairs \in Nat \ {0}

Observation == [num : Nat \ {0}, hash : Nat, nonce : Nat]
Phase       == {"signed", "broadcast-may-have-occurred", "included"}

\* JournalInclusionObservation without the block of the inclusion: the head it was
\* seen under, the transaction found, and for a replacement the account nonce
\* there.  A success and a revert are one outcome.
Sighting == [head : Anchor, tx : Tx, nonce : Nat \cup {None}]

ASSUME SightingAssumption == None \notin Sighting \cup Nat

\* JournalAttempt.  One signed transaction per attempt: no code of the
\* repository appends a second one.  `incl' is the block of the observed
\* inclusion, by this transaction or by a replacement.
Search  == [lower : Observation, through : Anchor \cup {None}]
Attempt == [id : AttemptIds, nonce : Nat, phase : Phase, incl : Anchor \cup {None},
            seen : Sighting \cup {None}, search : Search \cup {None}]

\* JournalNonceRepair, with the nonce of its observation.
Repair == [previous : Nat, next : Nat, observed : Nat]

\* TransactionJournalSnapshot, with the nonce of its baseline.
Snapshot == [baseline : Nat, next : Nat, durableNext : Nat, lastObs : Observation,
             repairs : Seq(Repair), attempts : Seq(Attempt)]

TxOf(a) == [nonce |-> a.nonce, id |-> a.id]

\* readInclusion: seen under a head that has the block, and either the attempt's
\* own transaction or another one that took its nonce.
ValidInclusion(a) ==
    /\ a.incl.num <= a.seen.head.num
    /\ a.incl.num = a.seen.head.num => a.incl = a.seen.head
    /\ IF a.seen.nonce = None THEN a.seen.tx = TxOf(a)
       ELSE a.seen.tx # TxOf(a) /\ a.seen.nonce > a.nonce

\* What readAttempt and readReplacementSearch require of a recorded attempt.
ValidAttempt(a) ==
    /\ (a.phase = "included") = (a.incl # None)
    /\ (a.phase = "included") = (a.seen # None)
    /\ a.phase = "included" => ValidInclusion(a)
    /\ a.search # None =>
         /\ a.search.lower.nonce <= a.nonce
         /\ a.search.through # None => a.search.through.num > a.search.lower.num

\* readRepairs, and the order of the repairs: each goes on where the one before it
\* ended or later, and none past the durable nonce.
ValidRepairs(s) ==
    LET rs == s.repairs
    IN  /\ Len(rs) <= MaxRepairs
        /\ \A i \in 1..Len(rs) :
             rs[i].next > rs[i].previous /\ rs[i].observed = rs[i].next
        /\ \A i \in 2..Len(rs) : rs[i].previous >= rs[i - 1].next
        /\ rs # <<>> => rs[Len(rs)].next <= s.durableNext

\* The structure validateJournalSnapshotStructure accepts.
ValidSnapshot(s) ==
    LET as == s.attempts
    IN  /\ s.durableNext >= s.baseline
        /\ ValidRepairs(s)
        /\ s.next - s.durableNext = Len(as)
        /\ \A i \in 1..Len(as) :
             as[i].nonce = s.durableNext + i - 1 /\ ValidAttempt(as[i])
        /\ \A i, j \in 1..Len(as) :
             (as[i].id = as[j].id \/ WorkOf[as[i].id] = WorkOf[as[j].id]) => i = j

AnchorPart(o) == [num |-> o.num, hash |-> o.hash]

\* readAnchoredNonce at canonical block n.
AnchoredNonce(n) == [num |-> n, hash |-> chain[n].hash, nonce |-> chain[n].nonce]

\* reconcileAttemptReceipt / readReceipt for attempt a under anchor n.
Receipt(a, n, served) ==
    LET at == {k \in 1..Len(chain) : chain[k].tx = TxOf(a)}
    IN  IF ~served \/ at = {} THEN [status |-> "absent", at |-> None]
        ELSE LET k == CHOOSE k \in at : TRUE
             IN  [status |-> IF k <= n THEN "verified" ELSE "included-not-durable",
                  at     |-> AnchorOf(k)]

\* resolveReplacementSearch: the recorded bound, else the last observation.
ResolvedSearch(a, lastObs) ==
    IF a.search = None /\ lastObs.nonce <= a.nonce
    THEN [lower |-> lastObs, through |-> None]
    ELSE a.search

\* The blocks one search scans, and whether it leaves none up to the anchor n.
Scanned_Skips(boundary, last) == (boundary.num + 2)..last
Scanned(boundary, last) == (boundary.num + 1)..last

Exhausts(last, n) == last = n

\* searchAttemptReplacement: scan the blocks above the recorded boundary, up to
\* the anchor, for the transaction that consumed the attempt's nonce.
SearchResult_AnyIsReplacement(status, at, exhausted) ==
    [status |-> IF status = "recorded-transaction-found" THEN "replacement-found"
                ELSE status,
     at |-> at, exhausted |-> exhausted]
SearchResult(status, at, exhausted) ==
    [status |-> status, at |-> at, exhausted |-> exhausted]

SearchReplacement(a, s, n) ==
    LET lower    == AnchorPart(s.lower)
        boundary == IF s.through = None THEN lower ELSE s.through
        last     == Min({boundary.num + MaxBlockRange, n})
        hits     == {k \in Scanned(boundary, last) :
                       chain[k].tx # None /\ chain[k].tx.nonce = a.nonce}
    IN  CASE s = None -> SearchResult("missing-lower-bound", None, FALSE)
          [] s # None /\ (lower.num >= n \/ boundary.num > n) ->
                SearchResult("anchor-behind-search", None, FALSE)
          [] s # None /\ lower.num < n /\ boundary.num <= n
             /\ ~(Canonical(lower) /\ Canonical(boundary)) ->
                SearchResult("boundary-changed", None, FALSE)
          [] OTHER ->
             IF hits = {}
             THEN SearchResult(IF last > boundary.num THEN "not-found"
                                                      ELSE "nothing-scanned",
                               AnchorOf(last), Exhausts(last, n))
             ELSE LET k == Min(hits)
                  IN  SearchResult(IF chain[k].tx = TxOf(a)
                                   THEN "recorded-transaction-found"
                                   ELSE "replacement-found",
                                   AnchorOf(k), FALSE)

NoSearch == SearchResult("none", None, FALSE)

-----------------------------------------------------------------------------
(* inspectSignerRecovery: the oldest attempt against a durable block.      *)

InspectRecovery(s, n, served) ==
    LET obs      == AnchoredNonce(n)
        a        == s.attempts[1]
        receipt  == Receipt(a, n, served)
        consumed == obs.nonce > a.nonce
        search   == SearchReplacement(a, ResolvedSearch(a, s.lastObs), n)
        Result(status, found) ==
            [status |-> status, obs |-> obs,
             receipt |-> receipt.status, search |-> found]
    IN  CASE obs.nonce < s.durableNext ->
                [status |-> "nonce-behind-journal", obs |-> obs,
                 receipt |-> None, search |-> NoSearch]
          [] obs.nonce >= s.durableNext /\ s.attempts = <<>> ->
                [status |-> "no-attempt", obs |-> obs,
                 receipt |-> None, search |-> NoSearch]
          [] OTHER ->
             CASE receipt.status = "verified" ->
                    Result(IF consumed THEN "resolution-available"
                                       ELSE "inconsistent-observations", NoSearch)
               [] receipt.status = "included-not-durable" /\ consumed ->
                    Result("inconsistent-observations", NoSearch)
               [] receipt.status # "verified" /\ ~consumed ->
                    Result("unresolved", NoSearch)
               [] receipt.status = "absent" /\ consumed ->
                    Result(IF search.status = "replacement-found"
                           THEN "resolution-available" ELSE "unresolved", search)

-----------------------------------------------------------------------------
(* inspectSignerInclusions: every retained attempt against the head.       *)

\* The block of a recorded inclusion is no longer canonical.  Search progress of
\* the abandoned fork is dropped with it.
Demoted_ToSigned(a) ==
    [a EXCEPT !.phase = "signed", !.incl = None, !.seen = None,
              !.search = IF @ = None THEN None ELSE [@ EXCEPT !.through = None]]
Demoted(a) ==
    [a EXCEPT !.phase = "broadcast-may-have-occurred", !.incl = None, !.seen = None,
              !.search = IF @ = None THEN None ELSE [@ EXCEPT !.through = None]]

\* The nonce was consumed by tx in block `at', seen under head n.
Included(a, at, tx, n, nonce) ==
    [a EXCEPT !.phase = "included", !.incl = at,
              !.seen = [head |-> AnchorOf(n), tx |-> tx, nonce |-> nonce]]

\* The receipt pass over one attempt: the record to keep, whether its inclusion
\* was verified, and whether a replacement should be searched for.
InspectAttempt(a, n, served) ==
    LET receipt == Receipt(a, n, served)
        Keep(b, verified, candidate) ==
            [attempt |-> b, verified |-> verified, candidate |-> candidate]
    IN  IF a.phase = "included"
        THEN CASE n < a.incl.num -> Keep(a, FALSE, FALSE)
               [] n >= a.incl.num /\ ~Canonical(a.incl) ->
                    Keep(Demoted(a), FALSE, FALSE)
               [] n >= a.incl.num /\ Canonical(a.incl) ->
                    IF served THEN Keep([a EXCEPT !.seen.head = AnchorOf(n)], TRUE, FALSE)
                              ELSE Keep(a, FALSE, FALSE)
        ELSE IF receipt.status = "verified"
             THEN Keep(Included(a, receipt.at, TxOf(a), n, None), TRUE, FALSE)
             ELSE Keep(a, FALSE, receipt.status = "absent")

\* The replacement search over one candidate whose nonce is consumed.
SearchCandidate(k, lastObs, n) ==
    LET found == SearchReplacement(k.attempt,
                                   ResolvedSearch(k.attempt, lastObs), n)
    IN  IF /\ k.candidate
           /\ chain[n].nonce > k.attempt.nonce
           /\ found.status = "replacement-found"
        THEN [k EXCEPT !.attempt = Included(@, found.at, chain[found.at.num].tx, n,
                                            chain[n].nonce),
                       !.verified = TRUE]
        ELSE k

\* The first attempt without a recorded inclusion, 0 if there is none.
FirstUnresolved(as) ==
    LET open == {i \in 1..Len(as) : as[i].phase # "included"}
    IN  IF open = {} THEN 0 ELSE Min(open)

\* Every retained inclusion was verified in this pass.
AllVerified_Recorded(seen) ==
    \A i \in 1..Len(seen) : seen[i].attempt.phase = "included"
AllVerified(seen) == \A i \in 1..Len(seen) : seen[i].verified

\* Every inclusion older than the first unresolved attempt u was.
EarlierVerified(seen, u) == \A i \in 1..(u - 1) : seen[i].verified

\* `servedAt' is the set of attempts whose receipt the node serves.
InspectInclusions(s, n, servedAt) ==
    LET obs    == AnchoredNonce(n)
        seen   == [i \in 1..Len(s.attempts) |->
                     InspectAttempt(s.attempts[i], n, i \in servedAt)]
        final  == [i \in 1..Len(seen) |-> SearchCandidate(seen[i], s.lastObs, n)]
        as     == [i \in 1..Len(final) |-> final[i].attempt]
        u      == FirstUnresolved(as)
        Status == CASE obs.nonce < s.durableNext -> "nonce-behind-journal"
                    [] obs.nonce >= s.durableNext
                       /\ \E i \in 1..Len(seen) :
                            seen[i].verified /\ obs.nonce <= as[i].nonce ->
                         "inconsistent-observations"
                    [] OTHER -> "inspected"
    IN  [status   |-> Status,
         obs      |-> obs,
         attempts |-> as,
         complete |-> AllVerified(final),
         permit   |-> IF /\ u # 0
                         /\ seen[u].candidate
                         /\ obs.nonce = as[u].nonce
                         /\ EarlierVerified(final, u)
                      THEN as[u].id ELSE None]

-----------------------------------------------------------------------------
(* inspectSignerBootstrap: the three transaction counts agree.  A node may *)
(* or may not count transactions signed elsewhere as pending.              *)

BootstrapReady(n, pendingNonce) ==
    /\ LatestNonce = chain[n].nonce
    /\ pendingNonce = chain[n].nonce
=============================================================================
