-------------------------- MODULE ResolutionEvidence --------------------------
(***************************************************************************)
(* What recovery says of an attempt when it removes it from the journal:   *)
(* the evidence of reconcileAttemptReceipt or searchAttemptReplacement, and *)
(* the checks it has to pass (diagnostics/resolution-validation.ts, again  *)
(* in relayer-log.ts).  A success and a revert consume the nonce alike and *)
(* are one outcome here.                                                   *)
(***************************************************************************)
EXTENDS SignerCoordinator

\* result.evidence of a pass r over snapshot s, under the durable anchor n.
Evidence(s, r, n) ==
    LET a == s.attempts[1]
    IN  IF r.receipt = "verified"
        THEN [outcome |-> "mined", anchor |-> AnchorOf(n),
              at |-> Receipt(a, n, TRUE).at, tx |-> TxOf(a), nonce |-> None]
        ELSE [outcome |-> "replaced", anchor |-> AnchorOf(n), at |-> r.search.at,
              tx |-> chain[r.search.at.num].tx, nonce |-> r.obs.nonce]

\* snapshotResolutionEvidence.
InclusionUnderAnchor(e) ==
    /\ e.at.num <= e.anchor.num
    /\ e.at.num = e.anchor.num => e.at = e.anchor

\* assertResolutionTransaction.
MatchesAttempt(a, e) ==
    IF e.outcome = "replaced" THEN e.tx # TxOf(a) /\ e.nonce > a.nonce
                              ELSE e.tx = TxOf(a)

\* projectResolution and validateResolutionRecord, over the event finishWrite
\* emits: the same checks, an attempt having one signed transaction.
LogAccepts(a, e) == InclusionUnderAnchor(e) /\ MatchesAttempt(a, e)

\* Recovery never stumbles over its own evidence, and what it reports of an
\* attempt is what happened: the attempt is called mined when it is in a block up
\* to the anchor, and replaced only when no such block has it, however late the
\* node serves receipts and whatever forks were searched before (recoverOwned).
ResolutionsAreTrue ==
    (Reading("recover") /\ current # None /\ current.attempts # <<>>) =>
        \A n \in RecoveryAnchors, served \in BOOLEAN :
            LET a == current.attempts[1]
                r == InspectRecovery(current, n, served)
                e == Evidence(current, r, n)
            IN  r.status = "resolution-available" =>
                  /\ LogAccepts(a, e)
                  /\ (e.outcome = "mined") <=>
                       (\E k \in 1..n : chain[k].tx = TxOf(a))
===============================================================================
