--------------------------- MODULE StatusProjection ---------------------------
(***************************************************************************)
(* What the daemon publishes about its signer, and what a reader accepts.  *)
(*                                                                         *)
(* Status is TransactionManager.status as readSignerRuntimeObservation     *)
(* captures it and projectDaemonStatusAttempts bounds it.  It may be       *)
(* captured in any state of the coordinator, in the middle of an operation *)
(* too.  Accepts is readDaemonStatusSnapshot, which the publisher runs     *)
(* before it writes and every reader runs again.  Timestamps, identities   *)
(* and transaction hashes are left out.                                    *)
(***************************************************************************)
EXTENDS SignerCoordinator

\* BLOCKER_PRECEDENCE.
Precedence == <<"persistence-failure", Unattributed, Exhausted,
                "unresolved-attempt", "retention-capacity-reached",
                "recovery-incomplete">>

\* MAX_DAEMON_STATUS_ATTEMPT_DETAILS.
MaxDetails == 1

\* evaluateSignerGate: every reason that holds, by its place in the precedence.
Reasons ==
    LET attempts == IF current = None THEN <<>> ELSE current.attempts
        holds    == blockers
            \cup (IF pstate = "failed" THEN {"persistence-failure"} ELSE {})
            \cup (IF ~recovered \/ ~inclusions \/ current = None
                  THEN {"recovery-incomplete"} ELSE {})
            \cup (IF FirstUnresolved(attempts) # 0
                  THEN {"unresolved-attempt"} ELSE {})
            \cup (IF Len(attempts) >= MaxRetained
                  THEN {"retention-capacity-reached"} ELSE {})
    IN  {i \in 1..Len(Precedence) : Precedence[i] \in holds}

First(reasons) == IF reasons = {} THEN None ELSE Precedence[Min(reasons)]

-----------------------------------------------------------------------------
(* projectDaemonStatusAttempts.  The retained attempts are in nonce order, *)
(* and so are the details, which are given by their places among them.     *)

Places(attempts)   == 1..Len(attempts)
Resolved(attempts) == {i \in Places(attempts) : attempts[i].phase = "included"}
Open(attempts)     == {i \in Places(attempts) : attempts[i].phase # "included"}

Selected_OldestFirst(attempts) == {i \in Places(attempts) : i <= MaxDetails}

\* Unresolved attempts before included ones, lower nonces first.
Ahead(attempts, i) ==
    IF i \in Open(attempts) THEN {j \in Open(attempts) : j < i}
    ELSE Open(attempts) \cup {j \in Resolved(attempts) : j < i}

Selected(attempts) ==
    {i \in Places(attempts) : Cardinality(Ahead(attempts, i)) < MaxDetails}

Summary(attempts) ==
    LET retained == Len(attempts)
        included == Cardinality(Resolved(attempts))
        detailed == Cardinality(Selected(attempts))
    IN  [retained   |-> retained,
         included   |-> included,
         unresolved |-> retained - included,
         lowest     |-> IF retained = 0 THEN None ELSE attempts[1].nonce,
         highest    |-> IF retained = 0 THEN None ELSE attempts[retained].nonce,
         detailed   |-> detailed,
         omitted    |-> retained - detailed]

\* The status of the manager at this instant.
Status ==
    LET attempts == IF current = None THEN <<>> ELSE current.attempts
        reasons  == Reasons
    IN  [initialized |-> current # None,
         open        |-> GateOpen,
         reasons     |-> reasons,
         primary     |-> First(reasons),
         recovered   |-> recovered,
         inclusions  |-> inclusions,
         persistence |-> pstate,
         population  |-> attempts,
         details     |-> Selected(attempts),
         summary     |-> Summary(attempts)]

-----------------------------------------------------------------------------
(* readDaemonStatusSnapshot.                                               *)

\* readAttempts, of the attempts at these places: bounded, no identity or work
\* twice, nonces increasing.
AcceptsAttempts(as, places, maximum) ==
    /\ Cardinality(places) <= maximum
    /\ \A i, j \in places :
         i < j => /\ as[i].id # as[j].id
                  /\ WorkOf[as[i].id] # WorkOf[as[j].id]
                  /\ as[i].nonce < as[j].nonce

\* readAttemptSummary: the counts.
AcceptsCounts(sum, as, details) ==
    /\ sum.retained <= MaxRetained
    /\ {sum.included, sum.unresolved, sum.detailed, sum.omitted} \subseteq 0..sum.retained
    /\ sum.included = sum.retained - sum.unresolved
    /\ sum.detailed = Cardinality(details)
    /\ sum.detailed = Min({sum.retained, MaxDetails})
    /\ sum.omitted = sum.retained - sum.detailed
    /\ LET open == Cardinality({i \in details : as[i].phase # "included"})
       IN  /\ open = Min({sum.unresolved, sum.detailed})
           /\ Cardinality(details) - open <= sum.included

\* readAttemptSummary: the nonce range.
AcceptsRange(sum, as, details) ==
    IF sum.retained = 0 THEN sum.lowest = None /\ sum.highest = None
    ELSE /\ sum.lowest <= sum.highest
         /\ sum.highest - sum.lowest + 1 >= sum.retained
         /\ sum.retained = 1 => sum.lowest = sum.highest
         /\ \A i \in details :
              sum.lowest <= as[i].nonce /\ as[i].nonce <= sum.highest
         /\ (sum.omitted = 0 \/ sum.unresolved = 0 \/ sum.included = 0) =>
              as[Min(details)].nonce = sum.lowest
         /\ sum.omitted = 0 => as[Max(details)].nonce = sum.highest

\* The gate part: an open gate has no reason against it.
AcceptsGate(s) ==
    /\ s.primary = First(s.reasons)
    /\ s.open => /\ s.reasons = {}
                 /\ s.initialized /\ s.recovered /\ s.inclusions
                 /\ s.persistence = "idle"

Accepts(s) ==
    /\ AcceptsGate(s)
    /\ AcceptsAttempts(s.population, Places(s.population), MaxRetained)
    /\ AcceptsAttempts(s.population, s.details, MaxDetails)
    /\ AcceptsCounts(s.summary, s.population, s.details)
    /\ AcceptsRange(s.summary, s.population, s.details)
    /\ ~s.initialized => s.summary.retained = 0

-----------------------------------------------------------------------------
\* The published status can be read, and relied on when it says that nothing is
\* out.  Whatever the coordinator is doing when its status is captured, the
\* snapshot the daemon builds from it passes the reader's checks, so that no
\* publication is lost because two parts of the status contradict each other; and
\* when it shows no retained attempt, no transaction of this relayer can still be
\* mined (its nonce is consumed at a durable block).
StatusIsHonest ==
    up => LET status == Status
          IN  /\ Accepts(status)
              /\ (status.initialized /\ status.summary.retained = 0) =>
                    \A t \in escaped : t.nonce < chain[durable].nonce
=============================================================================
