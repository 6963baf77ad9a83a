---------------------------- MODULE AtomicJournal ----------------------------
(***************************************************************************)
(* What the transaction journal promises its owner: a register that holds  *)
(* one snapshot, in which a write is atomic and an acknowledged write      *)
(* survives every crash.  A write that was not acknowledged may or may not *)
(* have taken place, and until the journal is opened again it may still be *)
(* undecided which: `possible' is the set of snapshots the next opening    *)
(* can find.                                                               *)
(***************************************************************************)
CONSTANTS
    Snapshots,   \* the snapshots the owner may store
    None         \* no journal

VARIABLES
    possible,    \* what an opening may find
    open,        \* the owner holds the journal open
    current,     \* the snapshot the owner believes is stored
    pending,     \* the snapshot of the unacknowledged write
    pstate       \* idle, writing or failed

vars == <<possible, open, current, pending, pstate>>

TypeOK ==
    /\ possible \in SUBSET (Snapshots \cup {None})
    /\ open \in BOOLEAN
    /\ current \in Snapshots \cup {None}
    /\ pending \in Snapshots \cup {None}
    /\ pstate \in {"idle", "writing", "failed"}

Init ==
    /\ possible = {None}
    /\ open = FALSE
    /\ current = None
    /\ pending = None
    /\ pstate = "idle"

\* Opening decides what the register holds, once and for all.
Open ==
    /\ ~open
    /\ \E v \in possible : possible' = {v} /\ current' = v
    /\ open' = TRUE
    /\ UNCHANGED <<pending, pstate>>

Begin(v) ==
    /\ open /\ pstate = "idle"
    /\ possible' = possible \cup {v}
    /\ pending' = v
    /\ pstate' = "writing"
    /\ UNCHANGED <<open, current>>

Retry ==
    /\ open /\ pstate = "failed"
    /\ pstate' = "writing"
    /\ UNCHANGED <<possible, open, current, pending>>

Acknowledge ==
    /\ open /\ pstate = "writing"
    /\ possible' = {pending}
    /\ current' = pending
    /\ pending' = None
    /\ pstate' = "idle"
    /\ UNCHANGED open

Fail ==
    /\ open /\ pstate = "writing"
    /\ pstate' = "failed"
    /\ UNCHANGED <<possible, open, current, pending>>

\* The owner stops, or the machine does, also while the journal is closed.
\* Some outcomes may be decided by it; at least one remains.
Crash ==
    /\ open' = FALSE
    /\ possible' \in (SUBSET possible) \ {{}}
    /\ current' = None
    /\ pending' = None
    /\ pstate' = "idle"

Next ==
    \/ Open \/ Retry \/ Acknowledge \/ Fail \/ Crash
    \/ \E v \in Snapshots : Begin(v)

Spec == Init /\ [][Next]_vars
=============================================================================
