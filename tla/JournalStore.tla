----------------------------- MODULE JournalStore -----------------------------
(***************************************************************************)
(* The transaction journal on disk: durableReplace (durable-replace.ts),   *)
(* FileTransactionJournalStore.open / load / save and the JournalPersist-  *)
(* ence that retains a failed write, under process crashes and power       *)
(* failures.                                                               *)
(*                                                                         *)
(* The file system is external.  `view' is the journal's directory entry   *)
(* as running processes see it, `dur' the entry on the medium: a rename    *)
(* changes the first, a directory sync copies it to the second.  A power   *)
(* failure leaves either, and turns a file that was never synced into      *)
(* garbage.  Temporary files have fresh names and are never loaded, so the *)
(* only one in the model is that of the replacement in progress.           *)
(***************************************************************************)
EXTENDS FiniteSets

CONSTANTS
    Snapshots,   \* the snapshots the owner may store
    None,        \* no file, no value
    Torn         \* the contents of a file lost before it was synced

\* A file: its contents, and whether they were synced.
File == [data : Snapshots \cup {Torn}, state : {"dirty", "synced"}]

ASSUME StoreAssumption ==
    /\ None \notin Snapshots \cup {Torn}
    /\ Torn \notin Snapshots
    /\ None \notin File

VARIABLES
    view,        \* the journal's directory entry in memory
    dur,         \* the journal's directory entry on the medium
    temp,        \* the temporary file of the replacement in progress
    stage,       \* how far the replacement in progress got
    proc,        \* down, opening or up
    current,     \* JournalPersistence.current
    pending,     \* the snapshot being written, or retained by a failed write
    pstate,      \* JournalPersistence.state
    acked,       \* history: the snapshot last acknowledged
    attempted    \* history: the writes begun and not acknowledged since

fsVars == <<view, dur>>
vars   == <<view, dur, temp, stage, proc, current, pending, pstate, acked,
            attempted>>

Data(f)  == IF f = None THEN None ELSE f.data
Optional == Snapshots \cup {None}

TypeOK ==
    /\ view \in File \cup {None}
    /\ dur \in File \cup {None}
    /\ temp \in File \cup {None}
    /\ stage \in {"none", "begun", "temp-synced", "renamed"}
    /\ proc \in {"down", "opening", "up"}
    /\ current \in Optional
    /\ pending \in Optional
    /\ pstate \in {"idle", "writing", "failed"}
    /\ acked \in Optional
    /\ attempted \in SUBSET Snapshots

Init ==
    /\ view = None /\ dur = None /\ temp = None
    /\ stage = "none" /\ proc = "down"
    /\ current = None /\ pending = None /\ pstate = "idle"
    /\ acked = None /\ attempted = {}

-----------------------------------------------------------------------------
(* durableReplace: write and sync a temporary file, rename it over the     *)
(* journal, sync the directory.                                            *)

WriteTemp ==
    /\ stage = "begun"
    /\ temp' = [data |-> pending, state |-> "synced"]
    /\ stage' = "temp-synced"
    /\ UNCHANGED <<view, dur, proc, current, pending, pstate, acked, attempted>>

Rename ==
    /\ stage = "temp-synced"
    /\ view' = temp
    /\ temp' = None
    /\ stage' = "renamed"
    /\ UNCHANGED <<dur, proc, current, pending, pstate, acked, attempted>>

\* The directory sync is what makes the replacement durable.  The write is
\* acknowledged to persistPending, or the journal is now open.
SyncDirectory_Skipped ==
    /\ stage = "renamed"
    /\ stage' = "none"
    /\ proc' = "up" /\ current' = pending /\ pending' = None /\ pstate' = "idle"
    /\ acked' = pending /\ attempted' = {}
    /\ UNCHANGED <<view, dur, temp>>

SyncDirectory ==
    /\ stage = "renamed"
    /\ dur' = view
    /\ stage' = "none"
    /\ proc' = "up" /\ current' = pending /\ pending' = None /\ pstate' = "idle"
    /\ acked' = pending /\ attempted' = {}
    /\ UNCHANGED <<view, temp>>

\* Any step fails: the temporary file is removed, the journal entry is left as
\* it is.  A failed opening ends the process, a failed write is retained.
ReplaceFails_Dropped ==
    /\ stage # "none"
    /\ temp' = None /\ stage' = "none"
    /\ IF proc = "opening"
       THEN proc' = "down" /\ pending' = None /\ UNCHANGED pstate
       ELSE pstate' = "idle" /\ pending' = None /\ UNCHANGED proc
    /\ UNCHANGED <<view, dur, current, acked, attempted>>

ReplaceFails ==
    /\ stage # "none"
    /\ temp' = None /\ stage' = "none"
    /\ IF proc = "opening"
       THEN proc' = "down" /\ pending' = None /\ UNCHANGED pstate
       ELSE pstate' = "failed" /\ UNCHANGED <<proc, pending>>
    /\ UNCHANGED <<view, dur, current, acked, attempted>>

-----------------------------------------------------------------------------
(* FileTransactionJournalStore.open and JournalPersistence.                *)

\* load finds no journal (after the cleanup of temporary files).
OpenMissing ==
    /\ proc = "down" /\ view = None
    /\ proc' = "up"
    /\ acked' = None /\ attempted' = {}
    /\ UNCHANGED <<view, dur, temp, stage, current, pending, pstate>>

\* load decodes a journal: the previous process may have stopped between the
\* rename and the directory sync, so it is replaced by itself before use.
OpenPresent ==
    /\ proc = "down" /\ view # None /\ view.data # Torn
    /\ proc' = "opening"
    /\ pending' = view.data
    /\ stage' = "begun"
    /\ UNCHANGED <<view, dur, temp, current, pstate, acked, attempted>>

\* JournalPersistence.save.
Save(v) ==
    /\ proc = "up" /\ pstate = "idle"
    /\ pstate' = "writing"
    /\ pending' = v
    /\ stage' = "begun"
    /\ attempted' = attempted \cup {v}
    /\ UNCHANGED <<view, dur, temp, proc, current, acked>>

\* JournalPersistence.retry: the same snapshot through a new temporary file.
Retry ==
    /\ proc = "up" /\ pstate = "failed"
    /\ pstate' = "writing"
    /\ stage' = "begun"
    /\ UNCHANGED <<view, dur, temp, proc, current, pending, acked, attempted>>

-----------------------------------------------------------------------------
(* Failures (external).                                                    *)

Stopped ==
    /\ proc' = "down" /\ temp' = None /\ stage' = "none"
    /\ current' = None /\ pending' = None /\ pstate' = "idle"
    /\ UNCHANGED <<acked, attempted>>

Crash ==
    /\ proc # "down"
    /\ Stopped
    /\ UNCHANGED <<view, dur>>

\* What is left of a directory entry after the power came back.
Survives(f) == IF f = None \/ f.state = "synced" THEN f
               ELSE [data |-> Torn, state |-> "synced"]

PowerFailure ==
    /\ Stopped
    /\ \E f \in {view, dur} : view' = Survives(f) /\ dur' = Survives(f)

Next ==
    \/ WriteTemp \/ Rename \/ SyncDirectory \/ ReplaceFails
    \/ OpenMissing \/ OpenPresent \/ Retry
    \/ \E v \in Snapshots : Save(v)
    \/ Crash \/ PowerFailure

Spec == Init /\ [][Next]_vars

-----------------------------------------------------------------------------
\* Whatever stops the process or the machine, the journal holds the snapshot
\* last acknowledged or one whose write began after it; it is never torn, and
\* never missing once a snapshot was acknowledged (durableReplace).
AcknowledgedSurvives ==
    \A f \in {view, dur} : Data(f) \in {acked} \cup attempted

\* Once the journal is open and no write is outstanding, the snapshot in memory
\* is the one on the medium: no later power failure can bring an older one back
\* (the rewrite in FileTransactionJournalStore.open, the directory sync).
OpenIsDurable ==
    (proc = "up" /\ pstate = "idle") =>
        Data(view) = current /\ Data(dur) = current

\* No crash and no power failure takes back what was acknowledged or what an open
\* journal answers from.
JournalInv == TypeOK /\ AcknowledgedSurvives /\ OpenIsDurable

-----------------------------------------------------------------------------
(* The store implements the register of AtomicJournal.                     *)

Abstract == INSTANCE AtomicJournal WITH
    possible <- {Data(view), Data(dur)}
                \cup (IF proc = "up" /\ pstate # "idle" THEN {pending} ELSE {}),
    open     <- proc = "up",
    current  <- current,
    pending  <- IF proc = "up" THEN pending ELSE None,
    pstate   <- pstate

\* Every step of the store is a step of the register, or none of its business.
ImplementsAtomicJournal == Abstract!Spec
=============================================================================
