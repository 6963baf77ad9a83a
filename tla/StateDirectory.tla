---------------------------- MODULE StateDirectory ----------------------------
(***************************************************************************)
(* The state directory of one signer and the commands that share it: the   *)
(* launcher (apps/relayer/scripts/relayer.sh), the service lock            *)
(* (state/service-lock.ts), the start-up checks, and the order in which    *)
(* daemon, import, sync-nonce and status read and write the files.         *)
(*                                                                         *)
(* Each process is one command; its program counter stops where the code   *)
(* awaits, and checks that the code makes synchronously after an await are *)
(* in the same step as what follows them.  The contents of the journal are *)
(* a version tagged with its writer; checkpoint and status are present or  *)
(* not.  A file is replaced through a temporary one (durableReplace), and  *)
(* a process may be killed between any two steps.                          *)
(*                                                                         *)
(* The operator may replace the lock file, which is forbidden only while a *)
(* writer may be running, and may lose the journal while nothing runs.     *)
(***************************************************************************)
EXTENDS Integers, FiniteSets

CONSTANTS
    Procs,        \* process slots
    None,         \* absent value
    MaxVersion,   \* bound: versions of the journal
    MaxInode      \* bound: lock files ever created

ASSUME DirectoryAssumption ==
    /\ MaxVersion \in Nat \ {0} /\ MaxInode \in Nat \ {0}
    /\ None \notin Procs \cup [n : 1..MaxVersion, by : Procs]

Target  == {"journal", "checkpoint", "status"}
Command == {"daemon", "import", "sync", "status"}
Version == [n : 1..MaxVersion, by : Procs]

VARIABLES
    lock,      \* inode of relayer.flock, 0 when there is none
    inodes,    \* lock files created so far
    journal,   \* contents of the journal, None when missing
    others,    \* which of checkpoint and status exist
    temps,     \* temporary files, by target and by process slot
    lost,      \* the operator lost the journal (history)
    pc,        \* where each process is
    cmd,       \* its command
    fd,        \* inode its descriptor 9 is open on, 0 when none
    held,      \* processes whose descriptor holds the exclusive flock
    own,       \* VerifiedServiceLock of the command, 0 before the check
    mem,       \* the journal it works from
    got,       \* the journal it read last
    job,       \* the replacement in progress: target, contents, next step
    exit,      \* how a process ended in the last step, "none" if none did
    saved      \* running processes whose repair reached the file (history)

dirVars  == <<lock, inodes, journal, others, temps, lost>>
lockVars == <<fd, held, own>>
vars     == <<dirVars, pc, cmd, lockVars, mem, got, job, saved, exit>>

WriterPhase == {"boot", "list", "empty", "prior", "open", "clean", "wait",
                "checkpoint", "publish", "publish-check", "run", "temp"}
SyncPhase   == {"sync-read", "sync-inspect", "sync-reread", "sync-compare",
                "sync-opened", "sync-load", "sync-decide", "sync-saved"}
Phase == {"off", "opened", "node", "config", "network", "snapshot", "status-read",
          "status-report"} \cup WriterPhase \cup SyncPhase
Exit  == {"none", "success", "failure", "busy", "interrupted", "refused"}
Job   == [target : Target, value : Version \cup {None}, next : Phase]

TypeOK ==
    /\ lock \in 0..MaxInode /\ inodes \in 0..MaxInode
    /\ journal \in Version \cup {None}
    /\ others \subseteq {"checkpoint", "status"}
    /\ temps \subseteq Target \X Procs
    /\ lost \in BOOLEAN
    /\ pc \in [Procs -> Phase] /\ cmd \in [Procs -> Command \cup {None}]
    /\ fd \in [Procs -> 0..MaxInode] /\ own \in [Procs -> 0..MaxInode]
    /\ held \in SUBSET Procs /\ saved \in SUBSET Procs
    /\ mem \in [Procs -> Version \cup {None}]
    /\ got \in [Procs -> Version \cup {None}]
    /\ job \in [Procs -> Job \cup {None}]
    /\ exit \in Exit

Init ==
    /\ lock = 0 /\ inodes = 0 /\ journal = None /\ others = {} /\ temps = {}
    /\ lost = FALSE
    /\ pc = [p \in Procs |-> "off"] /\ cmd = [p \in Procs |-> None]
    /\ fd = [p \in Procs |-> 0] /\ own = [p \in Procs |-> 0] /\ held = {}
    /\ mem = [p \in Procs |-> None] /\ got = [p \in Procs |-> None]
    /\ job = [p \in Procs |-> None]
    /\ saved = {} /\ exit = "none"

-----------------------------------------------------------------------------
(* Steps of a process.                                                     *)

\* p moves on to a phase and touches nothing else of the process.
Goto(p, phase) == pc' = [pc EXCEPT ![p] = phase] /\ exit' = "none"

\* The process ends; its descriptors are closed, which releases the lock.
End(p, how) ==
    /\ pc' = [pc EXCEPT ![p] = "off"] /\ cmd' = [cmd EXCEPT ![p] = None]
    /\ exit' = how /\ saved' = saved \ {p}
    /\ fd' = [fd EXCEPT ![p] = 0] /\ own' = [own EXCEPT ![p] = 0]
    /\ held' = held \ {p}
    /\ mem' = [mem EXCEPT ![p] = None] /\ got' = [got EXCEPT ![p] = None]
    /\ job' = [job EXCEPT ![p] = None]

At(p, from) == pc[p] = from

\* The phases in which the code looks for the shutdown signal.
Checked == {"config", "network", "wait", "checkpoint", "publish", "run",
            "sync-inspect", "sync-compare", "sync-opened", "sync-decide",
            "status-report", "snapshot"}

\* /proc says that descriptor 9 holds the exclusive lock.
HoldsFlock(p) == p \in held

\* assertServiceLockHeld: the file at the path is the one this process locked.
Owns_AnyLock(p) == lock # 0 /\ HoldsFlock(p)
Owns(p) == lock # 0 /\ fd[p] = lock /\ HoldsFlock(p)

\* The repeated check, against the lock identity verified before.
StillOwns_Unchecked(p) == TRUE
StillOwns(p) == Owns(p) /\ fd[p] = own[p]

\* durableReplace begins: the temporary file exists.
Replace(p, target, value, next) ==
    /\ job' = [job EXCEPT ![p] = [target |-> target, value |-> value, next |-> next]]
    /\ Goto(p, "temp")

NewVersion(p, base) ==
    [n |-> IF base = None THEN 1 ELSE base.n + 1, by |-> p]

-----------------------------------------------------------------------------
(* relayer.sh.                                                             *)

\* The lock file is opened, and created by every command but status.
Launch(p) ==
    /\ pc[p] = "off"
    /\ \E c \in Command :
         /\ c = "status" => lock # 0
         /\ lock = 0 => inodes < MaxInode
         /\ cmd' = [cmd EXCEPT ![p] = c]
    /\ lock' = IF lock = 0 THEN inodes + 1 ELSE lock
    /\ inodes' = IF lock = 0 THEN inodes + 1 ELSE inodes
    /\ fd' = [fd EXCEPT ![p] = lock']
    /\ Goto(p, "opened")
    /\ UNCHANGED <<journal, others, temps, lost, held, own, mem, got, job, saved>>

LockFree(p) == \A q \in held : fd[q] # fd[p]

\* flock --nonblock succeeds and node inherits the descriptor.
Flock(p) ==
    /\ pc[p] = "opened" /\ LockFree(p)
    /\ held' = held \cup {p}
    /\ Goto(p, "node")
    /\ UNCHANGED <<dirVars, cmd, fd, own, mem, got, job, saved>>

\* The lock is taken: exit 75, except that status may read the snapshot.
FlockBusy(p) ==
    /\ pc[p] = "opened" /\ ~LockFree(p)
    /\ \/ End(p, "busy")
       \/ /\ cmd[p] = "status"
          /\ fd' = [fd EXCEPT ![p] = 0]
          /\ Goto(p, "snapshot")
          /\ UNCHANGED <<cmd, held, own, mem, got, job, saved>>
    /\ UNCHANGED dirVars

\* The program is started without the launcher: there is no descriptor.
StartDirectly(p) ==
    /\ pc[p] = "off"
    /\ \E c \in Command : cmd' = [cmd EXCEPT ![p] = c]
    /\ Goto(p, "node")
    /\ UNCHANGED <<dirVars, lockVars, mem, got, job, saved>>

-----------------------------------------------------------------------------
(* Start-up.                                                               *)

Entered(p) == CASE cmd[p] = "status" -> "status-read"
                [] OTHER -> "config"

\* The first ownership check, before anything is read.
Enter(p) ==
    /\ At(p, "node")
    /\ IF Owns(p)
       THEN /\ own' = [own EXCEPT ![p] = fd[p]]
            /\ Goto(p, Entered(p))
            /\ UNCHANGED <<cmd, fd, held, mem, got, job, saved>>
       ELSE End(p, "failure")
    /\ UNCHANGED dirVars

Configured(p) == CASE pc[p] = "network"  -> "boot"
                   [] cmd[p] = "daemon" -> "network"
                   [] cmd[p] = "import" -> "boot"
                   [] cmd[p] = "sync"   -> "sync-read"

\* The configuration is loaded, and for the daemon the deployment verified; the
\* lock is checked again (openSignerRuntime, syncNonce).
Configure(p) ==
    /\ At(p, "config") \/ At(p, "network")
    /\ IF Owns(p)
       THEN /\ own' = [own EXCEPT ![p] = fd[p]]
            /\ Goto(p, Configured(p))
            /\ UNCHANGED <<cmd, fd, held, mem, got, job, saved>>
       ELSE End(p, "failure")
    /\ UNCHANGED dirVars

\* assertSignerBootstrapState: a journal is left to the store.
Boot(p) ==
    /\ At(p, "boot")
    /\ Goto(p, IF journal # None THEN "open" ELSE "list")
    /\ UNCHANGED <<dirVars, cmd, lockVars, mem, got, job, saved>>

PriorState_Ignored == FALSE

\* Anything in the directory but the lock file.
PriorState == journal # None \/ others # {} \/ temps # {}

List(p) ==
    /\ At(p, "list")
    /\ IF lock = 0 THEN End(p, "failure")
       ELSE /\ Goto(p, IF PriorState THEN "prior" ELSE "empty")
            /\ UNCHANGED <<cmd, lockVars, mem, got, job, saved>>
    /\ UNCHANGED dirVars

\* Ownership is confirmed before the entries are judged.
Judge(p) ==
    /\ At(p, "prior") \/ At(p, "empty")
    /\ IF lock = own[p] /\ pc[p] = "empty"
       THEN Goto(p, "open") /\ UNCHANGED <<cmd, lockVars, mem, got, job, saved>>
       ELSE End(p, "failure")
    /\ UNCHANGED dirVars

\* FileTransactionJournalStore.open: load, remove temporary files, rewrite.
Open(p) ==
    /\ At(p, "open")
    /\ got' = [got EXCEPT ![p] = journal]
    /\ Goto(p, "clean")
    /\ UNCHANGED <<dirVars, cmd, lockVars, mem, job, saved>>

Opened(p) == CASE cmd[p] = "daemon" -> "wait"
               [] cmd[p] = "import" -> "run"
               [] cmd[p] = "sync"   -> "sync-opened"

Orphans(target) == {target} \X Procs

Clean(p) ==
    /\ At(p, "clean")
    /\ IF got[p] = None
       THEN /\ temps' = temps \ Orphans("journal")
            /\ Goto(p, Opened(p))
            /\ UNCHANGED job
       ELSE /\ temps' = (temps \ Orphans("journal")) \cup {<<"journal", p>>}
            /\ Replace(p, "journal", got[p], Opened(p))
    /\ mem' = IF cmd[p] = "sync" THEN mem ELSE [mem EXCEPT ![p] = got[p]]
    /\ UNCHANGED <<lock, inodes, journal, others, lost, cmd, lockVars, got, saved>>

\* waitForSignerJournal: an existing journal is enough, a missing one is created.
Wait(p) ==
    /\ At(p, "wait")
    /\ IF mem[p] # None
       THEN /\ Goto(p, "checkpoint")
            /\ UNCHANGED <<temps, job>>
       ELSE /\ temps' = temps \cup {<<"journal", p>>}
            /\ Replace(p, "journal", NewVersion(p, None), "checkpoint")
    /\ UNCHANGED <<lock, inodes, journal, others, lost, cmd, lockVars, mem, got,
                   saved>>

\* FileCheckpointStore.open: the first access cleans up and rewrites.
OpenCheckpoint(p) ==
    /\ At(p, "checkpoint")
    /\ temps' = (temps \ Orphans("checkpoint")) \cup {<<"checkpoint", p>>}
    /\ Replace(p, "checkpoint", None, "publish")
    /\ UNCHANGED <<lock, inodes, journal, others, lost, cmd, lockVars, mem, got,
                   saved>>

-----------------------------------------------------------------------------
(* Writing.                                                                *)

\* The file is replaced.  A sync-nonce that opened the store keeps the contents
\* its repair is planned from.
Rename(p) ==
    LET w == job[p]
    IN  /\ pc[p] = "temp"
        /\ <<w.target, p>> \in temps
        /\ temps' = temps \ {<<w.target, p>>}
        /\ IF w.target = "journal"
           THEN /\ journal' = w.value
                /\ mem' = IF w.next = "sync-opened" THEN mem
                                                   ELSE [mem EXCEPT ![p] = w.value]
                /\ saved' = IF w.next = "sync-saved" THEN saved \cup {p} ELSE saved
                /\ UNCHANGED others
           ELSE /\ others' = others \cup {w.target}
                /\ UNCHANGED <<journal, mem, saved>>
        /\ job' = [job EXCEPT ![p] = None]
        /\ Goto(p, w.next)
        /\ UNCHANGED <<lock, inodes, lost, cmd, lockVars, got>>

\* The write is rejected, before or after the rename; the temporary file may
\* stay.  The daemon survives it once it runs, any other command ends; for an
\* import both are allowed, since Kill may follow.
WriteFails(p) ==
    LET w == job[p]
    IN  /\ pc[p] = "temp"
        /\ temps' \in {temps, temps \ {<<w.target, p>>}}
        /\ IF w.target = "journal"
           THEN journal' \in {journal, w.value} /\ UNCHANGED others
           ELSE others' \in {others, others \cup {w.target}} /\ UNCHANGED journal
        /\ IF w.target = "status" \/ w.next = "run"
           THEN /\ Goto(p, "run")
                /\ job' = [job EXCEPT ![p] = None]
                /\ UNCHANGED <<cmd, lockVars, mem, got, saved>>
           ELSE End(p, "failure")
        /\ UNCHANGED <<lock, inodes, lost>>

-----------------------------------------------------------------------------
(* The running daemon and import.                                          *)

\* The coordinator persists its next snapshot; the first one is the bootstrap.
\* It retries the same contents after a failed write.
PersistJournal(p) ==
    /\ At(p, "run")
    /\ mem[p] # None => mem[p].n < MaxVersion
    /\ temps' = temps \cup {<<"journal", p>>}
    /\ Replace(p, "journal", NewVersion(p, mem[p]), "run")
    /\ UNCHANGED <<lock, inodes, journal, others, lost, cmd, lockVars, mem, got,
                   saved>>

SaveCheckpoint(p) ==
    /\ At(p, "run") /\ cmd[p] = "daemon"
    /\ temps' = temps \cup {<<"checkpoint", p>>}
    /\ Replace(p, "checkpoint", None, "run")
    /\ UNCHANGED <<lock, inodes, journal, others, lost, cmd, lockVars, mem, got,
                   saved>>

\* writeDaemonStatusFile: a failed check only costs the publication.
BeginPublish(p) ==
    /\ At(p, "publish") \/ (At(p, "run") /\ cmd[p] = "daemon")
    /\ IF Owns(p)
       THEN /\ own' = [own EXCEPT ![p] = fd[p]]
            /\ Goto(p, "publish-check")
       ELSE Goto(p, "run") /\ UNCHANGED own
    /\ UNCHANGED <<dirVars, cmd, fd, held, mem, got, job, saved>>

Publish(p) ==
    /\ At(p, "publish-check")
    /\ IF StillOwns(p)
       THEN /\ temps' = temps \cup {<<"status", p>>}
            /\ Replace(p, "status", None, "run")
       ELSE Goto(p, "run") /\ UNCHANGED <<temps, job>>
    /\ UNCHANGED <<lock, inodes, journal, others, lost, cmd, lockVars, mem, got,
                   saved>>

Finish(p) ==
    /\ At(p, "run")
    /\ End(p, "success")
    /\ UNCHANGED dirVars

-----------------------------------------------------------------------------
(* syncNonce.                                                              *)

\* The read the repair is planned from.  A journal that is missing or holds an
\* attempt is refused.
SyncRead(p) ==
    /\ At(p, "sync-read")
    /\ \/ End(p, "refused")
       \/ /\ journal # None
          /\ mem' = [mem EXCEPT ![p] = journal]
          /\ Goto(p, "sync-inspect")
          /\ UNCHANGED <<cmd, lockVars, got, job, saved>>
    /\ UNCHANGED dirVars

\* The chain is inspected.  A preview and every plan without a repair end here.
SyncPlan(p) ==
    /\ At(p, "sync-inspect")
    /\ \/ End(p, "success")
       \/ End(p, "refused")
       \/ ~StillOwns(p) /\ End(p, "failure")
       \/ /\ StillOwns(p) /\ mem[p].n < MaxVersion
          /\ Goto(p, "sync-reread")
          /\ UNCHANGED <<cmd, lockVars, mem, got, job, saved>>
    /\ UNCHANGED dirVars

\* The journal is read again, before the store is opened and before the save.
SyncReread(p) ==
    /\ \/ At(p, "sync-reread") /\ Goto(p, "sync-compare")
       \/ At(p, "sync-load") /\ Goto(p, "sync-decide")
    /\ got' = [got EXCEPT ![p] = journal]
    /\ UNCHANGED <<dirVars, cmd, lockVars, mem, job, saved>>

\* matchesSnapshot and verifyOwnership, in this order.
Unchanged(p)  == got[p] = mem[p]
SyncAborts(p) == End(p, IF Unchanged(p) THEN "failure" ELSE "refused")

SyncCompare(p) ==
    /\ At(p, "sync-compare")
    /\ IF Unchanged(p) /\ StillOwns(p)
       THEN Goto(p, "open") /\ UNCHANGED <<cmd, lockVars, mem, got, job, saved>>
       ELSE SyncAborts(p)
    /\ UNCHANGED dirVars

SyncOpened(p) ==
    /\ At(p, "sync-opened")
    /\ IF StillOwns(p)
       THEN Goto(p, "sync-load") /\ UNCHANGED <<cmd, lockVars, mem, got, job, saved>>
       ELSE End(p, "failure")
    /\ UNCHANGED dirVars

\* The last comparison and the start of the save are one step.
SyncSave(p) ==
    /\ At(p, "sync-decide")
    /\ IF Unchanged(p) /\ StillOwns(p)
       THEN /\ temps' = temps \cup {<<"journal", p>>}
            /\ Replace(p, "journal", NewVersion(p, mem[p]), "sync-saved")
            /\ UNCHANGED <<cmd, lockVars, mem, got, saved>>
       ELSE SyncAborts(p) /\ UNCHANGED temps
    /\ UNCHANGED <<lock, inodes, journal, others, lost>>

\* The outcome of a save that began is reported whatever signal arrived.
SyncOutcome_Interruptible(p) == "interrupted"
SyncOutcome(p) == "success"

SyncReport(p) ==
    /\ At(p, "sync-saved")
    /\ End(p, SyncOutcome(p)) \/ End(p, "failure")
    /\ UNCHANGED dirVars

-----------------------------------------------------------------------------
(* status.                                                                 *)

StatusRead(p) ==
    /\ At(p, "status-read")
    /\ got' = [got EXCEPT ![p] = journal]
    /\ Goto(p, "status-report")
    /\ UNCHANGED <<dirVars, cmd, lockVars, mem, job, saved>>

\* The lock is checked again before what was read is reported.
StatusReport(p) ==
    /\ At(p, "status-report")
    /\ End(p, IF StillOwns(p) THEN "success" ELSE "failure")
    /\ UNCHANGED dirVars

\* The snapshot is read without the lock; it may be missing.
SnapshotReport(p) ==
    /\ At(p, "snapshot")
    /\ End(p, "success")
    /\ UNCHANGED dirVars

-----------------------------------------------------------------------------
(* Signals, failures, the operator.                                        *)

\* A signal that arrived since the last check is seen (throwIfAborted after an
\* await); one that arrives later finds the process past the check.
Interrupted(p) ==
    /\ pc[p] \in Checked
    /\ End(p, IF cmd[p] = "daemon" THEN "success" ELSE "interrupted")
    /\ UNCHANGED dirVars

\* Killed, or a request failed outside a write.
Kill(p) ==
    /\ pc[p] # "off"
    /\ End(p, "failure")
    /\ UNCHANGED dirVars

Writer(p) == pc[p] \in WriterPhase

\* Removing and recreating the lock file.
ReplaceLock ==
    /\ lock # 0 /\ inodes < MaxInode
    /\ \A p \in Procs : ~Writer(p)
    /\ lock' = inodes + 1 /\ inodes' = inodes + 1
    /\ exit' = "none"
    /\ UNCHANGED <<journal, others, temps, lost, pc, cmd, lockVars, mem, got, job,
                   saved>>

LoseJournal ==
    /\ journal # None /\ ~lost
    /\ \A p \in Procs : pc[p] = "off"
    /\ journal' = None /\ lost' = TRUE
    /\ exit' = "none"
    /\ UNCHANGED <<lock, inodes, others, temps, pc, cmd, lockVars, mem, got, job,
                   saved>>

-----------------------------------------------------------------------------
Startup(p) ==
    \/ Launch(p) \/ Flock(p) \/ FlockBusy(p) \/ StartDirectly(p)
    \/ Enter(p) \/ Configure(p) \/ Boot(p) \/ List(p) \/ Judge(p)
    \/ Open(p) \/ Clean(p) \/ Wait(p) \/ OpenCheckpoint(p)
Running(p) ==
    \/ Rename(p) \/ WriteFails(p)
    \/ PersistJournal(p) \/ SaveCheckpoint(p) \/ BeginPublish(p) \/ Publish(p)
    \/ Finish(p)
Repairing(p) ==
    \/ SyncRead(p) \/ SyncPlan(p) \/ SyncReread(p) \/ SyncCompare(p)
    \/ SyncOpened(p) \/ SyncSave(p) \/ SyncReport(p)
Reporting(p) == StatusRead(p) \/ StatusReport(p) \/ SnapshotReport(p)
Ending(p)    == Interrupted(p) \/ Kill(p)

Next ==
    \/ \E p \in Procs : Startup(p) \/ Running(p) \/ Repairing(p)
                        \/ Reporting(p) \/ Ending(p)
    \/ ReplaceLock \/ LoseJournal

Spec == Init /\ [][Next]_vars

-----------------------------------------------------------------------------
Ends(p) == pc[p] # "off" /\ pc'[p] = "off"

\* At most one process may change the files, although the lock file may be
\* replaced between a launcher's open and its flock, and a process may be started
\* without the launcher (assertServiceLockHeld compares inodes).
OneWriter == \A p, q \in Procs : Writer(p) /\ Writer(q) => p = q

\* No write of one process undoes a write of another: the journal is replaced only
\* by a process that works from what it holds, or that retries its own contents;
\* a repair is never saved over a journal it was not planned from.
NoLostUpdate ==
    [][\A p \in Procs :
         (pc[p] = "temp" /\ job[p].target = "journal" /\ journal' # journal) =>
             \/ mem[p] = journal
             \/ journal # None /\ journal.by = p]_vars

\* A journal status is reported only if no write happened since it was read.
StatusIsCurrent ==
    [][\A p \in Procs :
         (pc[p] = "status-report" /\ Ends(p) /\ exit' = "success") =>
             got[p] = journal]_vars

\* The checkpoint and the status file never exist without a journal, over crashes
\* and failed writes: only an interrupted first journal write, or a lost journal,
\* can make a start-up report prior state.
CheckpointFollowsJournal ==
    (others # {} \/ temps \ Orphans("journal") # {}) => (journal # None \/ lost)

\* Processes that share the directory keep its files consistent at every instant.
DirectoryInv == TypeOK /\ OneWriter /\ CheckpointFollowsJournal

\* No process writes or reports from a read that is out of date.
NothingStaleIsUsed == NoLostUpdate /\ StatusIsCurrent

\* A journal is created anew only in a directory that holds nothing of an earlier
\* run: a lost journal is not replaced by a bootstrap while a checkpoint, a status
\* file or an interrupted write shows that the signer was in use.
BootstrapIsFirstUse ==
    [][(journal = None /\ journal' # None) =>
         others = {} /\ \E p \in Procs : temps \subseteq {<<"journal", p>>}]_vars

\* The exit status of sync-nonce can be relied on: a refused or interrupted repair
\* left no trace of itself in the journal (only after a kill or a failed write, or
\* when the output is lost, does the operator have to look).
ExitTellsTheTruth ==
    [][\A p \in Procs :
         (Ends(p) /\ exit' \in {"interrupted", "refused", "busy"}) =>
             p \notin saved]_vars
=============================================================================
