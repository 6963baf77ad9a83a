------------------------ MODULE StateDirectoryProofs ------------------------
(***************************************************************************)
(* Proofs about StateDirectory, for any number of processes, lock files    *)
(* and versions of the journal.                                            *)
(***************************************************************************)
EXTENDS StateDirectory, TLAPS

(***************************************************************************)
(* The inductive invariant.  A process that owns the lock is the only one  *)
(* that does, and has owned it since its flock: inodes are never used      *)
(* again.  So what it read is what the files hold, and what it checked     *)
(* about them is still true.                                               *)
(***************************************************************************)

\* Two descriptors never hold the flock of the same file, and no descriptor is
\* open on a file that does not exist yet.  A process changes files only as long
\* as it owns the lock.
Locks ==
    /\ lock <= inodes
    /\ \A p \in Procs : fd[p] <= inodes
    /\ \A p, q \in held : fd[p] = fd[q] => p = q
    /\ \A p \in held : fd[p] # 0
    /\ \A p \in Procs : Writer(p) => Owns(p)

\* The version on which a repair is planned is not the last one.
Repairable(v) == v # None /\ v.n < MaxVersion

\* The replacements a process makes, and where each goes on.
JobIsKnown(p) ==
    /\ job[p] \in Job
    /\ job[p].target = "journal" =>
         /\ job[p].value # None
         /\ \/ job[p].next \in {"wait", "checkpoint"} /\ cmd[p] = "daemon"
            \/ job[p].next = "run" /\ cmd[p] \in {"daemon", "import"}
            \/ /\ job[p].next = "sync-opened" /\ cmd[p] = "sync"
               /\ Repairable(job[p].value) /\ mem[p] = job[p].value
            \/ job[p].next = "sync-saved" /\ cmd[p] = "sync"
    /\ job[p].target # "journal" =>
         cmd[p] = "daemon" /\ job[p].next \in {"publish", "run"}

\* What a process knows of itself.
Local(p) ==
    /\ pc[p] \in {"off", "opened"} => p \notin held
    /\ pc[p] = "opened" => fd[p] # 0
    /\ pc[p] # "off" => cmd[p] \in Command
    /\ pc[p] = "config" => cmd[p] # "status"
    /\ pc[p] \in {"status-read", "status-report"} => cmd[p] = "status"
    /\ pc[p] \in {"network", "wait", "checkpoint", "publish", "publish-check"} =>
         cmd[p] = "daemon"
    /\ pc[p] \in {"boot", "list", "empty", "prior", "run"} => cmd[p] \in {"daemon", "import"}
    /\ pc[p] \in {"open", "clean"} => cmd[p] \in {"daemon", "import", "sync"}
    /\ pc[p] \in SyncPhase => cmd[p] = "sync"
    /\ pc[p] = "sync-inspect" => mem[p] # None
    /\ pc[p] \in {"sync-reread", "sync-compare", "sync-opened", "sync-load", "sync-decide"} =>
         Repairable(mem[p])
    /\ pc[p] \in {"open", "clean"} /\ cmd[p] = "sync" => Repairable(mem[p])
    /\ pc[p] = "temp" => JobIsKnown(p)
    /\ p \in saved => pc[p] = "sync-saved"

\* What it works from is in the journal, or a write of its own that it was told
\* had failed.
WorksFromJournal(p) == mem[p] = journal \/ (journal # None /\ journal.by = p)

\* A missing journal is that of a directory never used before.
FirstUse(p) ==
    journal = None => others = {} /\ temps \subseteq {<<"journal", p>>}

\* The daemon has a journal before it has anything else.
HasJournal(p) ==
    \/ pc[p] \in {"checkpoint", "publish", "publish-check"}
    \/ pc[p] = "run" /\ cmd[p] = "daemon"
    \/ pc[p] = "temp" /\ cmd[p] = "daemon"
         /\ (job[p].target = "journal" => job[p].next = "run")

\* What a process that owns the lock knows of the files.
Current(p) ==
    /\ pc[p] \in {"status-report", "sync-compare", "sync-decide", "clean"} => got[p] = journal
    /\ pc[p] \in {"sync-inspect", "sync-reread", "sync-compare", "sync-opened",
                  "sync-load", "sync-decide"} => mem[p] = journal
    /\ pc[p] \in {"open", "clean"} /\ cmd[p] = "sync" => mem[p] = journal
    /\ pc[p] \in {"wait", "checkpoint", "publish", "publish-check", "run", "temp"} =>
         WorksFromJournal(p)
    /\ pc[p] \in {"empty", "open", "clean", "wait", "run", "temp"} => FirstUse(p)
    /\ HasJournal(p) => journal # None
    /\ pc[p] = "temp" /\ job[p].target = "journal" =>
         job[p].value = journal \/ job[p].value.by = p

IInv ==
    /\ TypeOK
    /\ Locks
    /\ \A p \in Procs : Local(p)
    /\ \A p \in Procs : Owns(p) => Current(p)
    /\ CheckpointFollowsJournal

-----------------------------------------------------------------------------
(* Steps of one process.                                                   *)

\* A step of p leaves the other processes alone.
OthersSame(p) ==
    \A q \in Procs \ {p} :
        /\ pc'[q] = pc[q] /\ cmd'[q] = cmd[q] /\ fd'[q] = fd[q] /\ own'[q] = own[q]
        /\ mem'[q] = mem[q] /\ got'[q] = got[q] /\ job'[q] = job[q]
        /\ (q \in held' <=> q \in held) /\ (q \in saved' <=> q \in saved)

\* What another process knows of itself.
LEMMA LocalStays ==
    ASSUME NEW p \in Procs, NEW q \in Procs, q # p, OthersSame(p), Local(q)
    PROVE  Local(q)'
<1>1. /\ pc'[q] = pc[q] /\ cmd'[q] = cmd[q] /\ fd'[q] = fd[q] /\ mem'[q] = mem[q]
      /\ job'[q] = job[q] /\ (q \in held' <=> q \in held) /\ (q \in saved' <=> q \in saved)
  BY DEF OthersSame
<1> QED
  BY <1>1 DEF Local, JobIsKnown

\* What another process knows of files that do not change.
LEMMA CurrentStays ==
    ASSUME NEW p \in Procs, NEW q \in Procs, q # p, OthersSame(p), Current(q),
           UNCHANGED <<journal, others, temps>>
    PROVE  Current(q)'
<1>1. /\ pc'[q] = pc[q] /\ cmd'[q] = cmd[q] /\ mem'[q] = mem[q] /\ got'[q] = got[q]
      /\ job'[q] = job[q]
  BY DEF OthersSame
<1> QED
  BY <1>1 DEF Current, WorksFromJournal, FirstUse, HasJournal

\* Only one process owns the lock.
LEMMA OneOwner ==
    ASSUME Locks, NEW p \in Procs, NEW q \in Procs, Owns(p), Owns(q)
    PROVE  p = q
BY DEF Locks, Owns, HoldsFlock

\* A step of one process preserves the invariant if it does so for this process,
\* and changes no file unless the process owns the lock.
LEMMA StepPreserves ==
    ASSUME IInv, NEW p \in Procs, OthersSame(p), TypeOK',
           UNCHANGED <<lock, inodes, lost>>,
           fd'[p] \in {fd[p], 0},
           p \in held' => fd'[p] = fd[p] /\ fd[p] # 0 /\ (p \in held \/ LockFree(p)),
           Owns(p) \/ UNCHANGED <<journal, others, temps>>,
           Writer(p)' => Owns(p)',
           Local(p)', Owns(p)' => Current(p)', CheckpointFollowsJournal'
    PROVE  IInv'
<1>1. TypeOK /\ Locks /\ (\A q \in Procs : Local(q)) /\ (\A q \in Procs : Owns(q) => Current(q))
  BY DEF IInv
<1>2. /\ lock' = lock /\ inodes' = inodes /\ held \subseteq Procs /\ held' \subseteq Procs
      /\ inodes \in Nat /\ fd[p] \in Nat
  BY <1>1 DEF TypeOK
<1>3. ASSUME NEW q \in Procs, q # p PROVE Owns(q)' <=> Owns(q)
  BY <1>2, <1>3 DEF Owns, HoldsFlock, OthersSame
<1>4. \A q \in Procs : Local(q)'
  BY <1>1, LocalStays
<1>5. ASSUME NEW q \in Procs, Owns(q)' PROVE Current(q)'
  <2>1. CASE q = p
    BY <1>5, <2>1
  <2>2. CASE q # p /\ Owns(p)
    BY <1>1, <1>3, <1>5, <2>2, OneOwner
  <2>3. CASE q # p /\ UNCHANGED <<journal, others, temps>>
    BY <1>1, <1>3, <1>5, <2>3, CurrentStays
  <2> QED
    BY <2>1, <2>2, <2>3
<1>6. Locks'
  <2>1. lock' <= inodes'
    BY <1>1, <1>2 DEF Locks
  <2>2. ASSUME NEW q \in Procs PROVE fd'[q] <= inodes'
    <3>1. fd[q] <= inodes /\ fd[p] <= inodes
      BY <1>1 DEF Locks
    <3> QED
      BY <1>2, <3>1 DEF OthersSame
  <2>3. ASSUME NEW q \in held', NEW r \in held', fd'[q] = fd'[r] PROVE q = r
    <3>1. CASE q # p /\ r # p
      BY <1>1, <1>2, <2>3, <3>1 DEF OthersSame, Locks
    <3>2. CASE q # p /\ r = p
      BY <1>1, <1>2, <2>3, <3>2 DEF OthersSame, Locks, LockFree
    <3>3. CASE q = p /\ r # p
      BY <1>1, <1>2, <2>3, <3>3 DEF OthersSame, Locks, LockFree
    <3> QED
      BY <3>1, <3>2, <3>3
  <2>4. ASSUME NEW q \in held' PROVE fd'[q] # 0
    BY <1>1, <1>2 DEF OthersSame, Locks
  <2>5. ASSUME NEW q \in Procs, Writer(q)' PROVE Owns(q)'
    BY <1>1, <1>3, <2>5 DEF OthersSame, Locks, Writer
  <2> QED
    BY <2>1, <2>2, <2>3, <2>4, <2>5 DEF Locks
<1> QED
  BY <1>4, <1>5, <1>6 DEF IInv

\* A process that ends.
LEMMA EndPreserves ==
    ASSUME IInv, NEW p \in Procs, NEW how \in Exit, End(p, how),
           UNCHANGED <<lock, inodes, lost>>,
           journal' \in Version \cup {None}, others' \subseteq {"checkpoint", "status"},
           temps' \subseteq Target \X Procs,
           Owns(p) \/ UNCHANGED <<journal, others, temps>>,
           CheckpointFollowsJournal'
    PROVE  IInv'
<1>1. TypeOK
  BY DEF IInv
<1>2. /\ pc'[p] = "off" /\ fd'[p] = 0 /\ p \notin held' /\ p \notin saved'
  BY <1>1 DEF End, TypeOK
<1>3. OthersSame(p)
  BY <1>1 DEF End, TypeOK, OthersSame
<1>4. TypeOK'
  <2>1. 0 \in 0..MaxInode
    BY DirectoryAssumption
  <2>2. /\ pc' \in [Procs -> Phase] /\ cmd' \in [Procs -> Command \cup {None}]
        /\ fd' \in [Procs -> 0..MaxInode] /\ own' \in [Procs -> 0..MaxInode]
        /\ held' \in SUBSET Procs /\ saved' \in SUBSET Procs
        /\ mem' \in [Procs -> Version \cup {None}]
        /\ got' \in [Procs -> Version \cup {None}]
        /\ job' \in [Procs -> Job \cup {None}] /\ exit' \in Exit
    BY <1>1, <2>1 DEF End, TypeOK, Phase
  <2> QED
    BY <1>1, <2>2 DEF TypeOK
<1>5. ~Writer(p)' /\ ~Owns(p)'
  BY <1>2 DEF Writer, WriterPhase, Owns, HoldsFlock
<1>6. Local(p)'
  BY <1>2 DEF Local, SyncPhase
<1> QED
  BY <1>2, <1>3, <1>4, <1>5, <1>6, StepPreserves

LEMMA EndQuietly ==
    ASSUME IInv, NEW p \in Procs, NEW how \in Exit, End(p, how), UNCHANGED dirVars
    PROVE  IInv'
<1>1. /\ UNCHANGED <<lock, inodes, lost, journal, others, temps>>
      /\ TypeOK /\ CheckpointFollowsJournal
  BY DEF dirVars, IInv
<1>2. /\ journal' \in Version \cup {None} /\ others' \subseteq {"checkpoint", "status"}
      /\ temps' \subseteq Target \X Procs
  BY <1>1 DEF TypeOK
<1>3. CheckpointFollowsJournal'
  BY <1>1 DEF CheckpointFollowsJournal, Orphans
<1> QED
  BY <1>1, <1>2, <1>3, EndPreserves

\* The values of one process after a step.
Becomes(p, phase, m, g, j) ==
    /\ pc'[p] = phase /\ mem'[p] = m /\ got'[p] = g /\ job'[p] = j
    /\ cmd'[p] = cmd[p] /\ fd'[p] = fd[p] /\ (p \in held' <=> p \in held)

\* A process that goes on to another phase.
LEMMA MovePreserves ==
    ASSUME IInv, NEW p \in Procs, NEW phase \in Phase, Goto(p, phase),
           UNCHANGED <<lock, inodes, lost, cmd, fd, held>>,
           own' = own \/ own' = [own EXCEPT ![p] = fd[p]],
           NEW m \in Version \cup {None}, NEW g \in Version \cup {None}, NEW j \in Job \cup {None},
           (mem' = mem /\ m = mem[p]) \/ mem' = [mem EXCEPT ![p] = m],
           (got' = got /\ g = got[p]) \/ got' = [got EXCEPT ![p] = g],
           (job' = job /\ j = job[p]) \/ job' = [job EXCEPT ![p] = j],
           saved' = saved \/ saved' = saved \cup {p},
           journal' \in Version \cup {None}, others' \subseteq {"checkpoint", "status"},
           temps' \subseteq Target \X Procs,
           Owns(p) \/ UNCHANGED <<journal, others, temps>>,
           phase \in WriterPhase => Owns(p),
           Becomes(p, phase, m, g, j) => Local(p)',
           Becomes(p, phase, m, g, j) /\ Owns(p) => Current(p)',
           CheckpointFollowsJournal'
    PROVE  IInv'
<1>1. TypeOK
  BY DEF IInv
<1>2. pc' = [pc EXCEPT ![p] = phase] /\ exit' = "none"
  BY DEF Goto
<1>3. Becomes(p, phase, m, g, j)
  BY <1>1, <1>2 DEF Becomes, TypeOK
<1>4. OthersSame(p)
  BY <1>1, <1>2 DEF TypeOK, OthersSame
<1>5. TypeOK'
  <2>1. /\ mem' \in [Procs -> Version \cup {None}] /\ got' \in [Procs -> Version \cup {None}]
        /\ job' \in [Procs -> Job \cup {None}] /\ own' \in [Procs -> 0..MaxInode]
        /\ pc' \in [Procs -> Phase] /\ saved' \in SUBSET Procs /\ exit' \in Exit
    BY <1>1, <1>2 DEF TypeOK, Exit
  <2> QED
    BY <1>1, <2>1 DEF TypeOK
<1>6. Owns(p)' <=> Owns(p)
  BY <1>3 DEF Owns, HoldsFlock, Becomes
<1>7. Writer(p)' => Owns(p)'
  BY <1>3, <1>6 DEF Writer, Becomes
<1>8. p \in held' => fd'[p] = fd[p] /\ fd[p] # 0 /\ p \in held
  BY <1>3 DEF Becomes, IInv, Locks
<1>9. fd'[p] \in {fd[p], 0}
  BY <1>3 DEF Becomes
<1> QED
  BY <1>3, <1>4, <1>5, <1>6, <1>7, <1>8, <1>9, StepPreserves

\* A process that goes on without changing a file.
LEMMA MoveQuietly ==
    ASSUME IInv, NEW p \in Procs, NEW phase \in Phase, Goto(p, phase),
           UNCHANGED <<dirVars, cmd, fd, held, job, saved>>,
           own' = own \/ own' = [own EXCEPT ![p] = fd[p]],
           NEW m \in Version \cup {None}, NEW g \in Version \cup {None},
           (mem' = mem /\ m = mem[p]) \/ mem' = [mem EXCEPT ![p] = m],
           (got' = got /\ g = got[p]) \/ got' = [got EXCEPT ![p] = g],
           phase \in WriterPhase => Owns(p),
           Becomes(p, phase, m, g, job[p]) => Local(p)',
           Becomes(p, phase, m, g, job[p]) /\ Owns(p) => Current(p)'
    PROVE  IInv'
<1>1. /\ UNCHANGED <<lock, inodes, lost, journal, others, temps>>
      /\ TypeOK /\ CheckpointFollowsJournal
  BY DEF dirVars, IInv
<1>2. /\ journal' \in Version \cup {None} /\ others' \subseteq {"checkpoint", "status"}
      /\ temps' \subseteq Target \X Procs
  BY <1>1 DEF TypeOK
<1>3. CheckpointFollowsJournal'
  BY <1>1 DEF CheckpointFollowsJournal, Orphans
<1>4. PICK j \in Job \cup {None} : j = job[p]
  BY <1>1 DEF TypeOK
<1> QED
  BY <1>1, <1>2, <1>3, <1>4, MovePreserves

\* What the invariant says of one process.
LEMMA Known ==
    ASSUME IInv, NEW p \in Procs
    PROVE  /\ TypeOK /\ Locks /\ Local(p) /\ (Owns(p) => Current(p))
           /\ CheckpointFollowsJournal
           /\ mem[p] \in Version \cup {None} /\ got[p] \in Version \cup {None}
           /\ job[p] \in Job \cup {None} /\ journal \in Version \cup {None}
           /\ (pc[p] \in WriterPhase => Owns(p))
BY DEF IInv, TypeOK, Locks, Writer

-----------------------------------------------------------------------------
(* Start-up.                                                               *)

LEMMA LaunchPreserves == \A p \in Procs : IInv /\ Launch(p) => IInv'
<1> SUFFICES ASSUME NEW p \in Procs, IInv, Launch(p) PROVE IInv'
  OBVIOUS
<1>1. TypeOK /\ Locks /\ Local(p) /\ CheckpointFollowsJournal /\ pc[p] = "off"
      /\ UNCHANGED <<journal, others, temps, lost, held, own, mem, got, job, saved>>
  BY Known DEF Launch
<1>2. p \notin held
  BY <1>1 DEF Local
<1>3. PICK c \in Command : cmd' = [cmd EXCEPT ![p] = c] /\ (lock = 0 => inodes < MaxInode)
  BY DEF Launch
<1>4. /\ lock' = (IF lock = 0 THEN inodes + 1 ELSE lock)
      /\ inodes' = (IF lock = 0 THEN inodes + 1 ELSE inodes)
      /\ fd' = [fd EXCEPT ![p] = lock']
      /\ pc' = [pc EXCEPT ![p] = "opened"] /\ exit' = "none"
  BY DEF Launch, Goto
<1>5. /\ lock \in Nat /\ inodes \in Nat /\ lock <= inodes /\ MaxInode \in Nat
      /\ \A q \in Procs : fd[q] \in Nat /\ fd[q] <= inodes
  BY <1>1, DirectoryAssumption DEF TypeOK, Locks
<1>6. lock' # 0 /\ lock' \in 0..MaxInode /\ inodes' \in 0..MaxInode /\ lock' <= inodes'
  BY <1>1, <1>3, <1>4, <1>5 DEF TypeOK
<1>7. TypeOK'
  <2>1. /\ pc' \in [Procs -> Phase] /\ cmd' \in [Procs -> Command \cup {None}]
        /\ fd' \in [Procs -> 0..MaxInode] /\ exit' \in Exit
    BY <1>1, <1>3, <1>4, <1>6 DEF TypeOK, Phase, Exit
  <2> QED
    BY <1>1, <1>6, <2>1 DEF TypeOK
<1>8. OthersSame(p)
  BY <1>1, <1>3, <1>4 DEF OthersSame, TypeOK
<1>9. pc'[p] = "opened" /\ fd'[p] = lock' /\ cmd'[p] = c /\ saved' = saved /\ p \notin saved
  BY <1>1, <1>3, <1>4 DEF TypeOK, Local
<1>10. ASSUME NEW q \in Procs PROVE Owns(q)' <=> Owns(q)
  <2>1. CASE q = p
    BY <1>1, <1>2, <2>1 DEF Owns, HoldsFlock
  <2>2. CASE q # p /\ lock # 0
    BY <1>1, <1>4, <1>8, <2>2 DEF Owns, HoldsFlock, OthersSame
  <2>3. CASE q # p /\ lock = 0
    <3>1. fd'[q] = fd[q] /\ lock' = inodes + 1
      BY <1>4, <1>8, <2>3 DEF OthersSame
    <3>2. fd'[q] # lock'
      BY <1>5, <3>1
    <3> QED
      BY <2>3, <3>2 DEF Owns
  <2> QED
    BY <2>1, <2>2, <2>3
<1>11. \A q \in Procs : Local(q)'
  <2>1. Local(p)'
    BY <1>1, <1>2, <1>6, <1>9 DEF Local, SyncPhase
  <2>2. \A q \in Procs : q # p => Local(q)'
    BY <1>8, Known, LocalStays
  <2> QED
    BY <2>1, <2>2
<1>12. ASSUME NEW q \in Procs, Owns(q)' PROVE Current(q)'
  <2>1. Owns(q) /\ q # p
    BY <1>1, <1>2, <1>10, <1>12 DEF Owns, HoldsFlock
  <2> QED
    BY <1>1, <1>8, <2>1, Known, CurrentStays
<1>13. Locks'
  <2>1. ASSUME NEW q \in Procs PROVE fd'[q] <= inodes'
    BY <1>4, <1>5, <1>6, <1>8, <1>9 DEF OthersSame
  <2>2. ASSUME NEW q \in held' PROVE q \in held /\ q # p /\ fd'[q] = fd[q]
    BY <1>1, <1>2, <1>8 DEF OthersSame, TypeOK
  <2>3. ASSUME NEW q \in Procs, Writer(q)' PROVE Owns(q)'
    <3>1. q # p
      BY <1>9, <2>3 DEF Writer, WriterPhase
    <3>2. Writer(q)
      BY <1>8, <2>3, <3>1 DEF Writer, OthersSame
    <3> QED
      BY <1>1, <1>10, <3>2 DEF Locks
  <2>4. /\ \A q, r \in held' : fd'[q] = fd'[r] => q = r
        /\ \A q \in held' : fd'[q] # 0
    BY <1>1, <2>2 DEF Locks
  <2> QED
    BY <1>6, <2>1, <2>3, <2>4 DEF Locks
<1>14. CheckpointFollowsJournal'
  BY <1>1 DEF CheckpointFollowsJournal, Orphans
<1> QED
  BY <1>7, <1>11, <1>12, <1>13, <1>14 DEF IInv

LEMMA FlockPreserves == \A p \in Procs : IInv /\ Flock(p) => IInv'
<1> SUFFICES ASSUME NEW p \in Procs, IInv, Flock(p) PROVE IInv'
  OBVIOUS
<1>1. TypeOK /\ Local(p) /\ CheckpointFollowsJournal /\ pc[p] = "opened" /\ LockFree(p)
      /\ UNCHANGED <<dirVars, cmd, fd, own, mem, got, job, saved>>
      /\ held' = held \cup {p} /\ pc' = [pc EXCEPT ![p] = "node"] /\ exit' = "none"
  BY Known DEF Flock, Goto
<1>2. UNCHANGED <<lock, inodes, lost, journal, others, temps>>
  BY <1>1 DEF dirVars
<1>3. TypeOK'
  BY <1>1, <1>2 DEF TypeOK, Phase, Exit
<1>4. OthersSame(p)
  BY <1>1 DEF TypeOK, OthersSame
<1>5. pc'[p] = "node" /\ fd'[p] = fd[p] /\ fd[p] # 0 /\ cmd'[p] = cmd[p] /\ cmd[p] \in Command
      /\ p \notin saved'
  BY <1>1 DEF TypeOK, Local
<1>6. Local(p)'
  BY <1>5 DEF Local, SyncPhase
<1>7. Current(p)' /\ ~Writer(p)'
  BY <1>5 DEF Current, HasJournal, Writer, WriterPhase
<1>8. CheckpointFollowsJournal'
  BY <1>1, <1>2 DEF CheckpointFollowsJournal, Orphans
<1> QED
  BY <1>1, <1>2, <1>3, <1>4, <1>5, <1>6, <1>7, <1>8, StepPreserves

LEMMA BusyPreserves == \A p \in Procs : IInv /\ FlockBusy(p) => IInv'
<1> SUFFICES ASSUME NEW p \in Procs, IInv, FlockBusy(p) PROVE IInv'
  OBVIOUS
<1>1. CASE End(p, "busy")
  BY <1>1, EndQuietly DEF FlockBusy, Exit
<1>2. CASE ~End(p, "busy")
  <2>1. TypeOK /\ Local(p) /\ CheckpointFollowsJournal /\ pc[p] = "opened"
        /\ UNCHANGED <<dirVars, cmd, held, own, mem, got, job, saved>>
        /\ fd' = [fd EXCEPT ![p] = 0] /\ pc' = [pc EXCEPT ![p] = "snapshot"]
        /\ exit' = "none"
    BY <1>2, Known DEF FlockBusy, Goto
  <2>2. UNCHANGED <<lock, inodes, lost, journal, others, temps>>
    BY <2>1 DEF dirVars
  <2>3. TypeOK'
    <3>1. 0 \in 0..MaxInode
      BY DirectoryAssumption
    <3>2. fd' \in [Procs -> 0..MaxInode]
      BY <2>1, <3>1 DEF TypeOK
    <3> QED
      BY <2>1, <2>2, <3>2 DEF TypeOK, Phase, Exit
  <2>4. OthersSame(p)
    BY <2>1 DEF TypeOK, OthersSame
  <2>5. pc'[p] = "snapshot" /\ fd'[p] = 0 /\ cmd'[p] = cmd[p] /\ cmd[p] \in Command
        /\ p \notin held' /\ p \notin saved'
    BY <2>1 DEF TypeOK, Local
  <2>6. Local(p)' /\ ~Writer(p)' /\ ~Owns(p)'
    BY <2>5 DEF Local, SyncPhase, Writer, WriterPhase, Owns, HoldsFlock
  <2>7. CheckpointFollowsJournal'
    BY <2>1, <2>2 DEF CheckpointFollowsJournal, Orphans
  <2> QED
    BY <2>2, <2>3, <2>4, <2>5, <2>6, <2>7, StepPreserves
<1> QED
  BY <1>1, <1>2

LEMMA DirectPreserves == \A p \in Procs : IInv /\ StartDirectly(p) => IInv'
<1> SUFFICES ASSUME NEW p \in Procs, IInv, StartDirectly(p) PROVE IInv'
  OBVIOUS
<1>1. TypeOK /\ Local(p) /\ CheckpointFollowsJournal /\ pc[p] = "off"
      /\ UNCHANGED <<dirVars, lockVars, mem, got, job, saved>>
      /\ pc' = [pc EXCEPT ![p] = "node"] /\ exit' = "none"
  BY Known DEF StartDirectly, Goto
<1>2. PICK c \in Command : cmd' = [cmd EXCEPT ![p] = c]
  BY DEF StartDirectly
<1>3. UNCHANGED <<lock, inodes, lost, journal, others, temps, fd, held, own>>
  BY <1>1 DEF dirVars, lockVars
<1>4. TypeOK'
  BY <1>1, <1>2, <1>3 DEF TypeOK, Phase, Exit
<1>5. OthersSame(p)
  BY <1>1, <1>2, <1>3 DEF TypeOK, OthersSame
<1>6. pc'[p] = "node" /\ fd'[p] = fd[p] /\ cmd'[p] = c /\ p \notin held' /\ p \notin saved'
  BY <1>1, <1>2, <1>3 DEF TypeOK, Local
<1>7. Local(p)' /\ ~Writer(p)' /\ ~Owns(p)'
  BY <1>6 DEF Local, SyncPhase, Writer, WriterPhase, Owns, HoldsFlock
<1>8. CheckpointFollowsJournal'
  BY <1>1, <1>3 DEF CheckpointFollowsJournal, Orphans
<1> QED
  BY <1>3, <1>4, <1>5, <1>6, <1>7, <1>8, StepPreserves

LEMMA EnterPreserves == \A p \in Procs : IInv /\ (Enter(p) \/ Configure(p)) => IInv'
<1> SUFFICES ASSUME NEW p \in Procs, IInv, Enter(p) \/ Configure(p) PROVE IInv'
  OBVIOUS
<1>1. Local(p) /\ pc[p] \in {"node", "config", "network"} /\ UNCHANGED dirVars
  BY Known DEF Enter, Configure, At
<1>2. CASE ~Owns(p)
  <2>1. End(p, "failure")
    BY <1>2 DEF Enter, Configure
  <2> QED
    BY <1>1, <2>1, EndQuietly DEF Exit
<1>3. CASE Owns(p)
  <2>1. cmd[p] \in Command /\ p \notin saved
        /\ (pc[p] = "config" => cmd[p] # "status") /\ (pc[p] = "network" => cmd[p] = "daemon")
    BY <1>1 DEF Local
  <2>2. PICK phase : /\ Goto(p, phase) /\ UNCHANGED <<cmd, fd, held, mem, got, job, saved>>
                     /\ own' = [own EXCEPT ![p] = fd[p]]
                     /\ \/ pc[p] = "node" /\ phase = Entered(p)
                        \/ pc[p] \in {"config", "network"} /\ phase = Configured(p)
    BY <1>1, <1>3 DEF Enter, Configure, At
  <2>3. \/ phase = "status-read" /\ cmd[p] = "status"
        \/ phase = "config" /\ cmd[p] # "status"
        \/ phase = "network" /\ cmd[p] = "daemon"
        \/ phase = "boot" /\ cmd[p] \in {"daemon", "import"}
        \/ phase = "sync-read" /\ cmd[p] = "sync"
    BY <2>1, <2>2 DEF Entered, Configured, Command
  <2>4. phase \in Phase
    BY <2>3 DEF Phase, WriterPhase, SyncPhase
  <2>5. ASSUME Becomes(p, phase, mem[p], got[p], job[p]) PROVE Local(p)' /\ Current(p)'
    <3>1. pc'[p] = phase /\ cmd'[p] = cmd[p] /\ p \notin saved' /\ fd'[p] = fd[p]
      BY <2>1, <2>2, <2>5 DEF Becomes
    <3>2. Local(p)'
      BY <2>1, <2>3, <3>1 DEF Local, SyncPhase
    <3>3. Current(p)'
      BY <2>3, <3>1 DEF Current, HasJournal
    <3> QED
      BY <3>2, <3>3
  <2>6. mem[p] \in Version \cup {None} /\ got[p] \in Version \cup {None}
    BY Known
  <2>7. UNCHANGED <<dirVars, cmd, fd, held, job, saved>>
    BY <1>1, <2>2
  <2>8. mem' = mem /\ got' = got
    BY <2>2
  <2> QED
    BY <1>3, <2>2, <2>4, <2>5, <2>6, <2>7, <2>8, MoveQuietly
<1> QED
  BY <1>2, <1>3

\* A move of p to a phase that is known, with nothing else changed.
LEMMA PlainMove ==
    ASSUME IInv, NEW p \in Procs, NEW phase \in Phase, Goto(p, phase),
           UNCHANGED <<dirVars, cmd, lockVars, mem, got, job, saved>>,
           pc[p] # "sync-saved", phase # "temp",
           phase \in WriterPhase => Owns(p),
           Becomes(p, phase, mem[p], got[p], job[p]) /\ p \notin saved' => Local(p)',
           Becomes(p, phase, mem[p], got[p], job[p]) /\ Owns(p) => Current(p)'
    PROVE  IInv'
<1>1. mem[p] \in Version \cup {None} /\ got[p] \in Version \cup {None} /\ Local(p)
  BY Known
<1>2. UNCHANGED <<dirVars, cmd, fd, held, job, saved>> /\ mem' = mem /\ got' = got /\ own' = own
  BY DEF lockVars
<1>3. p \notin saved'
  BY <1>1, <1>2 DEF Local
<1> QED
  BY <1>1, <1>2, <1>3, MoveQuietly

LEMMA BootPreserves == \A p \in Procs : IInv /\ (Boot(p) \/ List(p) \/ Judge(p)) => IInv'
<1> SUFFICES ASSUME NEW p \in Procs, IInv, Boot(p) \/ List(p) \/ Judge(p) PROVE IInv'
  OBVIOUS
<1>1. /\ Local(p) /\ pc[p] \in {"boot", "list", "prior", "empty"} /\ UNCHANGED dirVars
      /\ (Owns(p) => Current(p)) /\ (pc[p] \in WriterPhase => Owns(p))
  BY Known DEF Boot, List, Judge, At
<1>2. Owns(p) /\ Current(p) /\ cmd[p] \in {"daemon", "import"}
  BY <1>1 DEF Local, WriterPhase
<1>3. CASE End(p, "failure")
  BY <1>1, <1>3, EndQuietly DEF Exit
<1>4. CASE ~End(p, "failure")
  <2>1. PICK phase : /\ Goto(p, phase)
                     /\ UNCHANGED <<cmd, lockVars, mem, got, job, saved>>
                     /\ \/ phase = "open" /\ pc[p] = "boot" /\ journal # None
                        \/ phase \in {"list", "prior"}
                        \/ phase = "empty" /\ ~PriorState
                        \/ phase = "open" /\ pc[p] = "empty"
    BY <1>4 DEF Boot, List, Judge, At
  <2>2. phase \in Phase /\ phase # "temp"
    BY <2>1 DEF Phase, WriterPhase
  <2>3. ASSUME Becomes(p, phase, mem[p], got[p], job[p]) PROVE Current(p)'
    <3>1. /\ pc'[p] = phase /\ cmd'[p] = cmd[p]
          /\ UNCHANGED <<journal, others, temps>>
      BY <1>1, <2>3 DEF Becomes, dirVars
    <3>2. phase \in {"open", "empty"} => FirstUse(p)
      BY <1>2, <2>1 DEF Current, FirstUse, PriorState
    <3>3. FirstUse(p)' <=> FirstUse(p)
      BY <3>1 DEF FirstUse
    <3> QED
      BY <1>2, <2>1, <3>1, <3>2, <3>3 DEF Current, HasJournal
  <2>4. ASSUME Becomes(p, phase, mem[p], got[p], job[p]), p \notin saved' PROVE Local(p)'
    BY <1>2, <2>1, <2>4 DEF Becomes, Local, SyncPhase, Command
  <2> QED
    BY <1>1, <1>2, <2>1, <2>2, <2>3, <2>4, PlainMove
<1> QED
  BY <1>3, <1>4

LEMMA OpenPreserves == \A p \in Procs : IInv /\ Open(p) => IInv'
<1> SUFFICES ASSUME NEW p \in Procs, IInv, Open(p) PROVE IInv'
  OBVIOUS
<1>1. /\ Local(p) /\ pc[p] = "open" /\ UNCHANGED <<dirVars, cmd, lockVars, mem, job, saved>>
      /\ (Owns(p) => Current(p)) /\ (pc[p] \in WriterPhase => Owns(p))
      /\ got' = [got EXCEPT ![p] = journal] /\ Goto(p, "clean")
  BY Known DEF Open, At
<1>2. /\ Owns(p) /\ Current(p) /\ cmd[p] \in {"daemon", "import", "sync"} /\ p \notin saved
      /\ (cmd[p] = "sync" => Repairable(mem[p]))
  BY <1>1 DEF Local, WriterPhase
<1>3. UNCHANGED <<dirVars, cmd, fd, held, job, saved>> /\ mem' = mem /\ own' = own
      /\ UNCHANGED <<journal, others, temps>>
  BY <1>1 DEF lockVars, dirVars
<1>4. "clean" \in Phase
  BY DEF Phase, WriterPhase
<1>5. mem[p] \in Version \cup {None} /\ journal \in Version \cup {None}
  BY Known
<1>6. ASSUME Becomes(p, "clean", mem[p], journal, job[p]) PROVE Local(p)' /\ Current(p)'
  <2>1. Local(p)'
    BY <1>2, <1>3, <1>6 DEF Becomes, Local, SyncPhase, Command
  <2>2. Current(p)'
    BY <1>1, <1>2, <1>3, <1>6 DEF Becomes, Current, HasJournal, FirstUse
  <2> QED
    BY <2>1, <2>2
<1> QED
  BY <1>1, <1>2, <1>3, <1>4, <1>5, <1>6, MoveQuietly

-----------------------------------------------------------------------------
(* Writing.                                                                *)

\* The conditions on which a process may begin to replace a file.
MayReplace(p, target, value, next) ==
    /\ target = "journal" =>
         /\ value # None
         /\ \/ next \in {"wait", "checkpoint"} /\ cmd[p] = "daemon"
            \/ next = "run" /\ cmd[p] \in {"daemon", "import"}
            \/ /\ next = "sync-opened" /\ cmd[p] = "sync"
               /\ Repairable(value) /\ mem'[p] = value
            \/ next = "sync-saved" /\ cmd[p] = "sync"
    /\ target = "journal" => value = journal \/ value.by = p
    /\ target # "journal" => cmd[p] = "daemon" /\ next \in {"publish", "run"}
    /\ cmd[p] = "daemon" /\ (target = "journal" => next = "run") => journal # None

LEMMA ReplacePreserves ==
    ASSUME IInv, NEW p \in Procs, NEW target \in Target, NEW value \in Version \cup {None},
           NEW next \in Phase, Replace(p, target, value, next),
           UNCHANGED <<lock, inodes, journal, others, lost, cmd, lockVars, got, saved>>,
           NEW m \in Version \cup {None},
           (mem' = mem /\ m = mem[p]) \/ mem' = [mem EXCEPT ![p] = m],
           m = journal \/ (journal # None /\ journal.by = p),
           temps' \subseteq temps \cup {<<target, p>>},
           Owns(p), pc[p] \notin {"off", "sync-saved"}, FirstUse(p),
           target # "journal" => journal # None,
           MayReplace(p, target, value, next)
    PROVE  IInv'
<1> DEFINE j == [target |-> target, value |-> value, next |-> next]
<1>1. /\ TypeOK /\ Local(p) /\ CheckpointFollowsJournal /\ got[p] \in Version \cup {None}
      /\ journal \in Version \cup {None}
  BY Known
<1>2. j \in Job /\ j.target = target /\ j.value = value /\ j.next = next
  BY DEF Job
<1>3. job' = [job EXCEPT ![p] = j] /\ Goto(p, "temp")
  BY DEF Replace
<1> HIDE DEF j
<1>4. "temp" \in Phase
  BY DEF Phase, WriterPhase
<1>5. UNCHANGED <<fd, held, own>> /\ cmd[p] \in Command /\ p \notin saved
  BY <1>1 DEF lockVars, Local
<1>6. ASSUME Becomes(p, "temp", m, got[p], j) PROVE Local(p)'
  <2>1. pc'[p] = "temp" /\ job'[p] = j /\ cmd'[p] = cmd[p] /\ p \notin saved'
    BY <1>5, <1>6 DEF Becomes
  <2>2. JobIsKnown(p)'
    BY <1>1, <1>2, <2>1 DEF JobIsKnown, MayReplace
  <2> QED
    BY <1>5, <2>1, <2>2 DEF Local, SyncPhase
<1>7. ASSUME Becomes(p, "temp", m, got[p], j) PROVE Current(p)'
  <2>1. pc'[p] = "temp" /\ mem'[p] = m /\ job'[p] = j /\ cmd'[p] = cmd[p]
    BY <1>7 DEF Becomes
  <2>2. WorksFromJournal(p)'
    BY <2>1 DEF WorksFromJournal
  <2>3. FirstUse(p)'
    <3>1. ASSUME journal = None PROVE others = {} /\ temps' \subseteq {<<"journal", p>>}
      BY <3>1 DEF FirstUse
    <3> QED
      BY <3>1 DEF FirstUse
  <2>4. /\ HasJournal(p)' => journal' # None
        /\ job'[p].target = "journal" => job'[p].value = journal' \/ job'[p].value.by = p
    BY <1>2, <2>1 DEF HasJournal, MayReplace
  <2> QED
    BY <2>1, <2>2, <2>3, <2>4 DEF Current
<1>8. CheckpointFollowsJournal'
  <2>1. CASE target # "journal"
    BY <2>1 DEF CheckpointFollowsJournal
  <2>2. CASE target = "journal"
    <3>1. temps' \ Orphans("journal") \subseteq temps \ Orphans("journal")
      BY <2>2 DEF Orphans
    <3> QED
      BY <1>1, <3>1 DEF CheckpointFollowsJournal, Orphans
  <2> QED
    BY <2>1, <2>2
<1>9. /\ journal' \in Version \cup {None} /\ others' \subseteq {"checkpoint", "status"}
      /\ temps' \subseteq Target \X Procs
  BY <1>1 DEF TypeOK
<1>10. UNCHANGED <<lock, inodes, lost, cmd, fd, held>> /\ j \in Job \cup {None}
      /\ own' = own /\ saved' = saved /\ got' = got
  BY <1>2, <1>5
<1> QED
  BY <1>1, <1>3, <1>4, <1>6, <1>7, <1>8, <1>9, <1>10, MovePreserves

LEMMA VersionsAreNew ==
    ASSUME NEW p \in Procs, NEW base \in Version \cup {None}, base # None => base.n < MaxVersion
    PROVE  /\ NewVersion(p, base) \in Version /\ NewVersion(p, base) # None
           /\ NewVersion(p, base).by = p
<1>1. MaxVersion \in Nat /\ MaxVersion # 0 /\ None \notin Version
  BY DirectoryAssumption DEF Version
<1>2. NewVersion(p, base) \in Version
  <2>1. CASE base = None
    BY <1>1, <2>1 DEF NewVersion, Version
  <2>2. CASE base # None
    <3>1. base.n \in 1..MaxVersion /\ base.n < MaxVersion
      BY <2>2 DEF Version
    <3>2. base.n + 1 \in 1..MaxVersion
      BY <1>1, <3>1
    <3> QED
      BY <2>2, <3>2 DEF NewVersion, Version
  <2> QED
    BY <2>1, <2>2
<1>3. NewVersion(p, base).by = p
  BY DEF NewVersion
<1> QED
  BY <1>1, <1>2, <1>3

\* Only the owner of the lock removes temporary files or adds its own.
LEMMA CleanPreserves == \A p \in Procs : IInv /\ Clean(p) => IInv'
<1> SUFFICES ASSUME NEW p \in Procs, IInv, Clean(p) PROVE IInv'
  OBVIOUS
<1>1. /\ TypeOK /\ Local(p) /\ CheckpointFollowsJournal /\ pc[p] = "clean"
      /\ UNCHANGED <<lock, inodes, journal, others, lost, cmd, lockVars, got, saved>>
      /\ (Owns(p) => Current(p)) /\ (pc[p] \in WriterPhase => Owns(p))
      /\ mem[p] \in Version \cup {None} /\ got[p] \in Version \cup {None}
      /\ job[p] \in Job \cup {None}
  BY Known DEF Clean, At
<1>2. /\ Owns(p) /\ Current(p) /\ cmd[p] \in {"daemon", "import", "sync"} /\ p \notin saved
      /\ (cmd[p] = "sync" => Repairable(mem[p]))
  BY <1>1 DEF Local, WriterPhase
<1>3. /\ got[p] = journal /\ FirstUse(p) /\ (cmd[p] = "sync" => mem[p] = journal)
  BY <1>1, <1>2 DEF Current
<1>4. PICK m \in Version \cup {None} :
         /\ m = journal
         /\ (mem' = mem /\ m = mem[p]) \/ mem' = [mem EXCEPT ![p] = m]
  BY <1>1, <1>3 DEF Clean
<1>5. PICK next \in {"wait", "run", "sync-opened"} :
         /\ next = Opened(p)
         /\ \/ next = "wait" /\ cmd[p] = "daemon"
            \/ next = "run" /\ cmd[p] = "import"
            \/ next = "sync-opened" /\ cmd[p] = "sync"
  BY <1>2 DEF Opened
<1>6. next \in Phase
  BY <1>5 DEF Phase, WriterPhase, SyncPhase
<1>7. CASE got[p] = None
  <2>1. temps' = temps \ Orphans("journal") /\ Goto(p, next) /\ job' = job
    BY <1>5, <1>7 DEF Clean
  <2>2. cmd[p] # "sync" /\ journal = None
    BY <1>2, <1>3, <1>7 DEF Repairable
  <2>3. ASSUME Becomes(p, next, m, got[p], job[p]) PROVE Local(p)'
    BY <1>1, <1>2, <1>5, <2>2, <2>3 DEF Becomes, Local, SyncPhase, Command
  <2>4. ASSUME Becomes(p, next, m, got[p], job[p]) PROVE Current(p)'
    <3>1. pc'[p] = next /\ mem'[p] = m /\ cmd'[p] = cmd[p]
      BY <2>4 DEF Becomes
    <3>2. WorksFromJournal(p)'
      BY <1>1, <1>4, <3>1 DEF WorksFromJournal
    <3>3. FirstUse(p)'
      BY <1>1, <1>3, <2>1 DEF FirstUse
    <3> QED
      BY <1>5, <2>2, <3>1, <3>2, <3>3 DEF Current, HasJournal
  <2>5. CheckpointFollowsJournal'
    BY <1>1, <2>1 DEF CheckpointFollowsJournal, Orphans
  <2>6. /\ journal' \in Version \cup {None} /\ others' \subseteq {"checkpoint", "status"}
        /\ temps' \subseteq Target \X Procs
    BY <1>1, <2>1 DEF TypeOK
  <2>7. UNCHANGED <<lock, inodes, lost, cmd, fd, held>> /\ own' = own /\ saved' = saved
        /\ got' = got
    BY <1>1 DEF lockVars
  <2> QED
    BY <1>1, <1>2, <1>4, <1>6, <2>1, <2>3, <2>4, <2>5, <2>6, <2>7, MovePreserves
<1>8. CASE got[p] # None
  <2>1. /\ temps' = (temps \ Orphans("journal")) \cup {<<"journal", p>>}
        /\ Replace(p, "journal", got[p], next)
    BY <1>5, <1>8 DEF Clean
  <2>2. temps' \subseteq temps \cup {<<"journal", p>>} /\ "journal" \in Target
    BY <2>1 DEF Target
  <2>3. mem'[p] = got[p]
    BY <1>1, <1>3, <1>4 DEF TypeOK
  <2>4. MayReplace(p, "journal", got[p], next)
    BY <1>2, <1>3, <1>5, <1>8, <2>3 DEF MayReplace
  <2> QED
    BY <1>1, <1>2, <1>3, <1>4, <1>6, <2>1, <2>2, <2>4, ReplacePreserves
<1> QED
  BY <1>7, <1>8

LEMMA WaitPreserves == \A p \in Procs : IInv /\ Wait(p) => IInv'
<1> SUFFICES ASSUME NEW p \in Procs, IInv, Wait(p) PROVE IInv'
  OBVIOUS
<1>1. /\ Local(p) /\ pc[p] = "wait" /\ (Owns(p) => Current(p))
      /\ UNCHANGED <<lock, inodes, journal, others, lost, cmd, lockVars, mem, got, saved>>
      /\ (pc[p] \in WriterPhase => Owns(p)) /\ mem[p] \in Version \cup {None}
  BY Known DEF Wait, At
<1>2. Owns(p) /\ Current(p) /\ cmd[p] = "daemon" /\ p \notin saved
  BY <1>1 DEF Local, WriterPhase
<1>3. WorksFromJournal(p) /\ FirstUse(p)
  BY <1>1, <1>2 DEF Current
<1>4. CASE mem[p] # None
  <2>1. Goto(p, "checkpoint") /\ UNCHANGED <<temps, job>> /\ journal # None
    BY <1>3, <1>4 DEF Wait, WorksFromJournal
  <2>2. UNCHANGED <<dirVars, cmd, lockVars, mem, got, job, saved>>
    BY <1>1, <2>1 DEF dirVars
  <2>3. "checkpoint" \in Phase
    BY DEF Phase, WriterPhase
  <2>4. ASSUME Becomes(p, "checkpoint", mem[p], got[p], job[p]), p \notin saved'
        PROVE  Local(p)'
    BY <1>2, <2>4 DEF Becomes, Local, SyncPhase, Command
  <2>5. ASSUME Becomes(p, "checkpoint", mem[p], got[p], job[p]) PROVE Current(p)'
    BY <1>1, <1>3, <2>1, <2>5 DEF Becomes, Current, HasJournal, WorksFromJournal
  <2> QED
    BY <1>1, <1>2, <2>1, <2>2, <2>3, <2>4, <2>5, PlainMove
<1>5. CASE mem[p] = None
  <2>1. /\ temps' = temps \cup {<<"journal", p>>}
        /\ Replace(p, "journal", NewVersion(p, None), "checkpoint")
    BY <1>5 DEF Wait
  <2>2. /\ NewVersion(p, None) \in Version /\ NewVersion(p, None) # None
        /\ NewVersion(p, None).by = p
    BY VersionsAreNew
  <2>3. MayReplace(p, "journal", NewVersion(p, None), "checkpoint")
    BY <1>2, <2>2 DEF MayReplace
  <2>4. "checkpoint" \in Phase /\ "journal" \in Target
    BY DEF Phase, WriterPhase, Target
  <2>5. temps' \subseteq temps \cup {<<"journal", p>>}
    BY <2>1
  <2> QED
    BY <1>1, <1>2, <1>3, <2>1, <2>2, <2>3, <2>4, <2>5, ReplacePreserves DEF WorksFromJournal
<1> QED
  BY <1>4, <1>5

LEMMA WritePreserves ==
    \A p \in Procs : IInv /\ (OpenCheckpoint(p) \/ PersistJournal(p) \/ SaveCheckpoint(p)) => IInv'
<1> SUFFICES ASSUME NEW p \in Procs, IInv,
                    OpenCheckpoint(p) \/ PersistJournal(p) \/ SaveCheckpoint(p)
             PROVE  IInv'
  OBVIOUS
<1>1. /\ Local(p) /\ pc[p] \in {"checkpoint", "run"} /\ (Owns(p) => Current(p))
      /\ UNCHANGED <<lock, inodes, journal, others, lost, cmd, lockVars, mem, got, saved>>
      /\ (pc[p] \in WriterPhase => Owns(p)) /\ mem[p] \in Version \cup {None}
  BY Known DEF OpenCheckpoint, PersistJournal, SaveCheckpoint, At
<1>2. /\ Owns(p) /\ Current(p) /\ cmd[p] \in {"daemon", "import"}
      /\ (pc[p] = "checkpoint" => cmd[p] = "daemon")
  BY <1>1 DEF Local, WriterPhase
<1>3. /\ FirstUse(p) /\ (pc[p] = "run" => WorksFromJournal(p))
      /\ (cmd[p] = "daemon" => journal # None)
  BY <1>1, <1>2 DEF Current, HasJournal, FirstUse
<1>4. {"publish", "run"} \subseteq Phase /\ {"journal", "checkpoint"} \subseteq Target
  BY DEF Phase, WriterPhase, Target
<1>5. CASE PersistJournal(p)
  <2>1. /\ NewVersion(p, mem[p]) \in Version /\ NewVersion(p, mem[p]) # None
        /\ NewVersion(p, mem[p]).by = p
    BY <1>1, <1>5, VersionsAreNew DEF PersistJournal
  <2>2. /\ Replace(p, "journal", NewVersion(p, mem[p]), "run")
        /\ temps' \subseteq temps \cup {<<"journal", p>>} /\ pc[p] = "run"
    BY <1>5 DEF PersistJournal, At
  <2>3. MayReplace(p, "journal", NewVersion(p, mem[p]), "run")
    BY <1>2, <1>3, <2>1 DEF MayReplace
  <2> QED
    BY <1>1, <1>2, <1>3, <1>4, <2>1, <2>2, <2>3, ReplacePreserves DEF WorksFromJournal
<1>6. CASE SaveCheckpoint(p)
  <2>1. /\ Replace(p, "checkpoint", None, "run") /\ cmd[p] = "daemon" /\ pc[p] = "run"
        /\ temps' \subseteq temps \cup {<<"checkpoint", p>>}
    BY <1>6 DEF SaveCheckpoint, At
  <2>2. MayReplace(p, "checkpoint", None, "run") /\ journal # None
    BY <1>3, <2>1 DEF MayReplace
  <2> QED
    BY <1>1, <1>2, <1>3, <1>4, <2>1, <2>2, ReplacePreserves DEF WorksFromJournal
<1>7. CASE OpenCheckpoint(p)
  <2>1. /\ Replace(p, "checkpoint", None, "publish") /\ cmd[p] = "daemon"
        /\ temps' \subseteq temps \cup {<<"checkpoint", p>>} /\ pc[p] = "checkpoint"
    BY <1>2, <1>7 DEF OpenCheckpoint, At
  <2>2. MayReplace(p, "checkpoint", None, "publish") /\ journal # None
    BY <1>3, <2>1 DEF MayReplace
  <2>3. mem[p] = journal \/ (journal # None /\ journal.by = p)
    BY <1>1, <1>2, <2>1 DEF Current, WorksFromJournal
  <2> QED
    BY <1>1, <1>2, <1>3, <1>4, <2>1, <2>2, <2>3, ReplacePreserves
<1> QED
  BY <1>5, <1>6, <1>7

LEMMA PublishPreserves == \A p \in Procs : IInv /\ (BeginPublish(p) \/ Publish(p)) => IInv'
<1> SUFFICES ASSUME NEW p \in Procs, IInv, BeginPublish(p) \/ Publish(p) PROVE IInv'
  OBVIOUS
<1>1. /\ Local(p) /\ pc[p] \in {"publish", "publish-check", "run"} /\ (Owns(p) => Current(p))
      /\ (pc[p] = "run" => cmd[p] = "daemon")
      /\ UNCHANGED <<lock, inodes, journal, others, lost, cmd, fd, held, mem, got, saved>>
      /\ (pc[p] \in WriterPhase => Owns(p))
      /\ mem[p] \in Version \cup {None} /\ got[p] \in Version \cup {None}
  BY Known DEF BeginPublish, Publish, At, dirVars, lockVars
<1>2. Owns(p) /\ Current(p) /\ cmd[p] = "daemon" /\ p \notin saved
  BY <1>1 DEF Local, WriterPhase
<1>3. journal # None /\ WorksFromJournal(p) /\ FirstUse(p)
  BY <1>1, <1>2 DEF Current, HasJournal, FirstUse
<1>4. CASE \E phase \in {"publish-check", "run"} : Goto(p, phase) /\ UNCHANGED <<temps, job>>
  <2>1. PICK phase \in {"publish-check", "run"} : Goto(p, phase) /\ UNCHANGED <<temps, job>>
    BY <1>4
  <2>2. phase \in Phase
    BY DEF Phase, WriterPhase
  <2>3. own' = own \/ own' = [own EXCEPT ![p] = fd[p]]
    BY DEF BeginPublish, Publish, lockVars
  <2>4. ASSUME Becomes(p, phase, mem[p], got[p], job[p]) PROVE Local(p)'
    BY <1>1, <1>2, <2>4 DEF Becomes, Local, SyncPhase, Command
  <2>5. ASSUME Becomes(p, phase, mem[p], got[p], job[p]) PROVE Current(p)'
    BY <1>1, <1>3, <2>1, <2>5 DEF Becomes, Current, WorksFromJournal, FirstUse
  <2>6. UNCHANGED <<dirVars, cmd, fd, held, job, saved>> /\ mem' = mem /\ got' = got
    BY <1>1, <2>1 DEF dirVars
  <2> QED
    BY <1>1, <1>2, <2>1, <2>2, <2>3, <2>4, <2>5, <2>6, MoveQuietly
<1>5. CASE Publish(p) /\ StillOwns(p)
  <2>1. /\ Replace(p, "status", None, "run")
        /\ temps' \subseteq temps \cup {<<"status", p>>}
        /\ UNCHANGED lockVars
    BY <1>5 DEF Publish
  <2>2. MayReplace(p, "status", None, "run")
    BY <1>2, <1>3 DEF MayReplace
  <2>3. "run" \in Phase /\ "status" \in Target
    BY DEF Phase, WriterPhase, Target
  <2>4. mem[p] = journal \/ (journal # None /\ journal.by = p)
    BY <1>3 DEF WorksFromJournal
  <2>5. UNCHANGED <<lock, inodes, journal, others, lost, cmd, lockVars, got, saved>> /\ mem' = mem
    BY <1>1, <2>1
  <2> QED
    BY <1>1, <1>2, <1>3, <2>1, <2>2, <2>3, <2>4, <2>5, ReplacePreserves
<1>6. (\E phase \in {"publish-check", "run"} : Goto(p, phase) /\ UNCHANGED <<temps, job>>)
      \/ (Publish(p) /\ StillOwns(p))
  BY DEF BeginPublish, Publish, dirVars
<1> QED
  BY <1>4, <1>5, <1>6

\* A replacement, finished or not, is by the owner of the lock.
LEMMA AtReplacement ==
    ASSUME IInv, NEW p \in Procs, pc[p] = "temp"
    PROVE  /\ Owns(p) /\ JobIsKnown(p) /\ WorksFromJournal(p) /\ FirstUse(p)
           /\ (HasJournal(p) => journal # None) /\ p \notin saved
           /\ job[p].value \in Version \cup {None} /\ job[p].next \in Phase
           /\ job[p].target \in Target
           /\ (job[p].target # "journal" => HasJournal(p))
           /\ (job[p].target = "journal" => job[p].value = journal \/ job[p].value.by = p)
<1>1. Local(p) /\ Owns(p) /\ Current(p)
  BY Known DEF WriterPhase
<1>2. JobIsKnown(p) /\ p \notin saved
  BY <1>1 DEF Local
<1> QED
  BY <1>1, <1>2 DEF Current, JobIsKnown, Job, HasJournal

LEMMA RenamePreserves == \A p \in Procs : IInv /\ Rename(p) => IInv'
<1> SUFFICES ASSUME NEW p \in Procs, IInv, Rename(p) PROVE IInv'
  OBVIOUS
<1> DEFINE w == job[p]
<1>0. pc[p] = "temp"
  BY DEF Rename
<1>1. /\ Owns(p) /\ JobIsKnown(p) /\ WorksFromJournal(p) /\ FirstUse(p)
      /\ (HasJournal(p) => journal # None) /\ p \notin saved
      /\ w.value \in Version \cup {None} /\ w.next \in Phase /\ w.target \in Target
      /\ (w.target # "journal" => HasJournal(p))
  BY <1>0, AtReplacement
<1>2. /\ TypeOK /\ CheckpointFollowsJournal /\ mem[p] \in Version \cup {None}
      /\ got[p] \in Version \cup {None} /\ cmd[p] \in Command
  BY <1>0, Known DEF Local
<1>3. /\ temps' = temps \ {<<w.target, p>>} /\ job' = [job EXCEPT ![p] = None]
      /\ Goto(p, w.next) /\ UNCHANGED <<lock, inodes, lost, cmd, fd, held, own, got>>
  BY DEF Rename, lockVars
<1>4. temps' \subseteq Target \X Procs
  BY <1>2, <1>3 DEF TypeOK
<1>5. CASE w.target = "journal"
  <2>1. /\ journal' = w.value /\ others' = others
        /\ mem' = mem \/ mem' = [mem EXCEPT ![p] = w.value]
        /\ mem'[p] = w.value
        /\ saved' = (IF w.next = "sync-saved" THEN saved \cup {p} ELSE saved)
    <3>1. /\ journal' = w.value /\ others' = others
          /\ mem' = (IF w.next = "sync-opened" THEN mem ELSE [mem EXCEPT ![p] = w.value])
          /\ saved' = (IF w.next = "sync-saved" THEN saved \cup {p} ELSE saved)
      BY <1>5 DEF Rename
    <3>2. w.next = "sync-opened" => mem[p] = w.value
      BY <1>1, <1>5 DEF JobIsKnown
    <3> QED
      BY <1>2, <3>1, <3>2 DEF TypeOK
  <2>2. /\ w.value # None
        /\ \/ w.next \in {"wait", "checkpoint"} /\ cmd[p] = "daemon"
           \/ w.next = "run" /\ cmd[p] \in {"daemon", "import"}
           \/ w.next = "sync-opened" /\ cmd[p] = "sync" /\ Repairable(w.value)
           \/ w.next = "sync-saved" /\ cmd[p] = "sync"
    BY <1>1, <1>5 DEF JobIsKnown
  <2>3. ASSUME Becomes(p, w.next, w.value, got[p], None) PROVE Local(p)'
    <3>1. /\ pc'[p] = w.next /\ mem'[p] = w.value /\ cmd'[p] = cmd[p]
          /\ (p \in saved' => w.next = "sync-saved")
      BY <1>1, <2>1, <2>3 DEF Becomes
    <3> QED
      BY <1>2, <2>2, <3>1 DEF Local, SyncPhase
  <2>4. ASSUME Becomes(p, w.next, w.value, got[p], None) PROVE Current(p)'
    <3>1. pc'[p] = w.next /\ mem'[p] = w.value /\ cmd'[p] = cmd[p] /\ journal' = w.value
      BY <2>1, <2>4 DEF Becomes
    <3>2. WorksFromJournal(p)' /\ FirstUse(p)' /\ journal' # None
      BY <2>2, <3>1 DEF WorksFromJournal, FirstUse
    <3> QED
      BY <2>2, <3>1, <3>2 DEF Current
  <2>5. CheckpointFollowsJournal'
    BY <2>1, <2>2 DEF CheckpointFollowsJournal
  <2>6. journal' \in Version \cup {None} /\ others' \subseteq {"checkpoint", "status"}
    BY <1>1, <1>2, <2>1 DEF TypeOK
  <2>7. w.next \in WriterPhase => Owns(p)
    BY <1>1
  <2>8. saved' = saved \/ saved' = saved \cup {p}
    BY <2>1
  <2> HIDE DEF w
  <2> QED
    BY <1>1, <1>2, <1>3, <1>4, <2>1, <2>3, <2>4, <2>5, <2>6, <2>7, <2>8, MovePreserves
<1>6. CASE w.target # "journal"
  <2>1. others' = others \cup {w.target} /\ UNCHANGED <<journal, mem, saved>>
    BY <1>6 DEF Rename
  <2>2. cmd[p] = "daemon" /\ w.next \in {"publish", "run"} /\ journal # None
    BY <1>1, <1>6 DEF JobIsKnown
  <2>3. ASSUME Becomes(p, w.next, mem[p], got[p], None) PROVE Local(p)'
    BY <1>1, <2>1, <2>2, <2>3 DEF Becomes, Local, SyncPhase, Command
  <2>4. ASSUME Becomes(p, w.next, mem[p], got[p], None) PROVE Current(p)'
    BY <1>1, <2>1, <2>2, <2>4 DEF Becomes, Current, WorksFromJournal, FirstUse
  <2>5. CheckpointFollowsJournal'
    BY <2>1, <2>2 DEF CheckpointFollowsJournal
  <2>6. journal' \in Version \cup {None} /\ others' \subseteq {"checkpoint", "status"}
    BY <1>1, <1>2, <1>6, <2>1 DEF TypeOK, Target
  <2> HIDE DEF w
  <2> QED
    BY <1>1, <1>2, <1>3, <1>4, <2>1, <2>3, <2>4, <2>5, <2>6, MovePreserves
<1> QED
  BY <1>5, <1>6

LEMMA WriteFailsPreserves == \A p \in Procs : IInv /\ WriteFails(p) => IInv'
<1> SUFFICES ASSUME NEW p \in Procs, IInv, WriteFails(p) PROVE IInv'
  OBVIOUS
<1> DEFINE w == job[p]
<1>0. pc[p] = "temp"
  BY DEF WriteFails
<1>1. /\ Owns(p) /\ JobIsKnown(p) /\ WorksFromJournal(p) /\ FirstUse(p)
      /\ (HasJournal(p) => journal # None) /\ p \notin saved
      /\ w.value \in Version \cup {None} /\ w.next \in Phase /\ w.target \in Target
      /\ (w.target # "journal" => HasJournal(p))
  BY <1>0, AtReplacement
<1>2. /\ TypeOK /\ CheckpointFollowsJournal /\ mem[p] \in Version \cup {None}
      /\ got[p] \in Version \cup {None} /\ journal \in Version \cup {None}
  BY Known
<1>3. /\ temps' \in {temps, temps \ {<<w.target, p>>}} /\ UNCHANGED <<lock, inodes, lost>>
  BY DEF WriteFails
<1>4. /\ journal' \in {journal, w.value} /\ others' \subseteq others \cup {w.target}
      /\ (w.target = "journal" => others' = others) /\ (w.target # "journal" => journal' = journal)
  BY DEF WriteFails
<1>5. /\ journal' \in Version \cup {None} /\ others' \subseteq {"checkpoint", "status"}
      /\ temps' \subseteq Target \X Procs /\ (journal # None => journal' # None)
  BY <1>1, <1>2, <1>3, <1>4 DEF TypeOK, Target, JobIsKnown
<1>6. CheckpointFollowsJournal'
  <2>1. CASE w.target # "journal"
    BY <1>1, <1>5, <2>1 DEF CheckpointFollowsJournal
  <2>2. CASE w.target = "journal"
    BY <1>2, <1>3, <1>4, <1>5, <2>2 DEF CheckpointFollowsJournal, Orphans
  <2> QED
    BY <2>1, <2>2
<1>7. CASE End(p, "failure")
  BY <1>1, <1>3, <1>5, <1>6, <1>7, EndPreserves DEF Exit
<1>8. CASE ~End(p, "failure")
  <2>1. /\ w.target = "status" \/ w.next = "run"
        /\ Goto(p, "run") /\ job' = [job EXCEPT ![p] = None]
        /\ UNCHANGED <<cmd, lockVars, mem, got, saved>>
    BY <1>8 DEF WriteFails
  <2>2. /\ cmd[p] \in {"daemon", "import"} /\ (cmd[p] = "daemon" => journal # None)
    <3>1. CASE w.target = "journal"
      BY <1>0, <1>1, <2>1, <3>1 DEF JobIsKnown, HasJournal
    <3>2. CASE w.target # "journal"
      BY <1>1, <3>2 DEF JobIsKnown
    <3> QED
      BY <3>1, <3>2
  <2>3. ASSUME Becomes(p, "run", mem[p], got[p], None) PROVE Local(p)'
    BY <1>1, <2>1, <2>2, <2>3 DEF Becomes, Local, SyncPhase, Command
  <2>4. ASSUME Becomes(p, "run", mem[p], got[p], None) PROVE Current(p)'
    <3>1. pc'[p] = "run" /\ mem'[p] = mem[p] /\ cmd'[p] = cmd[p]
      BY <2>4 DEF Becomes
    <3>2. FirstUse(p)'
      <4>1. ASSUME journal' = None PROVE others' = {} /\ temps' \subseteq {<<"journal", p>>}
        <5>1. journal = None
          BY <1>5, <4>1
        <5>2. w.target = "journal"
          BY <1>1, <5>1
        <5> QED
          BY <1>1, <1>3, <1>4, <5>1, <5>2 DEF FirstUse
      <4> QED
        BY <4>1 DEF FirstUse
    <3>3. WorksFromJournal(p)'
      <4>1. CASE journal' = journal
        BY <1>1, <3>1, <4>1 DEF WorksFromJournal
      <4>2. CASE journal' # journal
        <5>1. w.target = "journal" /\ journal' = w.value /\ w.value # None
          BY <1>1, <1>4, <4>2 DEF JobIsKnown
        <5>2. w.value.by = p
          BY <1>0, <4>2, <5>1, AtReplacement
        <5> QED
          BY <5>1, <5>2 DEF WorksFromJournal
      <4> QED
        BY <4>1, <4>2
    <3>4. cmd[p] = "daemon" => journal' # None
      BY <1>5, <2>2
    <3> QED
      BY <3>1, <3>2, <3>3, <3>4 DEF Current, HasJournal
  <2>5. "run" \in Phase /\ UNCHANGED <<fd, held, own>>
    BY <2>1 DEF Phase, WriterPhase, lockVars
  <2> QED
    BY <1>1, <1>2, <1>3, <1>5, <1>6, <2>1, <2>3, <2>4, <2>5, MovePreserves
<1> QED
  BY <1>7, <1>8

-----------------------------------------------------------------------------
(* syncNonce, status, endings.                                             *)

LEMMA SyncReadPreserves == \A p \in Procs : IInv /\ SyncRead(p) => IInv'
<1> SUFFICES ASSUME NEW p \in Procs, IInv, SyncRead(p) PROVE IInv'
  OBVIOUS
<1>1. Local(p) /\ pc[p] = "sync-read" /\ UNCHANGED dirVars
      /\ journal \in Version \cup {None} /\ got[p] \in Version \cup {None}
  BY Known DEF SyncRead, At
<1>2. CASE End(p, "refused")
  BY <1>1, <1>2, EndQuietly DEF Exit
<1>3. CASE ~End(p, "refused")
  <2>1. /\ journal # None /\ mem' = [mem EXCEPT ![p] = journal] /\ Goto(p, "sync-inspect")
        /\ UNCHANGED <<cmd, lockVars, got, job, saved>>
    BY <1>3 DEF SyncRead
  <2>2. UNCHANGED <<dirVars, cmd, fd, held, job, saved>> /\ own' = own /\ got' = got
        /\ journal' = journal
    BY <1>1, <2>1 DEF lockVars, dirVars
  <2>3. "sync-inspect" \in Phase /\ "sync-inspect" \notin WriterPhase
    BY DEF Phase, SyncPhase, WriterPhase
  <2>4. cmd[p] = "sync" /\ p \notin saved
    BY <1>1 DEF Local, SyncPhase
  <2>5. ASSUME Becomes(p, "sync-inspect", journal, got[p], job[p]) PROVE Local(p)' /\ Current(p)'
    BY <2>1, <2>2, <2>4, <2>5 DEF Becomes, Local, Command, Current, HasJournal
  <2> QED
    BY <1>1, <2>1, <2>2, <2>3, <2>5, MoveQuietly
<1> QED
  BY <1>2, <1>3

LEMMA RereadPreserves == \A p \in Procs : IInv /\ (SyncReread(p) \/ StatusRead(p)) => IInv'
<1> SUFFICES ASSUME NEW p \in Procs, IInv, SyncReread(p) \/ StatusRead(p) PROVE IInv'
  OBVIOUS
<1>1. /\ Local(p) /\ (Owns(p) => Current(p)) /\ UNCHANGED <<dirVars, cmd, lockVars, mem, job, saved>>
      /\ got' = [got EXCEPT ![p] = journal]
      /\ journal \in Version \cup {None} /\ mem[p] \in Version \cup {None}
  BY Known DEF SyncReread, StatusRead
<1>2. PICK phase : /\ Goto(p, phase)
                   /\ \/ phase = "sync-compare" /\ pc[p] = "sync-reread"
                      \/ phase = "sync-decide" /\ pc[p] = "sync-load"
                      \/ phase = "status-report" /\ pc[p] = "status-read"
  BY DEF SyncReread, StatusRead, At
<1>3. UNCHANGED <<dirVars, cmd, fd, held, job, saved>> /\ own' = own /\ mem' = mem
      /\ journal' = journal
  BY <1>1 DEF lockVars, dirVars
<1>4. phase \in Phase /\ phase \notin WriterPhase
  BY <1>2 DEF Phase, SyncPhase, WriterPhase
<1>5. /\ cmd[p] \in Command /\ p \notin saved
      /\ (phase # "status-report" => cmd[p] = "sync" /\ Repairable(mem[p]))
      /\ (phase = "status-report" => cmd[p] = "status")
      /\ (phase # "status-report" /\ Owns(p) => mem[p] = journal)
  BY <1>1, <1>2 DEF Local, SyncPhase, Current
<1>6. ASSUME Becomes(p, phase, mem[p], journal, job[p]) PROVE Local(p)'
  BY <1>2, <1>3, <1>5, <1>6 DEF Becomes, Local, SyncPhase
<1>7. ASSUME Becomes(p, phase, mem[p], journal, job[p]), Owns(p) PROVE Current(p)'
  BY <1>2, <1>3, <1>5, <1>7 DEF Becomes, Current, HasJournal
<1> QED
  BY <1>1, <1>2, <1>3, <1>4, <1>6, <1>7, MoveQuietly

LEMMA SyncPreserves ==
    \A p \in Procs : IInv /\ (SyncPlan(p) \/ SyncCompare(p) \/ SyncOpened(p)) => IInv'
<1> SUFFICES ASSUME NEW p \in Procs, IInv, SyncPlan(p) \/ SyncCompare(p) \/ SyncOpened(p)
             PROVE  IInv'
  OBVIOUS
<1>1. /\ Local(p) /\ (Owns(p) => Current(p)) /\ UNCHANGED dirVars
      /\ pc[p] \in {"sync-inspect", "sync-compare", "sync-opened"}
      /\ mem[p] \in Version \cup {None} /\ journal \in Version \cup {None}
  BY Known DEF SyncPlan, SyncCompare, SyncOpened, At
<1>2. CASE \E how \in {"success", "refused", "failure"} : End(p, how)
  BY <1>1, <1>2, EndQuietly DEF Exit
<1>3. CASE ~(\E how \in {"success", "refused", "failure"} : End(p, how))
  <2>1. PICK phase :
           /\ Goto(p, phase) /\ UNCHANGED <<cmd, lockVars, mem, got, job, saved>>
           /\ StillOwns(p)
           /\ \/ phase = "sync-reread" /\ pc[p] = "sync-inspect" /\ mem[p].n < MaxVersion
              \/ phase = "open" /\ pc[p] = "sync-compare"
              \/ phase = "sync-load" /\ pc[p] = "sync-opened"
    BY <1>3 DEF SyncPlan, SyncCompare, SyncOpened, SyncAborts, At
  <2>2. /\ Owns(p) /\ cmd[p] = "sync" /\ Repairable(mem[p]) /\ mem[p] = journal
    BY <1>1, <2>1 DEF Local, SyncPhase, StillOwns, Current, Repairable
  <2>3. phase \in Phase /\ phase # "temp"
    BY <2>1 DEF Phase, SyncPhase, WriterPhase
  <2>4. UNCHANGED <<journal, others, temps>>
    BY <1>1 DEF dirVars
  <2>5. ASSUME Becomes(p, phase, mem[p], got[p], job[p]), p \notin saved' PROVE Local(p)'
    BY <2>1, <2>2, <2>5 DEF Becomes, Local, SyncPhase, Command
  <2>6. ASSUME Becomes(p, phase, mem[p], got[p], job[p]) PROVE Current(p)'
    BY <2>1, <2>2, <2>4, <2>6 DEF Becomes, Current, HasJournal, FirstUse, Repairable
  <2> QED
    BY <1>1, <2>1, <2>2, <2>3, <2>5, <2>6, PlainMove
<1> QED
  BY <1>2, <1>3

LEMMA SyncSavePreserves == \A p \in Procs : IInv /\ SyncSave(p) => IInv'
<1> SUFFICES ASSUME NEW p \in Procs, IInv, SyncSave(p) PROVE IInv'
  OBVIOUS
<1>1. /\ Local(p) /\ (Owns(p) => Current(p)) /\ pc[p] = "sync-decide"
      /\ UNCHANGED <<lock, inodes, journal, others, lost>>
      /\ mem[p] \in Version \cup {None}
  BY Known DEF SyncSave, At
<1>2. CASE ~(Unchanged(p) /\ StillOwns(p))
  <2>1. (End(p, "failure") \/ End(p, "refused")) /\ UNCHANGED dirVars
    BY <1>1, <1>2 DEF SyncSave, SyncAborts, dirVars
  <2> QED
    BY <2>1, EndQuietly DEF Exit
<1>3. CASE Unchanged(p) /\ StillOwns(p)
  <2>1. /\ temps' \subseteq temps \cup {<<"journal", p>>}
        /\ Replace(p, "journal", NewVersion(p, mem[p]), "sync-saved")
        /\ UNCHANGED <<cmd, lockVars, mem, got, saved>>
    BY <1>3 DEF SyncSave
  <2>2. Owns(p) /\ cmd[p] = "sync" /\ Repairable(mem[p]) /\ mem[p] = journal
    BY <1>1, <1>3 DEF Local, SyncPhase, StillOwns, Current
  <2>3. /\ NewVersion(p, mem[p]) \in Version /\ NewVersion(p, mem[p]) # None
        /\ NewVersion(p, mem[p]).by = p
    BY <1>1, <2>2, VersionsAreNew DEF Repairable
  <2>4. MayReplace(p, "journal", NewVersion(p, mem[p]), "sync-saved") /\ FirstUse(p)
    BY <2>2, <2>3 DEF MayReplace, FirstUse, Repairable
  <2>5. "sync-saved" \in Phase /\ "journal" \in Target
    BY DEF Phase, SyncPhase, Target
  <2>6. UNCHANGED <<lock, inodes, journal, others, lost, cmd, lockVars, got, saved>> /\ mem' = mem
    BY <1>1, <2>1
  <2> QED
    BY <1>1, <2>1, <2>2, <2>3, <2>4, <2>5, <2>6, ReplacePreserves
<1> QED
  BY <1>2, <1>3

LEMMA EndingPreserves ==
    \A p \in Procs : IInv /\ (Finish(p) \/ SyncReport(p) \/ StatusReport(p) \/ SnapshotReport(p)
                               \/ Interrupted(p) \/ Kill(p)) => IInv'
<1> SUFFICES ASSUME NEW p \in Procs, IInv,
                    Finish(p) \/ SyncReport(p) \/ StatusReport(p) \/ SnapshotReport(p)
                      \/ Interrupted(p) \/ Kill(p)
             PROVE  IInv'
  OBVIOUS
<1>1. UNCHANGED dirVars /\ \E how \in Exit : End(p, how)
  BY DEF Finish, SyncReport, SyncOutcome, StatusReport, SnapshotReport, Interrupted, Kill, Exit
<1> QED
  BY <1>1, EndQuietly

-----------------------------------------------------------------------------
(* The operator.                                                           *)

\* Replacing the lock file leaves nobody the owner of it.
LEMMA ReplaceLockPreserves == IInv /\ ReplaceLock => IInv'
<1> SUFFICES ASSUME IInv, ReplaceLock PROVE IInv'
  OBVIOUS
<1>1. /\ TypeOK /\ Locks /\ CheckpointFollowsJournal /\ (\A p \in Procs : Local(p))
      /\ inodes < MaxInode /\ (\A p \in Procs : ~Writer(p))
      /\ lock' = inodes + 1 /\ inodes' = inodes + 1 /\ exit' = "none"
      /\ UNCHANGED <<journal, others, temps, lost, pc, cmd, fd, held, own, mem, got, job, saved>>
  BY DEF IInv, ReplaceLock, lockVars
<1>2. inodes \in Nat /\ MaxInode \in Nat /\ \A p \in Procs : fd[p] \in Nat /\ fd[p] <= inodes
  BY <1>1, DirectoryAssumption DEF TypeOK, Locks
<1>3. TypeOK'
  <2>1. lock' \in 0..MaxInode /\ inodes' \in 0..MaxInode /\ exit' \in Exit
    BY <1>1, <1>2 DEF Exit
  <2> QED
    BY <1>1, <2>1 DEF TypeOK
<1>4. \A p \in Procs : Local(p)'
  BY <1>1 DEF Local, JobIsKnown
<1>5. \A p \in Procs : ~Owns(p)' /\ ~Writer(p)' /\ fd'[p] <= inodes'
  <2> SUFFICES ASSUME NEW p \in Procs PROVE ~Owns(p)' /\ ~Writer(p)' /\ fd'[p] <= inodes'
    OBVIOUS
  <2>1. fd'[p] = fd[p] /\ fd[p] # lock' /\ fd[p] <= inodes'
    BY <1>1, <1>2
  <2> QED
    BY <1>1, <2>1 DEF Owns, Writer
<1>6. Locks'
  BY <1>1, <1>2, <1>5 DEF Locks
<1>7. CheckpointFollowsJournal'
  BY <1>1 DEF CheckpointFollowsJournal, Orphans
<1> QED
  BY <1>3, <1>4, <1>5, <1>6, <1>7 DEF IInv

LEMMA LoseJournalPreserves == IInv /\ LoseJournal => IInv'
<1> SUFFICES ASSUME IInv, LoseJournal PROVE IInv'
  OBVIOUS
<1>1. /\ TypeOK /\ Locks /\ (\A p \in Procs : Local(p)) /\ (\A p \in Procs : pc[p] = "off")
      /\ journal' = None /\ lost' = TRUE /\ exit' = "none"
      /\ UNCHANGED <<lock, inodes, others, temps, pc, cmd, fd, held, own, mem, got, job, saved>>
  BY DEF IInv, LoseJournal, lockVars
<1>2. TypeOK'
  BY <1>1 DEF TypeOK, Exit
<1>3. \A p \in Procs : Local(p)'
  BY <1>1 DEF Local, JobIsKnown
<1>4. \A p \in Procs : ~Owns(p)' /\ ~Writer(p)'
  BY <1>1 DEF Local, Owns, HoldsFlock, Writer, WriterPhase
<1>5. Locks'
  BY <1>1, <1>4 DEF Locks
<1>6. CheckpointFollowsJournal'
  BY <1>1, Zenon DEF CheckpointFollowsJournal
<1> QED
  BY <1>2, <1>3, <1>4, <1>5, <1>6 DEF IInv

-----------------------------------------------------------------------------
(* The theorems.                                                           *)

LEMMA InitEstablishes == Init => IInv
<1> SUFFICES ASSUME Init PROVE IInv
  OBVIOUS
<1>1. MaxInode \in Nat /\ 0 \in 0..MaxInode
  BY DirectoryAssumption
<1>2. lost \in BOOLEAN /\ exit \in Exit
  BY Zenon DEF Init, Exit
<1>3. TypeOK
  BY <1>1, <1>2 DEF Init, TypeOK, Phase
<1>4. \A p \in Procs : pc[p] = "off" /\ fd[p] = 0 /\ p \notin held /\ p \notin saved
  BY DEF Init
<1>5. Locks
  BY <1>4 DEF Init, Locks, Writer, WriterPhase
<1>6. \A p \in Procs : Local(p)
  BY <1>4 DEF Local, SyncPhase
<1>7. \A p \in Procs : ~Owns(p)
  BY <1>4 DEF Owns, HoldsFlock
<1>8. CheckpointFollowsJournal
  BY DEF Init, CheckpointFollowsJournal
<1> QED
  BY <1>3, <1>5, <1>6, <1>7, <1>8 DEF IInv

LEMMA NextPreserves == IInv /\ [Next]_vars => IInv'
<1> SUFFICES ASSUME IInv, [Next]_vars PROVE IInv'
  OBVIOUS
<1>1. ASSUME NEW p \in Procs, Startup(p) PROVE IInv'
  BY <1>1, LaunchPreserves, FlockPreserves, BusyPreserves, DirectPreserves, EnterPreserves,
     BootPreserves, OpenPreserves, CleanPreserves, WaitPreserves, WritePreserves DEF Startup
<1>2. ASSUME NEW p \in Procs, Running(p) PROVE IInv'
  BY <1>2, RenamePreserves, WriteFailsPreserves, WritePreserves, PublishPreserves,
     EndingPreserves DEF Running
<1>3. ASSUME NEW p \in Procs, Repairing(p) PROVE IInv'
  BY <1>3, SyncReadPreserves, SyncPreserves, RereadPreserves, SyncSavePreserves,
     EndingPreserves DEF Repairing
<1>4. ASSUME NEW p \in Procs, Reporting(p) \/ Ending(p) PROVE IInv'
  BY <1>4, RereadPreserves, EndingPreserves DEF Reporting, Ending
<1>5. CASE UNCHANGED vars
  <2>1. /\ UNCHANGED <<lock, inodes, journal, others, temps, lost, pc, cmd, fd, held, own>>
        /\ UNCHANGED <<mem, got, job, saved, exit>>
    BY <1>5 DEF vars, dirVars, lockVars
  <2>2. TypeOK' /\ Locks'
    BY <2>1 DEF IInv, TypeOK, Locks, Writer, Owns, HoldsFlock
  <2>3. \A p \in Procs : Local(p)'
    BY <2>1 DEF IInv, Local, JobIsKnown
  <2>4. \A p \in Procs : Owns(p)' => Current(p)'
    BY <2>1 DEF IInv, Owns, HoldsFlock, Current, WorksFromJournal, FirstUse, HasJournal
  <2>5. CheckpointFollowsJournal'
    BY <2>1 DEF IInv, CheckpointFollowsJournal, Orphans
  <2> QED
    BY <2>2, <2>3, <2>4, <2>5 DEF IInv
<1> QED
  BY <1>1, <1>2, <1>3, <1>4, <1>5, ReplaceLockPreserves, LoseJournalPreserves DEF Next

LEMMA SpecInvariant == Spec => []IInv
BY InitEstablishes, NextPreserves, PTL DEF Spec

\* At most one process may change the files of the directory, and a checkpoint or a
\* status file never exists without a journal, however many processes are started,
\* with or without the launcher, while the operator replaces the lock file.
THEOREM DirectoryIsConsistent == Spec => []DirectoryInv
<1>1. IInv => DirectoryInv
  <2> SUFFICES ASSUME IInv PROVE DirectoryInv
    OBVIOUS
  <2>1. OneWriter
    BY OneOwner DEF IInv, Locks, OneWriter
  <2> QED
    BY <2>1 DEF IInv, DirectoryInv
<1> QED
  BY <1>1, SpecInvariant, PTL

\* A process ends by a step of its own.
LEMMA OwnEnd ==
    ASSUME TypeOK, [Next]_vars, NEW p \in Procs, Ends(p)
    PROVE  Startup(p) \/ Running(p) \/ Repairing(p) \/ Reporting(p) \/ Ending(p)
<1>1. pc[p] # "off" /\ pc'[p] = "off"
  BY DEF Ends
<1>2. ASSUME NEW q \in Procs, q # p, Startup(q) \/ Running(q) \/ Repairing(q)
                                     \/ Reporting(q) \/ Ending(q)
      PROVE  FALSE
  <2>1. \E phase : pc' = [pc EXCEPT ![q] = phase]
    BY <1>2 DEF Startup, Launch, Flock, FlockBusy, StartDirectly, Enter, Configure, Boot,
       List, Judge, Open, Clean, Wait, OpenCheckpoint, Running, Rename, WriteFails,
       PersistJournal, SaveCheckpoint, BeginPublish, Publish, Finish, Repairing, SyncRead,
       SyncPlan, SyncReread, SyncCompare, SyncOpened, SyncSave, SyncAborts, SyncReport,
       Reporting, StatusRead, StatusReport, SnapshotReport, Ending, Interrupted, Kill,
       Goto, End, Replace
  <2> QED
    BY <1>1, <1>2, <2>1 DEF TypeOK
<1>3. ~ReplaceLock /\ ~LoseJournal /\ ~UNCHANGED vars
  BY <1>1 DEF ReplaceLock, LoseJournal, vars
<1> QED
  BY <1>2, <1>3 DEF Next

\* The steps that are possible after a repair reached the file, and after a status
\* was read.
LEMMA LastSteps ==
    ASSUME NEW p \in Procs,
           Startup(p) \/ Running(p) \/ Repairing(p) \/ Reporting(p) \/ Ending(p)
    PROVE  /\ pc[p] = "sync-saved" => SyncReport(p) \/ Kill(p)
           /\ pc[p] = "status-report" => StatusReport(p) \/ Interrupted(p) \/ Kill(p)
<1> SUFFICES ASSUME pc[p] \in {"sync-saved", "status-report"}
             PROVE  /\ pc[p] = "sync-saved" => SyncReport(p) \/ Kill(p)
                    /\ pc[p] = "status-report" => StatusReport(p) \/ Interrupted(p) \/ Kill(p)
  OBVIOUS
<1>1. ~Startup(p)
  BY DEF Startup, Launch, Flock, FlockBusy, StartDirectly, Enter, Configure, Boot,
     List, Judge, Open, Clean, Wait, OpenCheckpoint, At
<1>2. ~Running(p)
  BY DEF Running, Rename, WriteFails, PersistJournal, SaveCheckpoint, BeginPublish,
     Publish, Finish, At
<1>3. Repairing(p) => SyncReport(p) /\ pc[p] = "sync-saved"
  BY DEF Repairing, SyncRead, SyncPlan, SyncReread, SyncCompare, SyncOpened, SyncSave,
     SyncReport, At
<1>4. Reporting(p) => StatusReport(p) /\ pc[p] = "status-report"
  BY DEF Reporting, StatusRead, StatusReport, SnapshotReport, At
<1>5. Interrupted(p) => pc[p] = "status-report"
  BY DEF Interrupted, Checked
<1> QED
  BY <1>1, <1>2, <1>3, <1>4, <1>5, Zenon DEF Ending

\* The exit status of sync-nonce tells the truth: a command that was refused,
\* interrupted or found the lock taken left no repair in the journal.
THEOREM ExitsAreTrue == Spec => ExitTellsTheTruth
<1>1. ASSUME IInv, [Next]_vars, NEW p \in Procs, Ends(p),
             exit' \in {"interrupted", "refused", "busy"}
      PROVE  p \notin saved
  <2> SUFFICES ASSUME p \in saved PROVE FALSE
    OBVIOUS
  <2>1. TypeOK /\ pc[p] = "sync-saved"
    BY <1>1, Known DEF Local
  <2>2. SyncReport(p) \/ Kill(p)
    BY <1>1, <2>1, OwnEnd, LastSteps
  <2>3. exit' \in {"success", "failure"}
    BY <2>2 DEF SyncReport, SyncOutcome, Kill, End
  <2> QED
    BY <1>1, <2>3
<1>2. ASSUME IInv, [Next]_vars
      PROVE  \A p \in Procs :
               (Ends(p) /\ exit' \in {"interrupted", "refused", "busy"}) => p \notin saved
  BY <1>1, <1>2
<1> QED
  BY <1>2, SpecInvariant, PTL DEF Spec, ExitTellsTheTruth

\* No process writes the journal or reports it from a read that is out of date: a
\* write is from the contents it replaces, or retries contents of its own, and a
\* status is what the journal holds when it is reported.
THEOREM NothingIsStale == Spec => NothingStaleIsUsed
<1>1. ASSUME IInv, [Next]_vars, NEW p \in Procs, pc[p] = "temp"
      PROVE  mem[p] = journal \/ (journal # None /\ journal.by = p)
  BY <1>1, AtReplacement DEF WorksFromJournal
<1>2. ASSUME IInv, [Next]_vars, NEW p \in Procs, pc[p] = "status-report", Ends(p),
             exit' = "success"
      PROVE  got[p] = journal
  <2>1. TypeOK /\ cmd[p] = "status" /\ (Owns(p) => Current(p))
    BY <1>2, Known DEF Local
  <2>2. StatusReport(p) \/ Interrupted(p) \/ Kill(p)
    BY <1>2, <2>1, OwnEnd, LastSteps
  <2>3. StillOwns(p)
    BY <1>2, <2>1, <2>2 DEF StatusReport, Interrupted, Kill, End
  <2> QED
    BY <1>2, <2>1, <2>3 DEF StillOwns, Current
<1>3. ASSUME IInv, [Next]_vars
      PROVE  \A p \in Procs :
               (pc[p] = "temp" /\ job[p].target = "journal" /\ journal' # journal) =>
                   \/ mem[p] = journal
                   \/ journal # None /\ journal.by = p
  BY <1>1, <1>3
<1>4. ASSUME IInv, [Next]_vars
      PROVE  \A p \in Procs :
               (pc[p] = "status-report" /\ Ends(p) /\ exit' = "success") =>
                   got[p] = journal
  BY <1>2, <1>4
<1>5. Spec => NoLostUpdate
  BY <1>3, SpecInvariant, PTL DEF Spec, NoLostUpdate
<1>6. Spec => StatusIsCurrent
  BY <1>4, SpecInvariant, PTL DEF Spec, StatusIsCurrent
<1> QED
  BY <1>5, <1>6 DEF NothingStaleIsUsed

\* A journal is created anew only in a directory that holds nothing of an earlier
\* run: after a journal was lost, no bootstrap replaces it while a checkpoint, a
\* status file or an interrupted write of the earlier run is there.
THEOREM BootstrapsAreFirstUse == Spec => BootstrapIsFirstUse
<1>1. ASSUME IInv, [Next]_vars, journal = None, journal' # None
      PROVE  others = {} /\ \E p \in Procs : temps \subseteq {<<"journal", p>>}
  <2>1. PICK p \in Procs : Rename(p) \/ WriteFails(p)
    BY <1>1 DEF Next, vars, dirVars, Startup, Launch, Flock, FlockBusy, StartDirectly, Enter,
       Configure, Boot, List, Judge, Open, Clean, Wait, OpenCheckpoint, Running,
       PersistJournal, SaveCheckpoint, BeginPublish, Publish, Finish, Repairing, SyncRead,
       SyncPlan, SyncReread, SyncCompare, SyncOpened, SyncSave, SyncReport,
       Reporting, StatusRead, StatusReport, SnapshotReport, Ending, Interrupted, Kill,
       ReplaceLock, LoseJournal
  <2>2. pc[p] = "temp"
    BY <2>1 DEF Rename, WriteFails
  <2>3. FirstUse(p)
    BY <1>1, <2>2, AtReplacement
  <2> QED
    BY <1>1, <2>3 DEF FirstUse
<1> QED
  BY <1>1, SpecInvariant, PTL DEF Spec, BootstrapIsFirstUse
=============================================================================
