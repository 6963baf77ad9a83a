-------------------------- MODULE JournalStoreProofs --------------------------
(***************************************************************************)
(* Proofs about JournalStore, for every set of snapshots.                  *)
(***************************************************************************)
EXTENDS JournalStore, TLAPS

(***************************************************************************)
(* The inductive invariant.  What is on disk and what the process is doing *)
(* are tied together by the stage of the replacement in progress: this is  *)
(* what an acknowledgement relies on when it declares dur = view durable.  *)
(***************************************************************************)
SyncedFile == [data : Snapshots, state : {"synced"}]

\* Every file that was ever renamed into place had been synced.
FilesAreSynced ==
    /\ view \in SyncedFile \cup {None}
    /\ dur \in SyncedFile \cup {None}
    /\ view = None => dur = None

\* A replacement is in progress exactly during an opening or a write, and the
\* file it works on holds the pending snapshot.
ReplacementInProgress ==
    /\ stage # "none" <=> (proc = "opening" \/ pstate = "writing")
    /\ stage # "none" => pending \in Snapshots
    /\ stage = "temp-synced" => temp = [data |-> pending, state |-> "synced"]
    /\ stage = "renamed" => view = [data |-> pending, state |-> "synced"]

\* What the process knows, in each of its three conditions.
ProcessState ==
    /\ proc # "up" => pstate = "idle" /\ current = None
    /\ proc = "down" => pending = None
    /\ proc = "up" => current = acked /\ Data(dur) = acked
    /\ proc = "up" /\ pstate = "idle" => pending = None /\ attempted = {}
    /\ proc = "up" /\ pstate # "idle" =>
         pending \in Snapshots /\ attempted = {pending}
    /\ proc = "opening" => view # None /\ pending = Data(view)

IInv ==
    /\ TypeOK
    /\ FilesAreSynced
    /\ ReplacementInProgress
    /\ ProcessState
    /\ AcknowledgedSurvives

(***************************************************************************)
(* The invariant holds initially and every action preserves it.            *)
(***************************************************************************)
LEMMA InitEstablishes == Init => IInv
  BY StoreAssumption
     DEF Init, IInv, TypeOK, FilesAreSynced, ReplacementInProgress,
         ProcessState, AcknowledgedSurvives, Optional, Data

LEMMA NextPreserves == IInv /\ [Next]_vars => IInv'
<1> SUFFICES ASSUME IInv, [Next]_vars
             PROVE  IInv'
  OBVIOUS
<1> USE StoreAssumption DEF IInv, File, SyncedFile, Optional
<1>1. CASE WriteTemp
  <2> USE <1>1 DEF WriteTemp
  <2>1. TypeOK'
    BY DEF TypeOK, ReplacementInProgress, FilesAreSynced
  <2>2. FilesAreSynced'
    BY DEF TypeOK, ReplacementInProgress, FilesAreSynced
  <2>3. ReplacementInProgress'
    BY DEF TypeOK, ReplacementInProgress, ProcessState, FilesAreSynced
  <2>4. ProcessState'
    BY DEF TypeOK, ReplacementInProgress, ProcessState, FilesAreSynced, Data
  <2>5. AcknowledgedSurvives'
    BY DEF TypeOK, FilesAreSynced, ReplacementInProgress, ProcessState,
           AcknowledgedSurvives, Data
  <2> QED
    BY <2>1, <2>2, <2>3, <2>4, <2>5
<1>2. CASE Rename
  <2> USE <1>2 DEF Rename
  <2>a. /\ view' = [data |-> pending, state |-> "synced"]
        /\ pending \in Snapshots
        /\ view' # None /\ Data(view') = pending
    BY DEF ReplacementInProgress, Data
  <2>1. TypeOK'
    BY DEF TypeOK, ReplacementInProgress, FilesAreSynced
  <2>2. FilesAreSynced'
    BY <2>a DEF TypeOK, ReplacementInProgress, FilesAreSynced
  <2>3. ReplacementInProgress'
    BY DEF TypeOK, ReplacementInProgress, ProcessState, FilesAreSynced
  <2>4. ProcessState'
    BY <2>a DEF TypeOK, ProcessState
  <2>5. AcknowledgedSurvives'
    <3>1. pending \in {acked} \cup attempted
      BY DEF ReplacementInProgress, ProcessState, AcknowledgedSurvives, TypeOK
    <3>2. Data(dur)' = Data(dur)
      BY DEF Data
    <3> QED
      BY <2>a, <3>1, <3>2 DEF AcknowledgedSurvives
  <2> QED
    BY <2>1, <2>2, <2>3, <2>4, <2>5
<1>3. CASE SyncDirectory
  <2> USE <1>3 DEF SyncDirectory
  <2>1. TypeOK'
    BY DEF TypeOK, ReplacementInProgress, FilesAreSynced
  <2>2. FilesAreSynced'
    BY DEF TypeOK, ReplacementInProgress, FilesAreSynced
  <2>3. ReplacementInProgress'
    BY DEF TypeOK, ReplacementInProgress, ProcessState, FilesAreSynced
  <2>4. ProcessState'
    BY DEF TypeOK, ReplacementInProgress, ProcessState, FilesAreSynced, Data
  <2>5. AcknowledgedSurvives'
    <3>1. dur' = view /\ view' = view
      OBVIOUS
    <3>2. Data(view) = pending
      BY DEF ReplacementInProgress, Data
    <3> QED
      BY <3>1, <3>2 DEF AcknowledgedSurvives, Data
  <2> QED
    BY <2>1, <2>2, <2>3, <2>4, <2>5
<1>4. CASE ReplaceFails
  <2> USE <1>4 DEF ReplaceFails
  <2>1. TypeOK'
    BY DEF TypeOK, ReplacementInProgress, FilesAreSynced
  <2>2. FilesAreSynced'
    BY DEF TypeOK, ReplacementInProgress, FilesAreSynced
  <2>3. ReplacementInProgress'
    BY DEF TypeOK, ReplacementInProgress, ProcessState, FilesAreSynced
  <2>4. ProcessState'
    BY DEF TypeOK, ReplacementInProgress, ProcessState, FilesAreSynced, Data
  <2>5. AcknowledgedSurvives'
    BY DEF TypeOK, FilesAreSynced, ReplacementInProgress, ProcessState,
           AcknowledgedSurvives, Data
  <2> QED
    BY <2>1, <2>2, <2>3, <2>4, <2>5
<1>5. CASE OpenMissing
  <2> USE <1>5 DEF OpenMissing
  <2>1. TypeOK'
    BY DEF TypeOK, ReplacementInProgress, FilesAreSynced
  <2>2. FilesAreSynced'
    BY DEF TypeOK, ReplacementInProgress, FilesAreSynced
  <2>3. ReplacementInProgress'
    BY DEF TypeOK, ReplacementInProgress, ProcessState, FilesAreSynced
  <2>4. ProcessState'
    BY DEF TypeOK, ReplacementInProgress, ProcessState, FilesAreSynced, Data
  <2>5. AcknowledgedSurvives'
    BY DEF TypeOK, FilesAreSynced, ReplacementInProgress, ProcessState,
           AcknowledgedSurvives, Data
  <2> QED
    BY <2>1, <2>2, <2>3, <2>4, <2>5
<1>6. CASE OpenPresent
  <2> USE <1>6 DEF OpenPresent
  <2>1. TypeOK'
    BY DEF TypeOK, ReplacementInProgress, FilesAreSynced
  <2>2. FilesAreSynced'
    BY DEF TypeOK, ReplacementInProgress, FilesAreSynced
  <2>3. ReplacementInProgress'
    BY DEF TypeOK, ReplacementInProgress, ProcessState, FilesAreSynced
  <2>4. ProcessState'
    BY DEF TypeOK, ReplacementInProgress, ProcessState, FilesAreSynced, Data
  <2>5. AcknowledgedSurvives'
    BY DEF TypeOK, FilesAreSynced, ReplacementInProgress, ProcessState,
           AcknowledgedSurvives, Data
  <2> QED
    BY <2>1, <2>2, <2>3, <2>4, <2>5
<1>7. CASE Retry
  <2> USE <1>7 DEF Retry
  <2>1. TypeOK'
    BY DEF TypeOK, ReplacementInProgress, FilesAreSynced
  <2>2. FilesAreSynced'
    BY DEF TypeOK, ReplacementInProgress, FilesAreSynced
  <2>3. ReplacementInProgress'
    BY DEF TypeOK, ReplacementInProgress, ProcessState, FilesAreSynced
  <2>4. ProcessState'
    BY DEF TypeOK, ReplacementInProgress, ProcessState, FilesAreSynced, Data
  <2>5. AcknowledgedSurvives'
    BY DEF TypeOK, FilesAreSynced, ReplacementInProgress, ProcessState,
           AcknowledgedSurvives, Data
  <2> QED
    BY <2>1, <2>2, <2>3, <2>4, <2>5
<1>8. ASSUME NEW v \in Snapshots, Save(v)
      PROVE  IInv'
  <2> USE <1>8 DEF Save
  <2>1. TypeOK'
    BY DEF TypeOK, ReplacementInProgress, FilesAreSynced
  <2>2. FilesAreSynced'
    BY DEF TypeOK, ReplacementInProgress, FilesAreSynced
  <2>3. ReplacementInProgress'
    BY DEF TypeOK, ReplacementInProgress, ProcessState, FilesAreSynced
  <2>4. ProcessState'
    BY DEF TypeOK, ReplacementInProgress, ProcessState, FilesAreSynced, Data
  <2>5. AcknowledgedSurvives'
    BY DEF TypeOK, FilesAreSynced, ReplacementInProgress, ProcessState,
           AcknowledgedSurvives, Data
  <2> QED
    BY <2>1, <2>2, <2>3, <2>4, <2>5
<1>9. CASE Crash
  <2> USE <1>9 DEF Crash, Stopped
  <2>1. TypeOK'
    BY DEF TypeOK, ReplacementInProgress, FilesAreSynced
  <2>2. FilesAreSynced'
    BY DEF TypeOK, ReplacementInProgress, FilesAreSynced
  <2>3. ReplacementInProgress'
    BY DEF TypeOK, ReplacementInProgress, ProcessState, FilesAreSynced
  <2>4. ProcessState'
    BY DEF TypeOK, ReplacementInProgress, ProcessState, FilesAreSynced, Data
  <2>5. AcknowledgedSurvives'
    BY DEF TypeOK, FilesAreSynced, ReplacementInProgress, ProcessState,
           AcknowledgedSurvives, Data
  <2> QED
    BY <2>1, <2>2, <2>3, <2>4, <2>5
<1>10. CASE PowerFailure
  <2> USE <1>10 DEF PowerFailure, Stopped, Survives
  <2>1. TypeOK'
    BY DEF TypeOK, ReplacementInProgress, FilesAreSynced
  <2>2. FilesAreSynced'
    BY DEF TypeOK, ReplacementInProgress, FilesAreSynced
  <2>3. ReplacementInProgress'
    BY DEF TypeOK, ReplacementInProgress, ProcessState, FilesAreSynced
  <2>4. ProcessState'
    BY DEF TypeOK, ReplacementInProgress, ProcessState, FilesAreSynced, Data
  <2>5. AcknowledgedSurvives'
    BY DEF TypeOK, FilesAreSynced, ReplacementInProgress, ProcessState,
           AcknowledgedSurvives, Data
  <2> QED
    BY <2>1, <2>2, <2>3, <2>4, <2>5
<1>11. CASE UNCHANGED vars
  <2> USE <1>11 DEF vars
  <2>1. TypeOK'
    BY DEF TypeOK, ReplacementInProgress, FilesAreSynced
  <2>2. FilesAreSynced'
    BY DEF TypeOK, ReplacementInProgress, FilesAreSynced
  <2>3. ReplacementInProgress'
    BY DEF TypeOK, ReplacementInProgress, ProcessState, FilesAreSynced
  <2>4. ProcessState'
    BY DEF TypeOK, ReplacementInProgress, ProcessState, FilesAreSynced, Data
  <2>5. AcknowledgedSurvives'
    BY DEF TypeOK, FilesAreSynced, ReplacementInProgress, ProcessState,
           AcknowledgedSurvives, Data
  <2> QED
    BY <2>1, <2>2, <2>3, <2>4, <2>5
<1> QED
  BY <1>1, <1>2, <1>3, <1>4, <1>5, <1>6, <1>7, <1>8, <1>9, <1>10, <1>11
     DEF Next

\* Every reachable state satisfies the inductive invariant.
THEOREM InductiveInvariant == Spec => []IInv
  BY InitEstablishes, NextPreserves, PTL DEF Spec

\* The variables keep their types, whatever crashes and power failures occur.
THEOREM TypeCorrect == Spec => []TypeOK
<1>1. IInv => TypeOK
  BY DEF IInv
<1> QED
  BY <1>1, InductiveInvariant, PTL

\* An acknowledged snapshot survives any crash and any power failure during any
\* later write, retry or opening, until a newer write begins.
THEOREM Durability == Spec => []AcknowledgedSurvives
<1>1. IInv => AcknowledgedSurvives
  BY DEF IInv
<1> QED
  BY <1>1, InductiveInvariant, PTL

\* A journal that is open with no write outstanding has its current snapshot on
\* the medium: an older one cannot reappear.
THEOREM OpenDurability == Spec => []OpenIsDurable
<1>1. IInv => OpenIsDurable
  BY DEF IInv, ProcessState, AcknowledgedSurvives, OpenIsDurable
<1> QED
  BY <1>1, InductiveInvariant, PTL

\* Types, durability of what was acknowledged and of what an open journal answers
\* from, together: the invariant the model checker evaluates.
THEOREM Invariants == Spec => []JournalInv
<1>1. IInv => JournalInv
  BY DEF IInv, JournalInv, ProcessState, AcknowledgedSurvives, OpenIsDurable
<1> QED
  BY <1>1, InductiveInvariant, PTL

(***************************************************************************)
(* Refinement: the store implements the register of AtomicJournal.         *)
(***************************************************************************)
LEMMA InitRefines == Init => Abstract!Init
  BY DEF Init, Abstract!Init, Data

LEMMA NextRefines ==
    IInv /\ [Next]_vars => [Abstract!Next]_(Abstract!vars)
<1> SUFFICES ASSUME IInv, [Next]_vars
             PROVE  [Abstract!Next]_(Abstract!vars)
  OBVIOUS
<1> USE StoreAssumption DEF IInv, TypeOK
<1>1. CASE WriteTemp
  BY <1>1 DEF WriteTemp, Data, Abstract!vars
<1>2. CASE Rename
  <2>1. Data(view') = pending /\ Data(dur') = Data(dur)
    BY <1>2 DEF Rename, ReplacementInProgress, File, Data
  <2>2. CASE proc = "opening"
    BY <1>2, <2>1, <2>2 DEF Rename, ProcessState, Data, Abstract!vars
  <2>3. CASE proc = "up"
    BY <1>2, <2>1, <2>3
       DEF Rename, ReplacementInProgress, ProcessState, AcknowledgedSurvives,
           Data, Abstract!vars
  <2> QED
    BY <1>2, <2>2, <2>3 DEF Rename, ReplacementInProgress, ProcessState
<1>3. CASE SyncDirectory
  <2>1. /\ Data(view') = pending /\ Data(dur') = pending
        /\ Data(view) = pending
    BY <1>3 DEF SyncDirectory, ReplacementInProgress, File, Data
  <2>2. CASE proc = "opening"
    <3>1. Abstract!Open
      BY <1>3, <2>1, <2>2 DEF SyncDirectory, ProcessState, Abstract!Open
    <3> QED
      BY <3>1 DEF Abstract!Next
  <2>3. CASE proc = "up"
    <3>1. Abstract!Acknowledge
      BY <1>3, <2>1, <2>3
         DEF SyncDirectory, ReplacementInProgress, ProcessState, Abstract!Acknowledge
    <3> QED
      BY <3>1 DEF Abstract!Next
  <2> QED
    BY <1>3, <2>2, <2>3 DEF SyncDirectory, ReplacementInProgress, ProcessState
<1>4. CASE ReplaceFails
  <2>1. Data(view') = Data(view) /\ Data(dur') = Data(dur)
    BY <1>4 DEF ReplaceFails, Data
  <2>2. CASE proc = "opening"
    BY <1>4, <2>1, <2>2 DEF ReplaceFails, ProcessState, Abstract!vars
  <2>3. CASE proc = "up"
    <3>1. Abstract!Fail
      BY <1>4, <2>1, <2>3
         DEF ReplaceFails, ReplacementInProgress, ProcessState, Abstract!Fail
    <3> QED
      BY <3>1 DEF Abstract!Next
  <2> QED
    BY <1>4, <2>2, <2>3 DEF ReplaceFails, ReplacementInProgress, ProcessState
<1>5. CASE OpenMissing
  <2>1. Data(view) = None /\ Data(view') = None /\ Data(dur') = None
    BY <1>5 DEF OpenMissing, FilesAreSynced, Data
  <2>2. Abstract!Open
    BY <1>5, <2>1 DEF OpenMissing, ProcessState, Abstract!Open
  <2> QED
    BY <2>2 DEF Abstract!Next
<1>6. CASE OpenPresent
  BY <1>6 DEF OpenPresent, ProcessState, Data, Abstract!vars
<1>7. CASE Retry
  <2>1. Data(view') = Data(view) /\ Data(dur') = Data(dur)
    BY <1>7 DEF Retry, Data
  <2>2. Abstract!Retry
    BY <1>7, <2>1 DEF Retry, Abstract!Retry
  <2> QED
    BY <2>2 DEF Abstract!Next
<1>8. ASSUME NEW v \in Snapshots, Save(v)
      PROVE  Abstract!Next
  <2>1. Data(view') = Data(view) /\ Data(dur') = Data(dur)
    BY <1>8 DEF Save, Data
  <2>2. Abstract!Begin(v)
    BY <1>8, <2>1 DEF Save, Abstract!Begin
  <2> QED
    BY <2>2 DEF Abstract!Next
<1>9. CASE Crash
  <2>1. Data(view') = Data(view) /\ Data(dur') = Data(dur)
    BY <1>9 DEF Crash, Data
  <2>2. proc' = "down" /\ current' = None /\ pstate' = "idle"
    BY <1>9 DEF Crash, Stopped
  <2>3. Abstract!Crash
    BY <2>1, <2>2 DEF Abstract!Crash
  <2> QED
    BY <2>3 DEF Abstract!Next
<1>10. CASE PowerFailure
  <2>1. PICK f \in {view, dur} : view' = Survives(f) /\ dur' = Survives(f)
    BY <1>10 DEF PowerFailure
  <2>2. Data(view') = Data(f) /\ Data(dur') = Data(f)
    BY <2>1 DEF FilesAreSynced, SyncedFile, Survives, Data
  <2>3. proc' = "down" /\ current' = None /\ pstate' = "idle"
    BY <1>10 DEF PowerFailure, Stopped
  <2>4. Abstract!Crash
    BY <2>2, <2>3 DEF Abstract!Crash
  <2> QED
    BY <2>4 DEF Abstract!Next
<1>11. CASE UNCHANGED vars
  BY <1>11 DEF vars, Data, Abstract!vars
<1> QED
  BY <1>1, <1>2, <1>3, <1>4, <1>5, <1>6, <1>7, <1>8, <1>9, <1>10, <1>11
     DEF Next

\* Every behaviour of the store, with its crashes, power failures, failed and
\* retried writes, is a behaviour of the atomic register.
THEOREM Refinement == Spec => ImplementsAtomicJournal
<1>1. Spec => Abstract!Init
  BY InitRefines DEF Spec
<1>2. Spec => [][Abstract!Next]_(Abstract!vars)
  BY InductiveInvariant, NextRefines, PTL DEF Spec
<1> QED
  BY <1>1, <1>2, PTL DEF ImplementsAtomicJournal, Abstract!Spec
=============================================================================
