------------------------------ MODULE Reporting ------------------------------
(***************************************************************************)
(* What a running daemon tells about itself while it works: the counters   *)
(* of its RPC requests (diagnostics/rpc/rpc-metrics.ts, measured-http.ts), *)
(* the periodic usage report in the log (rpc-usage-session.ts and          *)
(* -report.ts, checked again by rpc-usage-log.ts), the heartbeat           *)
(* (daemon-logging.ts) with its substitute on stderr (relayer-log.ts), the *)
(* status file (daemon-status-publisher.ts) and the age a reader gives it  *)
(* (read-relayer-status.ts).                                               *)
(*                                                                         *)
(* Requests run concurrently with everything else.  A logical request      *)
(* makes HTTP attempts, one at a time, and both are counted in rows; a row *)
(* that was never used is a row of zeros.  The four status classes are one *)
(* count of classified responses.  The log never throws: a record that its *)
(* validator rejects, or that cannot be written, is replaced by a fixed    *)
(* line on stderr, which is not repeated too often.  Of the published      *)
(* observation only the time is kept; StatusProjection has the rest.       *)
(* Reading the status changes nothing: what a reader would say of the file *)
(* at any time is an operator.                                             *)
(***************************************************************************)
EXTENDS Integers, FiniteSets, Functions

CONSTANTS
    Clients,      \* RpcClientRole: the public and the wallet client
    Methods,      \* labels of the logical rows
    None,         \* absent value
    Interval,     \* RPC_USAGE_INTERVAL_MS
    Heartbeat,    \* DEFAULT_HEARTBEAT_INTERVAL_MS
    Quiet,        \* FALLBACK_INTERVAL_MS
    MaxAge,       \* maxAgeMs of the reader
    MaxRequests,  \* bound: logical requests
    MaxHttp,      \* bound: HTTP attempts
    MaxCycles,    \* bound: daemon cycles
    MaxTime,      \* bound: the monotonic clock
    MaxFaults     \* bound: failures of a clock reading, of a write, of the log

Row     == [started : Nat, succeeded : Nat, failed : Nat, inFlight : Nat,
            duration : Nat, classified : Nat]
ZeroRow == [started |-> 0, succeeded |-> 0, failed |-> 0, inFlight |-> 0,
            duration |-> 0, classified |-> 0]

Http(c) == <<c, "http">>
RowKeys == Clients \X (Methods \cup {"http"})

Kind   == Clients \X Methods
Stage  == {"started", "sent", "answered", "refused"}

\* The status file's times, and what the session keeps of an observation.
Status      == [observedAt : Nat, since : Nat]
Observation == [at : Nat, rows : [RowKeys -> Row]]

ASSUME ReportingAssumption ==
    /\ {Interval, Heartbeat, Quiet, MaxAge} \subseteq Nat \ {0}
    /\ {MaxRequests, MaxHttp, MaxCycles, MaxTime, MaxFaults} \subseteq Nat
    /\ IsFiniteSet(Clients) /\ IsFiniteSet(Methods) /\ "http" \notin Methods
    /\ None \notin Nat \cup Status \cup Observation

VARIABLES
    rows,      \* the collector's counters
    flight,    \* how many requests of each kind are at each stage
    now,       \* the clock: performance.now(), and Date.now() while it is not set
    phase,     \* where the daemon's loop is
    cycle,     \* number of the cycle
    stop,      \* the shutdown signal
    broken,    \* a cycle threw
    mute,      \* the log's destination fails
    beat,      \* lastHeartbeatAt
    heard,     \* when the log last received a heartbeat (history)
    told,      \* lastFallback of the heartbeat: when stderr was last told
    draft,     \* the observation being written
    file,      \* the status file
    prev,      \* previous observation of the usage session
    attempt,   \* lastAttemptAtMs
    finished,  \* the session is finished
    rejected,  \* a validator refused a record (history)
    base,      \* requests completed at the first observation (history)
    counted,   \* requests the delivered intervals count (history)
    gap,       \* an observation was not delivered as an interval (history)
    faults     \* failures so far

requestVars == <<rows, flight>>
loopVars    == <<phase, cycle, stop, broken>>
beatVars    == <<beat, heard, told>>
statusVars  == <<draft, file>>
sessionVars == <<prev, attempt, finished>>
usageVars   == <<base, counted, gap>>
vars == <<requestVars, now, loopVars, mute, beatVars, statusVars, sessionVars,
          usageVars, rejected, faults>>

TypeOK ==
    /\ rows \in [RowKeys -> Row] /\ flight \in [Kind \X Stage -> Nat]
    /\ now \in 0..MaxTime
    /\ phase \in {"start", "write", "report", "sleep", "cycle", "logged",
                  "ended"}
    /\ cycle \in 0..MaxCycles
    /\ stop \in BOOLEAN /\ broken \in BOOLEAN /\ mute \in BOOLEAN
    /\ finished \in BOOLEAN /\ rejected \in BOOLEAN /\ gap \in BOOLEAN
    /\ beat \in 0..now /\ heard \in 0..now /\ told \in (0..now) \cup {None}
    /\ draft \in Status \cup {None} /\ file \in Status \cup {None}
    /\ prev \in Observation \cup {None} /\ (prev # None => prev.at <= now)
    /\ attempt \in (0..now) \cup {None}
    /\ base \in Nat /\ counted \in Nat /\ faults \in 0..MaxFaults

\* The session is created: its first interval starts, unless its clock fails.
FirstInterval ==
    \/ attempt = 0 /\ faults = 0
    \/ MaxFaults > 0 /\ attempt = None /\ faults = 1

Init ==
    /\ rows = [k \in RowKeys |-> ZeroRow] /\ flight = [f \in Kind \X Stage |-> 0]
    /\ now = 0
    /\ phase = "start" /\ cycle = 0 /\ stop = FALSE /\ broken = FALSE
    /\ mute = FALSE /\ beat = 0 /\ heard = 0 /\ told = None
    /\ draft = None /\ file = None
    /\ prev = None /\ finished = FALSE /\ FirstInterval
    /\ rejected = FALSE /\ base = 0 /\ counted = 0 /\ gap = FALSE

Fault == faults < MaxFaults /\ faults' = faults + 1

-----------------------------------------------------------------------------
(* Requests.                                                               *)

StartedIn(keys) == SumFunction([k \in keys |-> rows[k].started])

OnlyRequests ==
    UNCHANGED <<now, loopVars, mute, beatVars, statusVars, sessionVars,
                usageVars, rejected, faults>>

\* measure: a request begins in row k.
Begun(k) == [rows EXCEPT ![k].started = @ + 1, ![k].inFlight = @ + 1]

\* A request ends in row k, well or not; every request takes one unit of time.
Ended(k, ok, class) ==
    [rows EXCEPT ![k].succeeded  = @ + (IF ok THEN 1 ELSE 0),
                 ![k].failed     = @ + (IF ok THEN 0 ELSE 1),
                 ![k].inFlight   = @ - 1,
                 ![k].duration   = @ + 1,
                 ![k].classified = @ + class]

\* One request of a kind changes its stage.
Moves(kind, from, to) ==
    /\ flight[<<kind, from>>] > 0
    /\ flight' = [flight EXCEPT ![<<kind, from>>] = @ - 1, ![<<kind, to>>] = @ + 1]

\* The daemon requests something, during start-up and in a cycle.
LogicalStarts(kind) ==
    /\ phase \in {"start", "cycle"}
    /\ StartedIn(Kind) < MaxRequests
    /\ rows' = Begun(kind)
    /\ flight' = [flight EXCEPT ![<<kind, "started">>] = @ + 1]
    /\ OnlyRequests

\* The transport makes its first or, after an unusable answer, its next attempt.
HttpStarts(kind) ==
    /\ StartedIn(Clients \X {"http"}) < MaxHttp
    /\ \E stage \in Stage \ {"sent"} : Moves(kind, stage, "sent")
    /\ rows' = Begun(Http(kind[1]))
    /\ OnlyRequests

\* A response, of one of the four classes of status that fetch delivers, or none.
HttpEnds(kind) ==
    /\ \E ok \in BOOLEAN :
         /\ Moves(kind, "sent", IF ok THEN "answered" ELSE "refused")
         /\ rows' = Ended(Http(kind[1]), ok, IF ok THEN 1 ELSE 0)
    /\ OnlyRequests

\* The request succeeds with an answer or fails: with an error answer, or when
\* the transport stops trying.
LogicalEnds(kind) ==
    /\ \E ok \in BOOLEAN, stage \in {"answered", "refused"} :
         /\ flight[<<kind, stage>>] > 0
         /\ ok => stage = "answered"
         /\ flight' = [flight EXCEPT ![<<kind, stage>>] = @ - 1]
         /\ rows' = Ended(kind, ok, 0)
    /\ OnlyRequests

-----------------------------------------------------------------------------
(* Usage reports.                                                          *)

Completed(row) == row.succeeded + row.failed

\* countersRegressed.
Regressed(current, earlier) ==
    \/ current.started < earlier.started
    \/ current.succeeded < earlier.succeeded
    \/ current.failed < earlier.failed
    \/ current.duration < earlier.duration
    \/ current.classified < earlier.classified

\* intervalUsage: differences, except that inFlight is the current one.
IntervalRow_AllDeltas(current, earlier) ==
    [started |-> current.started - earlier.started,
     succeeded |-> current.succeeded - earlier.succeeded,
     failed |-> current.failed - earlier.failed,
     inFlight |-> current.inFlight - earlier.inFlight,
     duration |-> current.duration - earlier.duration,
     classified |-> current.classified - earlier.classified]
IntervalRow(current, earlier) ==
    [started |-> current.started - earlier.started,
     succeeded |-> current.succeeded - earlier.succeeded,
     failed |-> current.failed - earlier.failed,
     inFlight |-> current.inFlight,
     duration |-> current.duration - earlier.duration,
     classified |-> current.classified - earlier.classified]

\* usageInterval: None when there is no baseline, no time passed, or a counter
\* went back.  (A session sees one collector.)
IntervalSince(p) ==
    IF \/ p = None
       \/ now <= p.at
       \/ \E k \in RowKeys : Regressed(rows[k], p.rows[k])
    THEN None
    ELSE [k \in RowKeys |-> IntervalRow(rows[k], p.rows[k])]

\* readLogicalRow and readHttpRow; logicalRow and httpRow check the same of
\* cumulative rows.
ReadableRow(row) ==
    /\ \A f \in DOMAIN row : row[f] >= 0
    /\ Completed(row) <= row.started
    /\ row.inFlight = row.started - Completed(row)
    /\ Completed(row) = 0 => row.duration = 0
    /\ row.classified <= row.succeeded

\* In an interval more requests may complete than start.
ReadableInterval(row, cumulative) ==
    /\ \A f \in DOMAIN row : row[f] >= 0
    /\ Completed(row) = 0 => row.duration = 0
    /\ row.classified <= row.succeeded
    /\ row.inFlight = cumulative.inFlight

\* readRpcUsageSnapshot: every row.
ReadableSnapshot == \A k \in RowKeys : ReadableRow(rows[k])

\* projectRpcUsageLogView, of the interval.
ReadableView(interval) ==
    \A k \in RowKeys : ReadableInterval(interval[k], rows[k])

\* projectRpcUsageLogContext.
ReadableReport(interval) ==
    ReadableSnapshot /\ (interval # None => ReadableView(interval))

CompletedIn(rs) == SumFunction([k \in RowKeys |-> Completed(rs[k])])

\* Emission: the observation becomes the previous one, then the log writes the
\* report, or does not.
Delivered(interval) ==
    /\ rejected' = (rejected \/ ~ReadableReport(interval))
    /\ base' = IF prev = None THEN CompletedIn(rows) ELSE base
    /\ counted' = counted + (IF interval = None \/ mute THEN 0
                             ELSE CompletedIn(interval))
    /\ gap' = (gap \/ (prev # None /\ (interval = None \/ mute)))

\* The observation the session keeps when the time could not be read.
KeptAfterFailure == prev

\* report(): the observation, its time, the report.
Report ==
    \/ /\ prev' = [at |-> now, rows |-> rows]
       /\ Delivered(IntervalSince(prev))
       /\ UNCHANGED faults
    \/ /\ Fault
       /\ prev' = KeptAfterFailure
       /\ UNCHANGED <<usageVars, rejected>>

NoReport == UNCHANGED <<prev, usageVars, rejected, faults>>

-----------------------------------------------------------------------------
(* The daemon's loop: cycle, log, publish, report, sleep.                  *)

\* A publication takes what is current when it starts.  A rejected usage
\* snapshot is left out of it.
Capture ==
    /\ phase \in {"start", "logged"}
    /\ \/ /\ draft' = [observedAt |-> now, since |-> now]
          /\ rejected' = (rejected \/ ~ReadableSnapshot)
          /\ phase' = "write"
          /\ UNCHANGED faults
       \/ /\ Fault
          /\ phase' = "report"
          /\ UNCHANGED <<draft, rejected>>
    /\ UNCHANGED <<requestVars, now, cycle, stop, broken, mute, beatVars, file,
                   sessionVars, usageVars>>

\* What the file then holds.
Published(d) == d

\* Where the loop goes on after a publication that did not succeed.
AfterFailedWrite_Hangs == "write"
AfterFailedWrite == "report"

\* writeDaemonStatusFile; after a failed write the file may be the old one or the
\* new one.
WriteStatus ==
    /\ phase = "write" /\ draft # None
    /\ draft' = None
    /\ \/ file' = Published(draft) /\ phase' = "report" /\ UNCHANGED faults
       \/ Fault /\ file' \in {file, Published(draft)} /\ phase' = AfterFailedWrite
    /\ UNCHANGED <<requestVars, now, cycle, stop, broken, mute, beatVars,
                   sessionVars, usageVars, rejected>>

\* After the first publication the loop begins; after the others the session has
\* its turn: it reports when an interval is over, and starts the first one if the
\* clock could not be read when the session was created.
SessionTurn ==
    /\ phase = "report"
    /\ \/ cycle = 0 /\ NoReport /\ UNCHANGED attempt
       \/ cycle > 0 /\ attempt = None /\ NoReport /\ attempt' = now
       \/ /\ cycle > 0 /\ attempt # None
          /\ IF now - attempt < Interval THEN NoReport /\ UNCHANGED attempt
                                         ELSE attempt' = now /\ Report
    /\ phase' = IF stop THEN "ended" ELSE "sleep"
    /\ UNCHANGED <<requestVars, now, cycle, stop, broken, mute, beatVars,
                   statusVars, finished>>

\* The loop's condition: a stopped daemon begins no cycle.
Wake ==
    /\ phase = "sleep" /\ (stop \/ cycle < MaxCycles)
    /\ IF stop THEN phase' = "ended" /\ UNCHANGED cycle
       ELSE phase' = "cycle" /\ cycle' = cycle + 1
    /\ UNCHANGED <<requestVars, now, stop, broken, mute, beatVars, statusVars,
                   sessionVars, usageVars, rejected, faults>>

\* fallback: stderr is told of a lost record, unless it was told a moment ago.
Fallback ==
    told' = IF told # None /\ now - told < Quiet THEN told ELSE now

\* emit, in dispatch: the record is written, or stderr is told.
Emitted_Swallows ==
    IF mute THEN UNCHANGED <<heard, told>> ELSE heard' = now /\ UNCHANGED told
Emitted ==
    IF mute THEN Fallback /\ UNCHANGED heard ELSE heard' = now /\ UNCHANGED told

\* onCycle of the daemon's logger: the cycle's lines, and when it is due a
\* heartbeat, written or not.
CycleEnds ==
    /\ phase = "cycle"
    /\ phase' = "logged"
    /\ IF now - beat >= Heartbeat THEN beat' = now /\ Emitted
                                  ELSE UNCHANGED beatVars
    /\ UNCHANGED <<requestVars, now, cycle, stop, broken, mute, statusVars,
                   sessionVars, usageVars, rejected, faults>>

\* An error that the cycle does not handle ends the daemon.
CycleThrows ==
    /\ phase = "cycle"
    /\ phase' = "ended" /\ broken' = TRUE
    /\ UNCHANGED <<requestVars, now, cycle, stop, mute, beatVars, statusVars,
                   sessionVars, usageVars, rejected, faults>>

Signal ==
    /\ ~stop /\ phase # "ended"
    /\ stop' = TRUE
    /\ UNCHANGED <<requestVars, now, phase, cycle, broken, mute, beatVars,
                   statusVars, sessionVars, usageVars, rejected, faults>>

\* The finally block of runDaemonCommand: finish(), once.
FinalReport ==
    /\ phase = "ended" /\ ~finished
    /\ finished' = TRUE
    /\ Report
    /\ UNCHANGED <<requestVars, now, loopVars, mute, beatVars, statusVars,
                   attempt>>

-----------------------------------------------------------------------------
(* The reader of the status file; the clocks.                              *)

\* classifySnapshotAge, with the time after the read.  A reader that is slow to
\* ask for the time reads an old file in the same way as one whose writer stalls.
Age(observedAt) ==
    IF now < observedAt THEN "clock-skew"
    ELSE IF now - observedAt <= MaxAge THEN "fresh" ELSE "stale"

Tick ==
    /\ now < MaxTime
    /\ now' = now + 1
    /\ UNCHANGED <<requestVars, loopVars, mute, beatVars, statusVars,
                   sessionVars, usageVars, rejected, faults>>

\* The destination of the log fails for a while; it matters only when something
\* is about to be logged.
LogTurn == phase \in {"cycle", "report", "ended"} /\ ~finished

LogBreaks ==
    /\ LogTurn /\ ~mute /\ Fault
    /\ mute' = TRUE
    /\ UNCHANGED <<requestVars, now, loopVars, beatVars, statusVars,
                   sessionVars, usageVars, rejected>>

LogWorks ==
    /\ LogTurn /\ mute /\ mute' = FALSE
    /\ UNCHANGED <<requestVars, now, loopVars, beatVars, statusVars,
                   sessionVars, usageVars, rejected, faults>>

-----------------------------------------------------------------------------
\* Requests go on until the process exits.
RequestStep ==
    /\ ~finished
    /\ \E kind \in Kind : \/ LogicalStarts(kind) \/ HttpStarts(kind)
                          \/ HttpEnds(kind) \/ LogicalEnds(kind)
Loop == Capture \/ WriteStatus \/ SessionTurn \/ Wake \/ CycleEnds \/ FinalReport

Next ==
    \/ RequestStep \/ Loop \/ CycleThrows \/ Signal
    \/ Tick \/ LogBreaks \/ LogWorks

\* The loop keeps running: file operations and cycles end.
Fairness == WF_vars(Loop)

Spec == Init /\ [][Next]_vars /\ Fairness

-----------------------------------------------------------------------------
\* Whatever is in flight when an observation is made, the validators accept it:
\* no report is replaced by LOG_RECORD_REJECTED and no status is published
\* without its usage (measure, intervalUsage, readRpcUsageSnapshot,
\* projectRpcUsageLogContext).
ReportsAreReadable == ~rejected

\* No request is counted in two intervals, and after a failed observation the
\* next interval covers it too: a request is missed only when an observation was
\* made and its report was lost or had no interval (rpc-usage-session.ts).
IntervalsPartition ==
    prev # None =>
        /\ counted <= CompletedIn(prev.rows) - base
        /\ ~gap => counted = CompletedIn(prev.rows) - base

\* A status called fresh describes the daemon as it was at most MaxAge ago, however
\* long its write or the read took, and no status comes from the future.  (Both
\* hold while the wall clock is not set back.)
StatusAgeIsHonest ==
    file # None =>
        /\ Age(file.observedAt) = "fresh" => now - file.since <= MaxAge
        /\ Age(file.observedAt) # "clock-skew"

\* A daemon that goes on working is not silent for long: when a cycle is logged
\* the log had a heartbeat within the last interval, or stderr was told that it
\* did not (onCycle of daemon-logging.ts, emit and fallback of relayer-log.ts).
SilenceIsBounded ==
    [][(phase = "cycle" /\ phase' = "logged") =>
         \/ now - heard' < Heartbeat
         \/ told' # None /\ now - told' < Heartbeat + Quiet]_vars

\* Nothing that goes wrong in reporting ends the daemon: it ends on the signal, or
\* because a cycle threw.
OnlyCyclesEndTheDaemon == phase = "ended" => stop \/ broken

\* What the daemon tells about itself is true, and telling it does no harm.
ReportingInv ==
    /\ TypeOK
    /\ ReportsAreReadable /\ IntervalsPartition /\ StatusAgeIsHonest
    /\ OnlyCyclesEndTheDaemon

\* However many reports and publications fail, the loop comes to its next cycle.
CyclesGoOn ==
    (phase = "logged" /\ cycle < MaxCycles) ~> (phase \in {"cycle", "ended"})

\* A daemon that is told to stop makes its final report and stops.
StopsWithReport == stop ~> finished

\* Whatever fails in reporting, the loop goes on until it is stopped, and stops then.
LoopGoesOn == CyclesGoOn /\ StopsWithReport
==============================================================================
