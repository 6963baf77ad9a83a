------------------------- MODULE RequestDaemonProofs -------------------------
(***************************************************************************)
(* Proofs about RequestDaemon, for any number of consumers, rounds, blocks,*)
(* reorganisations and faults, with a trusted finality policy or without.  *)
(***************************************************************************)
EXTENDS RequestDaemon, SequenceTheorems, WellFoundedInduction, TLAPS

(***************************************************************************)
(* The inductive invariant.                                                *)
(***************************************************************************)

\* Blocks only add to the registry, and every hash has been handed out.
ChainIsOrdered ==
    /\ \A i, j \in 1..Len(chain) : i <= j => chain[i].stored \subseteq chain[j].stored
    /\ \A i \in 1..Len(chain) : chain[i].hash <= minted

\* As long as the finality policy holds, no head the daemon goes by is above the
\* durable block.
HeadsAreKnown == ~broken =>
    /\ headCache # None => headCache <= durable
    /\ it.durable <= durable

\* The store answers from what is in the file, or reads it again.
LoadedIsFile == loaded # None => loaded = file

\* No checkpoint is below the first block to scan.
CheckpointsAreBlocks == \A c \in Consumers : file[c] # None => file[c] >= StartBlock

\* Where the durable scan of consumer c starts.
NextOf(c) == IF file[c] = None THEN StartBlock ELSE file[c]

\* All requests of c below block n are stored at the durable block.
SafeUpTo(c, n) ==
    /\ n <= durable + 1
    /\ \A k \in StartBlock..(n - 1) : \A r \in RequestedIn(c, k) : StoredAt(r, durable)

\* What a durable pass knows at each of its stages.  What it found is what the
\* canonical chain holds, whenever the opening anchor is canonical.
PassIsSound ==
    /\ it.stage \in {"anchor", "scan", "import", "save"} =>
         it.next = NextOf(it.consumer) /\ it.next <= it.durable
    /\ it.stage \in {"scan", "import", "save"} =>
         it.anchor \in Nat /\ it.anchor <= minted
    /\ it.stage = "import" =>
         /\ it.to <= it.durable
         /\ AnchorHolds => it.found = FirstRequests(it.consumer, it.next, it.to)
    /\ it.stage = "save" =>
         /\ it.decided > it.next
         /\ ~broken => SafeUpTo(it.consumer, it.decided)

IInv ==
    /\ TypeOK
    /\ ChainIsOrdered
    /\ HeadsAreKnown
    /\ LoadedIsFile
    /\ CheckpointsAreBlocks
    /\ PassIsSound
    /\ CheckpointIsSafe

-----------------------------------------------------------------------------
(* Arithmetic of the scans.                                                *)

\* A non-empty set of naturals has a minimum.
LEMMA MinNat ==
    ASSUME NEW S, S \subseteq Nat, S # {}
    PROVE  Min(S) \in S /\ \A y \in S : Min(S) <= y
<1>1. PICK x \in S : \A y \in S : ~(<<y, x>> \in OpToRel(<, Nat))
  BY NatLessThanWellFounded, WFMin, Zenon
<1>2. \A y \in S : x <= y
  <2> SUFFICES ASSUME NEW y \in S PROVE x <= y
    OBVIOUS
  <2>1. ~(y < x)
    BY <1>1 DEF OpToRel
  <2> QED
    BY <2>1
<1> QED
  BY <1>2 DEF Min

\* The lesser and the greater of two blocks.
LEMMA TwoBlocks ==
    ASSUME NEW a \in Nat, NEW b \in Nat
    PROVE  /\ Min({a, b}) = IF a <= b THEN a ELSE b
           /\ Max({a, b}) = IF a <= b THEN b ELSE a
<1>1. PICK l \in {a, b} : l <= a /\ l <= b
  BY SMT
<1>2. Min({a, b}) = l
  BY <1>1 DEF Min
<1>3. PICK g \in {a, b} : g >= a /\ g >= b
  BY SMT
<1>4. Max({a, b}) = g
  BY <1>3 DEF Max
<1> QED
  BY <1>1, <1>2, <1>3, <1>4

\* What is at most one above a block is so for every later block.
LEMMA StillBelow ==
    ASSUME NEW m \in Nat, NEW a \in Nat, NEW b \in Nat, m <= a + 1, a <= b
    PROVE  m <= b + 1
OBVIOUS

\* A scan ends within its range and at or before the head it is given.
LEMMA ScanEndRange ==
    ASSUME NEW from \in Nat, NEW through \in Nat
    PROVE  ScanEnd(from, through) \in Nat /\ ScanEnd(from, through) <= through
<1>1. MaxBlockRange \in Nat /\ MaxBlockRange # 0
  BY DaemonAssumption
<1>2. from + MaxBlockRange - 1 \in Nat
  BY <1>1
<1> QED
  BY <1>2, TwoBlocks DEF ScanEnd

\* What a scan finds are requests.
LEMMA FoundIsTyped ==
    ASSUME TypeOK, NEW c, NEW from \in Nat, NEW to \in Nat
    PROVE  FirstRequests(c, from, to) \subseteq Request
<1>1. Len(chain) \in Nat
  BY LenProperties DEF TypeOK
<1>2. Min({to, Len(chain)}) \in Nat
  BY <1>1, TwoBlocks
<1>3. from..Min({to, Len(chain)}) \subseteq Nat
  BY <1>2
<1> QED
  BY <1>3 DEF FirstRequests, Request

\* Iterations that are started afresh.
LEMMA BlankIsTyped ==
    ASSUME NEW stage \in Stage, NEW c \in Consumers
    PROVE  Blank(stage, c) \in Iteration /\ Blank(stage, c).stage = stage
           /\ Blank(stage, c).durable = 0
BY DEF Blank, Iteration, Optional

LEMMA FollowingIsTyped ==
    ASSUME NEW c \in Consumers
    PROVE  /\ Following(c) \in Iteration
           /\ Following(c).stage \in {"sleep", "load"}
           /\ Following(c).durable = 0
<1>1. NumConsumers \in Nat /\ NumConsumers # 0 /\ c \in 1..NumConsumers
  BY DaemonAssumption DEF Consumers
<1>2. 1 \in Consumers /\ (c # NumConsumers => c + 1 \in Consumers)
  BY <1>1 DEF Consumers
<1> QED
  BY <1>2, BlankIsTyped DEF Following, Stage

-----------------------------------------------------------------------------
(* The environment.                                                        *)

\* What an environment step leaves of the chain: every block is an old one or has
\* a new hash; without a broken promise everything up to the durable block stays.
LEMMA ChainMoves ==
    ASSUME IInv, EnvNext
    PROVE  /\ TypeOK' /\ ChainIsOrdered' /\ minted <= minted'
           /\ \A k \in 1..Len(chain') :
                \/ k \in 1..Len(chain) /\ chain'[k] = chain[k]
                \/ k = Len(chain) + 1 /\ chain'[k].hash = minted + 1
           /\ \A k \in 1..Len(chain') : k \in 1..Len(chain) =>
                chain'[k] = chain[k]
           /\ ~broken' => /\ ~broken /\ durable <= durable'
                          /\ durable <= Len(chain')
<1> USE DEF TypeOK
<1>0. /\ TypeOK /\ ChainIsOrdered
      /\ Len(chain) \in Nat /\ \A k \in 1..Len(chain) : chain[k] \in Block
  BY LenProperties, ElementOfSeq DEF IInv
<1>1. UNCHANGED daemonVars
  BY DEF EnvNext
<1>2. ASSUME NEW reqs \in SUBSET (Consumers \X Rounds), NEW rounds \in SUBSET Rounds,
             Mine(reqs, rounds)
      PROVE  /\ chain' \in Seq(Block) /\ Len(chain') = Len(chain) + 1
             /\ \A k \in 1..Len(chain) : chain'[k] = chain[k]
             /\ chain'[Len(chain) + 1].hash = minted + 1
             /\ chain[Len(chain)].stored \subseteq chain'[Len(chain) + 1].stored
             /\ minted' = minted + 1
             /\ UNCHANGED <<durable, published, reorgs, broken>>
  <2> DEFINE b == [hash |-> minted + 1, reqs |-> reqs,
                   stored |-> chain[Len(chain)].stored \cup rounds]
  <2>1. chain[Len(chain)] \in Block
    BY <1>0
  <2>2. b \in Block
    BY <1>0, <2>1 DEF Block
  <2>3. chain' = Append(chain, b) /\ minted' = minted + 1
    BY <1>2 DEF Mine
  <2> HIDE DEF b
  <2>4. /\ chain' \in Seq(Block) /\ Len(chain') = Len(chain) + 1
        /\ \A k \in 1..Len(chain) : chain'[k] = chain[k]
        /\ chain'[Len(chain) + 1] = b
    BY <1>0, <2>2, <2>3, AppendProperties
  <2> QED
    BY <1>2, <2>3, <2>4 DEF b, Mine
<1>3. CASE \E reqs \in SUBSET (Consumers \X Rounds), rounds \in SUBSET Rounds :
             Mine(reqs, rounds)
  <2>1. PICK reqs \in SUBSET (Consumers \X Rounds), rounds \in SUBSET Rounds :
               Mine(reqs, rounds)
    BY <1>3
  <2>2. /\ chain' \in Seq(Block) /\ Len(chain') = Len(chain) + 1
        /\ \A k \in 1..Len(chain) : chain'[k] = chain[k]
        /\ chain'[Len(chain) + 1].hash = minted + 1
        /\ chain[Len(chain)].stored \subseteq chain'[Len(chain) + 1].stored
        /\ minted' = minted + 1
        /\ UNCHANGED <<durable, published, reorgs, broken>>
    BY <2>1, <1>2
  <2>3. ChainIsOrdered'
    <3>1. ASSUME NEW i \in 1..Len(chain'), NEW j \in 1..Len(chain'), i <= j
          PROVE  chain'[i].stored \subseteq chain'[j].stored
      <4>1. CASE j \in 1..Len(chain)
        BY <1>0, <2>2, <3>1, <4>1 DEF ChainIsOrdered
      <4>2. CASE j = Len(chain) + 1 /\ i \in 1..Len(chain)
        <5>1. chain[i].stored \subseteq chain[Len(chain)].stored
          BY <1>0, <4>2 DEF ChainIsOrdered
        <5> QED
          BY <2>2, <4>2, <5>1
      <4>3. CASE i = Len(chain) + 1 /\ j = Len(chain) + 1
        BY <4>3
      <4> QED
        BY <1>0, <2>2, <3>1, <4>1, <4>2, <4>3
    <3>2. ASSUME NEW i \in 1..Len(chain')
          PROVE  chain'[i].hash <= minted'
      <4>1. CASE i \in 1..Len(chain)
        <5>1. chain[i].hash <= minted /\ chain[i].hash \in Nat
          BY <1>0, <4>1 DEF ChainIsOrdered, Block
        <5> QED
          BY <1>0, <2>2, <4>1, <5>1
      <4>2. CASE i = Len(chain) + 1
        BY <1>0, <2>2, <4>2
      <4> QED
        BY <1>0, <2>2, <4>1, <4>2
    <3> QED
      BY <3>1, <3>2 DEF ChainIsOrdered
  <2>4. TypeOK'
    BY <1>0, <1>1, <2>2 DEF daemonVars
  <2>5. \A k \in 1..Len(chain') : k \in 1..Len(chain) \/ k = Len(chain) + 1
    BY <1>0, <2>2
  <2>6. minted <= minted' /\ durable <= durable' /\ durable <= Len(chain')
    BY <1>0, <2>2
  <2> QED
    BY <2>2, <2>3, <2>4, <2>5, <2>6
<1>4. CASE Publish \/ Finalize
  <2>1. /\ chain' = chain /\ minted' = minted /\ broken' = broken
        /\ durable' \in durable..Len(chain)
        /\ published' \subseteq Rounds /\ reorgs' = reorgs
    BY <1>0, <1>4 DEF Publish, Finalize
  <2>2. TypeOK' /\ ChainIsOrdered'
    BY <1>0, <1>1, <2>1 DEF daemonVars, ChainIsOrdered
  <2> QED
    BY <1>0, <2>1, <2>2
<1>5. CASE Reorg
  <2>1. PICK k \in (IF WeakTag THEN 1 ELSE durable)..(Len(chain) - 1) :
           /\ chain' = SubSeq(chain, 1, k)
           /\ durable' = Min({durable, k})
           /\ broken' = (broken \/ k < durable)
    BY <1>5 DEF Reorg
  <2>2. k \in 1..Len(chain) /\ k \in Nat
    BY <1>0, <2>1
  <2>3. /\ chain' \in Seq(Block) /\ Len(chain') = k
        /\ \A j \in 1..k : chain'[j] = chain[j]
    BY <1>0, <2>1, <2>2, SubSeqProperties
  <2>4. durable' = IF durable <= k THEN durable ELSE k
    BY <1>0, <2>1, <2>2, TwoBlocks
  <2>5. minted' = minted /\ published' = published /\ reorgs' \in Nat /\ broken' \in BOOLEAN
    BY <1>0, <1>5, <2>1 DEF Reorg
  <2>6. TypeOK'
    BY <1>0, <1>1, <2>2, <2>3, <2>4, <2>5 DEF daemonVars
  <2>7. ChainIsOrdered'
    <3>1. \A j \in 1..Len(chain') : j \in 1..Len(chain) /\ chain'[j] = chain[j]
      BY <1>0, <2>2, <2>3
    <3> QED
      BY <1>0, <3>1, <2>5 DEF ChainIsOrdered
  <2>8. \A j \in 1..Len(chain') : j \in 1..Len(chain) /\ chain'[j] = chain[j]
    BY <1>0, <2>2, <2>3
  <2>9. ~broken' => ~broken /\ durable <= durable' /\ durable <= Len(chain')
    <3>1. ~broken' => ~broken /\ ~(k < durable)
      BY <1>0, <2>1, Zenon
    <3>2. ~(k < durable) => durable <= durable' /\ durable <= Len(chain')
      BY <1>0, <2>2, <2>3, <2>4
    <3> QED
      BY <3>1, <3>2
  <2> QED
    BY <2>5, <2>6, <2>7, <2>8, <2>9
<1>6. MineRequest \/ MineRetained \/ MineOther =>
        \E reqs \in SUBSET (Consumers \X Rounds), rounds \in SUBSET Rounds :
             Mine(reqs, rounds)
  <2>1. ASSUME MineRequest
        PROVE  \E reqs \in SUBSET (Consumers \X Rounds) : Mine(reqs, {})
    BY <2>1 DEF MineRequest
  <2>2. ASSUME MineRetained \/ MineOther
        PROVE  \E rounds \in SUBSET Rounds : Mine({}, rounds)
    <3>1. PICK r \in retained \cup published : Mine({}, {r})
      BY <1>0, <2>2 DEF MineRetained, MineOther
    <3> QED
      BY <1>0, <3>1
  <2> QED
    BY <2>1, <2>2
<1> QED
  BY <1>3, <1>4, <1>5, <1>6 DEF EnvNext

\* What is safe stays safe: no step of the environment takes a durable block away
\* or adds a request to it, unless the finality policy is broken.
LEMMA SafetyStays ==
    ASSUME IInv, EnvNext, ~broken', NEW c, NEW n \in Nat
    PROVE  SafeUpTo(c, n) => SafeUpTo(c, n)'
<1>0. SUFFICES ASSUME SafeUpTo(c, n) PROVE SafeUpTo(c, n)'
  OBVIOUS
<1>1. /\ Len(chain) \in Nat /\ Len(chain') \in Nat
      /\ durable \in 1..Len(chain) /\ durable' \in 1..Len(chain')
      /\ durable <= durable' /\ durable <= Len(chain') /\ StartBlock \in Nat \ {0}
  BY ChainMoves, LenProperties, DaemonAssumption DEF IInv, TypeOK
<1>2. \A k \in 1..durable : chain'[k] = chain[k]
  BY <1>1, ChainMoves
<1>3. chain'[durable].stored \subseteq chain'[durable'].stored
  BY <1>1, ChainMoves DEF ChainIsOrdered
<1>4. ASSUME NEW k \in StartBlock..(n - 1), NEW r \in RequestedIn(c, k)'
      PROVE  StoredAt(r, durable)'
  <2>1. k \in 1..durable /\ k <= Len(chain)
    BY <1>0, <1>1 DEF SafeUpTo
  <2>2. r \in RequestedIn(c, k)
    BY <1>2, <1>4, <2>1 DEF RequestedIn
  <2>3. r \in chain[durable].stored
    BY <1>0, <2>2 DEF SafeUpTo, StoredAt
  <2> QED
    BY <1>1, <1>2, <1>3, <2>3 DEF StoredAt
<1>5. n <= durable' + 1
  <2>1. n <= durable + 1
    BY <1>0 DEF SafeUpTo
  <2>2. durable \in Nat /\ durable' \in Nat
    BY <1>1
  <2>3. durable <= durable'
    BY <1>1
  <2> QED
    BY <2>1, <2>2, <2>3, StillBelow
<1> QED
  BY <1>4, <1>5, Zenon DEF SafeUpTo

\* A scan up to block d finds the same in two chains that agree up to d.
LEMMA ScanStays ==
    ASSUME IInv, EnvNext, NEW c, NEW from \in Nat \ {0}, NEW to \in Nat, NEW d \in Nat,
           to <= d, d <= Len(chain), d <= Len(chain')
    PROVE  FirstRequests(c, from, to)' = FirstRequests(c, from, to)
<1>1. Len(chain) \in Nat /\ Len(chain') \in Nat
  BY ChainMoves, LenProperties DEF IInv, TypeOK
<1>2. Min({to, Len(chain)}) = to /\ Min({to, Len(chain')}) = to
  BY <1>1, TwoBlocks
<1>3. \A k \in 1..to : chain'[k] = chain[k]
  BY <1>1, ChainMoves
<1> QED
  <2> DEFINE Asked(ch, q) == /\ <<c, q.round>> \in ch[q.first].reqs
                             /\ \A k \in from..(q.first - 1) : <<c, q.round>> \notin ch[k].reqs
             S == [round : Rounds, first : from..to]
  <2>1. FirstRequests(c, from, to) = {q \in S : Asked(chain, q)}
    BY <1>2 DEF FirstRequests
  <2>2. FirstRequests(c, from, to)' = {q \in S : Asked(chain', q)}
    BY <1>2 DEF FirstRequests
  <2>3. ASSUME NEW q \in S PROVE Asked(chain', q) = Asked(chain, q)
    <3>1. q.first \in 1..to /\ \A k \in from..(q.first - 1) : k \in 1..to
      OBVIOUS
    <3> QED
      BY <3>1, <1>3
  <2> HIDE DEF Asked, S
  <2> QED
    BY <2>1, <2>2, <2>3

LEMMA EnvPreserves == IInv /\ EnvNext => IInv'
<1> SUFFICES ASSUME IInv, EnvNext PROVE IInv'
  OBVIOUS
<1>1. /\ UNCHANGED daemonVars
      /\ TypeOK /\ TypeOK' /\ ChainIsOrdered'
      /\ HeadsAreKnown /\ LoadedIsFile /\ CheckpointsAreBlocks
      /\ PassIsSound /\ CheckpointIsSafe
  BY ChainMoves DEF EnvNext, IInv
<1>2. /\ it' = it /\ file' = file /\ loaded' = loaded /\ headCache' = headCache
      /\ it \in Iteration /\ it.durable \in Nat /\ it.to \in Nat /\ it.next \in Nat
      /\ it.decided \in Nat /\ it.consumer \in Consumers
  BY <1>1 DEF daemonVars, TypeOK, Iteration
<1>3. HeadsAreKnown'
  <2> SUFFICES ASSUME ~broken' PROVE (headCache # None => headCache <= durable')
                                     /\ it.durable <= durable'
    BY <1>2 DEF HeadsAreKnown
  <2>1. ~broken /\ durable <= durable'
    BY ChainMoves
  <2>2. (headCache # None => headCache <= durable) /\ it.durable <= durable
    BY <1>1, <2>1 DEF HeadsAreKnown
  <2>3. durable \in Nat /\ durable' \in Nat /\ headCache \in Nat \cup {None}
    BY <1>1, LenProperties DEF TypeOK, Optional
  <2> QED
    BY <1>2, <2>1, <2>2, <2>3
<1>4. LoadedIsFile' /\ CheckpointsAreBlocks'
  BY <1>1, <1>2 DEF LoadedIsFile, CheckpointsAreBlocks
<1>5. CheckpointIsSafe'
  <2>1. ASSUME ~broken', NEW c \in Consumers, file[c] # None
        PROVE  SafeUpTo(c, file[c])'
    <3>1. ~broken
      BY <2>1, ChainMoves
    <3>2. SafeUpTo(c, file[c]) /\ file[c] \in Nat
      BY <1>1, <2>1, <3>1 DEF CheckpointIsSafe, SafeUpTo, TypeOK, Checkpoint, Optional
    <3>3. PICK n \in Nat : n = file[c]
      BY <3>2
    <3>4. SafeUpTo(c, n)'
      BY <2>1, <3>2, <3>3, SafetyStays
    <3> QED
      BY <1>2, <3>3, <3>4 DEF SafeUpTo
  <2> QED
    BY <1>2, <2>1 DEF CheckpointIsSafe, SafeUpTo
<1>6. PassIsSound'
  <2>1. ASSUME it.stage \in {"anchor", "scan", "import", "save"}
        PROVE  it.next = NextOf(it.consumer)' /\ it.next <= it.durable
    BY <1>1, <1>2, <2>1 DEF PassIsSound, NextOf
  <2>2. ASSUME it.stage \in {"scan", "import", "save"}
        PROVE  it.anchor \in Nat /\ it.anchor <= minted'
    <3>1. it.anchor \in Nat /\ it.anchor <= minted
      BY <1>1, <2>2 DEF PassIsSound
    <3> QED
      BY <1>1, <3>1, ChainMoves DEF TypeOK
  <2>3. ASSUME it.stage = "import"
        PROVE  /\ it.to <= it.durable
               /\ AnchorHolds' => it.found = FirstRequests(it.consumer, it.next, it.to)'
    <3>1. it.to <= it.durable
      BY <1>1, <2>3 DEF PassIsSound
    <3> SUFFICES ASSUME AnchorHolds'
                 PROVE  it.found = FirstRequests(it.consumer, it.next, it.to)'
      BY <3>1
    <3>2. it.durable <= Len(chain') /\ chain'[it.durable].hash = it.anchor
      BY <1>2 DEF AnchorHolds
    <3>3. it.next \in Nat \ {0} /\ it.next <= it.durable
      <4>1. it.consumer \in Consumers
        BY <1>2 DEF Iteration
      <4>2. it.next = NextOf(it.consumer) /\ it.next <= it.durable
        BY <1>1, <2>3 DEF PassIsSound
      <4>3. NextOf(it.consumer) >= StartBlock /\ StartBlock \in Nat \ {0}
        BY <1>1, <4>1, DaemonAssumption DEF CheckpointsAreBlocks, NextOf
      <4> QED
        BY <1>2, <4>2, <4>3
    <3>4. it.durable \in 1..Len(chain') /\ Len(chain) \in Nat /\ Len(chain') \in Nat
      BY <1>1, <1>2, <3>2, <3>3, LenProperties DEF TypeOK
    <3>5. it.durable \in 1..Len(chain) /\ chain'[it.durable] = chain[it.durable]
      <4>1. it.anchor <= minted /\ it.anchor \in Nat /\ minted \in Nat
        BY <1>1, <2>3 DEF PassIsSound, TypeOK
      <4>2. chain'[it.durable].hash # minted + 1
        BY <3>2, <4>1
      <4> QED
        BY <3>4, <4>2, ChainMoves
    <3>6. AnchorHolds
      BY <3>2, <3>4, <3>5 DEF AnchorHolds
    <3>7. it.found = FirstRequests(it.consumer, it.next, it.to)
      BY <1>1, <2>3, <3>6 DEF PassIsSound
    <3>8. PICK c \in Consumers, from \in Nat \ {0}, to \in Nat, d \in Nat :
             c = it.consumer /\ from = it.next /\ to = it.to /\ d = it.durable
      BY <1>2, <3>3
    <3>9. FirstRequests(c, from, to)' = FirstRequests(c, from, to)
      BY <3>1, <3>4, <3>5, <3>8, ScanStays
    <3> QED
      BY <1>2, <3>7, <3>8, <3>9 DEF FirstRequests
  <2>4. ASSUME it.stage = "save"
        PROVE  /\ it.decided > it.next
               /\ ~broken' => SafeUpTo(it.consumer, it.decided)'
    <3>1. it.decided > it.next /\ (~broken => SafeUpTo(it.consumer, it.decided))
      BY <1>1, <2>4 DEF PassIsSound
    <3>2. PICK c \in Consumers, n \in Nat : c = it.consumer /\ n = it.decided
      BY <1>2
    <3>3. ASSUME ~broken' PROVE SafeUpTo(c, n)'
      BY <3>1, <3>2, <3>3, ChainMoves, SafetyStays
    <3> QED
      BY <1>2, <3>1, <3>2, <3>3 DEF SafeUpTo
  <2> QED
    BY <1>2, <2>1, <2>2, <2>3, <2>4 DEF PassIsSound
<1> QED
  BY <1>1, <1>3, <1>4, <1>5, <1>6 DEF IInv

-----------------------------------------------------------------------------
(* The daemon.                                                             *)

\* What a step of the daemon leaves alone of the invariant: the chain, and the
\* checkpoints when it does not write the file.
LEMMA DaemonFrame ==
    ASSUME IInv, UNCHANGED envVars
    PROVE  /\ ChainIsOrdered'
           /\ \A c, n : SafeUpTo(c, n)' <=> SafeUpTo(c, n)
           /\ file' = file => CheckpointIsSafe' /\ CheckpointsAreBlocks'
<1>1. /\ chain' = chain /\ durable' = durable /\ broken' = broken /\ minted' = minted
      /\ ChainIsOrdered /\ CheckpointIsSafe /\ CheckpointsAreBlocks
  BY DEF envVars, IInv
<1>2. ChainIsOrdered'
  BY <1>1 DEF ChainIsOrdered
<1>3. ASSUME NEW c, NEW n PROVE SafeUpTo(c, n)' <=> SafeUpTo(c, n)
  BY <1>1 DEF SafeUpTo, RequestedIn, StoredAt
<1>4. ASSUME file' = file PROVE CheckpointIsSafe' /\ CheckpointsAreBlocks'
  BY <1>1, <1>4 DEF CheckpointIsSafe, CheckpointsAreBlocks, RequestedIn, StoredAt
<1> QED
  BY <1>2, <1>3, <1>4

\* Outside of a durable pass nothing has to be known of the iteration.
LEMMA OutsidePass ==
    ASSUME IInv, UNCHANGED <<envVars, file>>, TypeOK',
           loaded' \in {loaded, None, file},
           headCache' \in {headCache, None, durable},
           it'.stage \in {"sleep", "load", "soft-scan", "soft-import"},
           it'.durable \in {0, it.durable}
    PROVE  IInv'
<1>1. ChainIsOrdered' /\ CheckpointIsSafe' /\ CheckpointsAreBlocks'
  BY DaemonFrame
<1>2. HeadsAreKnown'
  <2>1. durable \in Nat /\ broken' = broken /\ durable' = durable
    BY LenProperties DEF IInv, TypeOK, envVars
  <2> QED
    BY <2>1 DEF HeadsAreKnown, IInv
<1>3. LoadedIsFile'
  BY DEF LoadedIsFile, IInv
<1>4. PassIsSound'
  BY DEF PassIsSound
<1> QED
  BY <1>1, <1>2, <1>3, <1>4 DEF IInv

\* Within the imports of a durable pass only the queue and the failure change.
LEMMA WithinImports ==
    ASSUME IInv, UNCHANGED <<envVars, file, loaded, headCache>>, TypeOK',
           it.stage = "import", it'.stage = "import",
           it'.consumer = it.consumer, it'.next = it.next, it'.durable = it.durable,
           it'.anchor = it.anchor, it'.to = it.to, it'.found = it.found
    PROVE  IInv'
<1>1. ChainIsOrdered' /\ CheckpointIsSafe' /\ CheckpointsAreBlocks'
  BY DaemonFrame
<1>2. HeadsAreKnown'
  BY DEF HeadsAreKnown, IInv, envVars
<1>3. LoadedIsFile'
  BY DEF LoadedIsFile, IInv
<1>4. PassIsSound'
  <2>1. /\ it.next = NextOf(it.consumer) /\ it.next <= it.durable
        /\ it.anchor \in Nat /\ it.anchor <= minted /\ it.to <= it.durable
        /\ AnchorHolds => it.found = FirstRequests(it.consumer, it.next, it.to)
    BY DEF IInv, PassIsSound
  <2>2. NextOf(it.consumer)' = NextOf(it.consumer) /\ minted' = minted
        /\ AnchorHolds' = AnchorHolds
        /\ FirstRequests(it.consumer, it.next, it.to)'
             = FirstRequests(it.consumer, it.next, it.to)
    BY DEF NextOf, AnchorHolds, FirstRequests, envVars
  <2> QED
    BY <2>1, <2>2 DEF PassIsSound
<1> QED
  BY <1>1, <1>2, <1>3, <1>4 DEF IInv

\* The fields of the iteration.
LEMMA ItIsTyped ==
    ASSUME TypeOK
    PROVE  /\ it \in Iteration /\ it.stage \in Stage /\ it.consumer \in Consumers
           /\ it.next \in Nat /\ it.durable \in Nat /\ it.latest \in Nat
           /\ it.anchor \in Optional /\ it.to \in Nat /\ it.decided \in Nat
           /\ it.found \subseteq Request /\ it.queue \subseteq Request
           /\ it.failed \in BOOLEAN
           /\ Len(chain) \in Nat /\ durable \in Nat /\ durable <= Len(chain)
BY LenProperties DEF TypeOK, Iteration

\* A new iteration, and what may change beside it.
LEMMA TypeStep ==
    ASSUME TypeOK, UNCHANGED envVars, retained' \subseteq Rounds, faults' \in Nat,
           file' \in Checkpoint, loaded' \in Checkpoint \cup {None},
           headCache' \in Optional, soft' \in Checkpoint, it' \in Iteration
    PROVE  TypeOK'
BY DEF TypeOK, envVars

\* A checkpoint with one block replaced.
LEMMA WriteIsTyped ==
    ASSUME NEW f \in Checkpoint, NEW c \in Consumers, NEW n \in Nat
    PROVE  [f EXCEPT ![c] = n] \in Checkpoint
BY DEF Checkpoint, Optional

\* A fault counts.
LEMMA FaultIsTyped ==
    ASSUME TypeOK
    PROVE  (Fault => faults' \in Nat) /\ (faults' = faults => faults' \in Nat)
BY DEF TypeOK, Fault

LEMMA InitEstablishes == Init => IInv
<1> SUFFICES ASSUME Init PROVE IInv
  OBVIOUS
<1>1. NumConsumers \in Nat /\ NumConsumers # 0 /\ 1 \in Consumers /\ "sleep" \in Stage
  BY DaemonAssumption DEF Consumers, Stage
<1>2. it \in Iteration /\ it.stage = "sleep" /\ it.durable = 0
  BY <1>1, BlankIsTyped DEF Init
<1>3. /\ chain \in Seq(Block) /\ Len(chain) = 1
      /\ chain[1] = [hash |-> 0, reqs |-> {}, stored |-> {}]
  BY DEF Init, Block
<1>4. TypeOK
  <2>1. [c \in Consumers |-> None] \in Checkpoint
    BY DEF Checkpoint, Optional
  <2>2. broken \in BOOLEAN
    BY Zenon DEF Init
  <2>3. durable \in 1..Len(chain) /\ headCache \in Optional
    BY <1>3 DEF Init, Optional
  <2> QED
    BY <1>2, <1>3, <2>1, <2>2, <2>3 DEF Init, TypeOK
<1>5. ChainIsOrdered
  BY <1>3 DEF ChainIsOrdered, Init
<1>6. HeadsAreKnown /\ LoadedIsFile /\ CheckpointsAreBlocks /\ CheckpointIsSafe
  BY <1>2 DEF HeadsAreKnown, LoadedIsFile, CheckpointsAreBlocks, CheckpointIsSafe, Init
<1>7. PassIsSound
  BY <1>2 DEF PassIsSound
<1> QED
  BY <1>4, <1>5, <1>6, <1>7 DEF IInv

-----------------------------------------------------------------------------
(* The steps that end, or stay outside of, a durable pass.                 *)

LEMMA RecoverPreserves ==
    IInv /\ (RecoverFresh \/ RecoverCached \/ RecoverLosesAttempt \/ RecoverFails) => IInv'
<1> SUFFICES ASSUME IInv, RecoverFresh \/ RecoverCached \/ RecoverLosesAttempt \/ RecoverFails
             PROVE  IInv'
  OBVIOUS
<1>1. TypeOK /\ it.stage = "sleep" /\ UNCHANGED <<envVars, file, loaded, soft>>
  BY DEF IInv, RecoverFresh, RecoverCached, RecoverLosesAttempt, RecoverFails, Recover
<1>2. retained' \subseteq Rounds /\ headCache' \in {headCache, None, durable}
      /\ (it' = Blank("load", 1) \/ it' = it)
  BY <1>1 DEF TypeOK, RecoverFresh, RecoverCached, RecoverLosesAttempt, RecoverFails, Recover
<1>3. faults' \in Nat
  BY <1>1, FaultIsTyped DEF RecoverFresh, RecoverCached, RecoverLosesAttempt, RecoverFails, Recover
<1>4. 1 \in Consumers /\ "load" \in Stage
  BY DaemonAssumption DEF Consumers, Stage
<1>5. it' \in Iteration /\ it'.stage \in {"sleep", "load"} /\ it'.durable \in {0, it.durable}
  BY <1>1, <1>2, <1>4, BlankIsTyped, ItIsTyped
<1>6. headCache' \in Optional
  BY <1>1, <1>2, ItIsTyped DEF TypeOK, Optional
<1>7. TypeOK'
  BY <1>1, <1>2, <1>3, <1>5, <1>6, TypeStep DEF TypeOK
<1> QED
  BY <1>1, <1>2, <1>5, <1>7, OutsidePass

LEMMA FailingPreserves ==
    IInv /\ (IterationFails \/ CachedHeadAhead \/ AnchorUnavailable) => IInv'
<1> SUFFICES ASSUME IInv, IterationFails \/ CachedHeadAhead \/ AnchorUnavailable
             PROVE  IInv'
  OBVIOUS
<1>1. TypeOK /\ UNCHANGED <<envVars, file, loaded, soft, retained>>
  BY DEF IInv, IterationFails, CachedHeadAhead, AnchorUnavailable
<1>2. headCache' \in {headCache, None}
      /\ \/ it' = Following(it.consumer)
         \/ it' = it /\ it.stage = "sleep"
         \/ it' = [it EXCEPT !.stage = "soft-scan"]
  BY <1>1 DEF IterationFails, CachedHeadAhead, AnchorUnavailable
<1>3. faults' \in Nat
  BY <1>1, FaultIsTyped DEF IterationFails, CachedHeadAhead, AnchorUnavailable
<1>4. it' \in Iteration /\ it'.stage \in {"sleep", "load", "soft-scan"}
      /\ it'.durable \in {0, it.durable}
  BY <1>1, <1>2, FollowingIsTyped, ItIsTyped DEF Iteration, Stage
<1>6. headCache' \in Optional
  BY <1>1, <1>2 DEF TypeOK, Optional
<1>7. TypeOK'
  BY <1>1, <1>2, <1>3, <1>4, <1>6, TypeStep DEF TypeOK
<1> QED
  BY <1>1, <1>2, <1>4, <1>7, OutsidePass

LEMMA SoftPreserves == IInv /\ (ScanSoft \/ SoftDone) => IInv'
<1> SUFFICES ASSUME IInv, ScanSoft \/ SoftDone PROVE IInv'
  OBVIOUS
<1>1. TypeOK /\ UNCHANGED <<envVars, file, loaded, headCache, retained, faults>>
  BY DEF IInv, ScanSoft, SoftDone
<1>2. SoftNext(it.consumer) \in Nat
  <2>1. it.durable + 1 \in Nat /\ it.next \in Nat /\ soft[it.consumer] \in Optional
    BY <1>1, ItIsTyped DEF TypeOK, Checkpoint
  <2>2. Max({it.next, it.durable + 1}) \in Nat
    BY <2>1, TwoBlocks
  <2>3. soft[it.consumer] # None => soft[it.consumer] \in Nat
    BY <2>1 DEF Optional
  <2> QED
    BY <2>2, <2>3, TwoBlocks DEF SoftNext
<1>3. PICK from \in Nat, to \in Nat : /\ from = SoftNext(it.consumer)
                                      /\ to = ScanEnd(from, it.latest)
  BY <1>1, <1>2, ItIsTyped, ScanEndRange
<1>4. FirstRequests(it.consumer, from, to) \subseteq Request
  BY <1>1, FoundIsTyped
<1>5. \/ it' = Following(it.consumer)
         /\ (soft' = [soft EXCEPT ![it.consumer] = from]
              \/ soft' = [soft EXCEPT ![it.consumer] = it.to + 1])
      \/ /\ it' = [it EXCEPT !.to = to, !.queue = FirstRequests(it.consumer, from, to),
                             !.stage = "soft-import"]
         /\ soft' = soft
  BY <1>3 DEF ScanSoft, SoftDone
<1>6. soft' \in Checkpoint
  <2>1. soft \in Checkpoint /\ it.to + 1 \in Nat /\ it.consumer \in Consumers
    BY <1>1, ItIsTyped DEF TypeOK
  <2> QED
    BY <1>5, <2>1, WriteIsTyped
<1>7. it' \in Iteration /\ it'.stage \in {"sleep", "load", "soft-import"}
      /\ it'.durable \in {0, it.durable}
  BY <1>1, <1>4, <1>5, FollowingIsTyped, ItIsTyped DEF Iteration, Stage
<1>8. TypeOK'
  BY <1>1, <1>6, <1>7, TypeStep DEF TypeOK
<1> QED
  BY <1>1, <1>7, <1>8, OutsidePass

-----------------------------------------------------------------------------
(* The durable pass.                                                       *)

LEMMA StartPreserves == IInv /\ (StartFresh \/ StartCached) => IInv'
<1> SUFFICES ASSUME IInv, StartFresh \/ StartCached PROVE IInv'
  OBVIOUS
<1>1. TypeOK /\ LoadedIsFile /\ HeadsAreKnown
  BY DEF IInv
<1>2. PICK d \in Nat : StartIteration(d) /\ (d = durable \/ (headCache # None /\ d = headCache))
  BY <1>1, ItIsTyped DEF StartFresh, StartCached, TypeOK, Optional
<1>3. /\ UNCHANGED <<envVars, retained, file, soft, faults>> /\ it.stage = "load"
      /\ headCache' = d
  BY <1>2 DEF StartIteration
<1>4. loaded' = file
  BY <1>1, <1>2 DEF StartIteration, LoadedIsFile
<1>5. it' = [it EXCEPT !.next = NextOf(it.consumer), !.durable = d, !.latest = Len(chain),
                       !.stage = IF NextOf(it.consumer) <= d THEN "anchor" ELSE "soft-scan"]
  BY <1>1, <1>2 DEF StartIteration, LoadedIsFile, NextOf
<1>6. NextOf(it.consumer) \in Nat
  BY <1>1, ItIsTyped, DaemonAssumption DEF NextOf, TypeOK, Checkpoint, Optional
<1>7. /\ it' \in Iteration /\ it'.next = NextOf(it.consumer) /\ it'.durable = d
      /\ it'.consumer = it.consumer /\ it'.stage \in {"anchor", "soft-scan"}
      /\ it'.stage = "anchor" => NextOf(it.consumer) <= d
  BY <1>1, <1>5, <1>6, ItIsTyped DEF Iteration, Stage
<1>8. TypeOK'
  BY <1>1, <1>3, <1>4, <1>7, TypeStep DEF TypeOK, Optional
<1>9. ChainIsOrdered' /\ CheckpointIsSafe' /\ CheckpointsAreBlocks'
  BY <1>3, DaemonFrame
<1>10. HeadsAreKnown'
  <2>1. ~broken => d <= durable
    BY <1>1, <1>2, ItIsTyped DEF HeadsAreKnown
  <2> QED
    BY <1>3, <1>7, <2>1 DEF HeadsAreKnown, envVars
<1>11. LoadedIsFile'
  BY <1>3, <1>4 DEF LoadedIsFile
<1>12. PassIsSound'
  <2>1. NextOf(it.consumer)' = NextOf(it.consumer)
    BY <1>3, <1>7 DEF NextOf
  <2> QED
    BY <1>7, <2>1 DEF PassIsSound
<1> QED
  BY <1>8, <1>9, <1>10, <1>11, <1>12 DEF IInv

LEMMA OpenPreserves == IInv /\ OpenAnchor => IInv'
<1> SUFFICES ASSUME IInv, OpenAnchor PROVE IInv'
  OBVIOUS
<1>1. TypeOK /\ LoadedIsFile /\ HeadsAreKnown /\ PassIsSound /\ ChainIsOrdered
      /\ UNCHANGED <<envVars, retained, file, loaded, headCache, soft, faults>>
      /\ it.stage = "anchor" /\ it.durable <= Len(chain)
  BY DEF IInv, OpenAnchor
<1>2. it.next = NextOf(it.consumer) /\ it.next <= it.durable /\ it.next # 0
  <2>1. it.next = NextOf(it.consumer) /\ it.next <= it.durable /\ it.consumer \in Consumers
    BY <1>1, ItIsTyped DEF PassIsSound
  <2>2. CheckpointsAreBlocks
    BY DEF IInv
  <2>3. NextOf(it.consumer) >= StartBlock /\ StartBlock \in Nat \ {0}
    BY <2>1, <2>2, DaemonAssumption DEF CheckpointsAreBlocks, NextOf
  <2> QED
    BY <2>1, <2>3
<1>3. it.durable \in 1..Len(chain)
  BY <1>1, <1>2, ItIsTyped
<1>4. chain[it.durable] \in Block /\ chain[it.durable].hash <= minted
  BY <1>1, <1>3, ElementOfSeq DEF TypeOK, ChainIsOrdered
<1>5. PICK h \in Nat : h = chain[it.durable].hash /\ h <= minted
  BY <1>4 DEF Block
<1>6. it' = [it EXCEPT !.anchor = h, !.stage = "scan"]
  BY <1>5 DEF OpenAnchor
<1>7. /\ it' \in Iteration /\ it'.stage = "scan" /\ it'.anchor = h
      /\ it'.next = it.next /\ it'.durable = it.durable /\ it'.consumer = it.consumer
  BY <1>1, <1>6, ItIsTyped DEF Iteration, Stage, Optional
<1>8. TypeOK'
  BY <1>1, <1>7, TypeStep DEF TypeOK
<1>9. ChainIsOrdered' /\ CheckpointIsSafe' /\ CheckpointsAreBlocks'
  BY <1>1, DaemonFrame
<1>10. HeadsAreKnown' /\ LoadedIsFile'
  BY <1>1, <1>7 DEF HeadsAreKnown, LoadedIsFile, envVars
<1>11. PassIsSound'
  <2>1. NextOf(it.consumer)' = NextOf(it.consumer) /\ minted' = minted
    BY <1>1, <1>7 DEF NextOf, envVars
  <2> QED
    BY <1>2, <1>5, <1>7, <2>1 DEF PassIsSound
<1> QED
  BY <1>8, <1>9, <1>10, <1>11 DEF IInv

LEMMA ScanPreserves == IInv /\ ScanDurable => IInv'
<1> SUFFICES ASSUME IInv, ScanDurable PROVE IInv'
  OBVIOUS
<1>1. TypeOK /\ LoadedIsFile /\ HeadsAreKnown /\ PassIsSound
      /\ UNCHANGED <<envVars, retained, file, loaded, headCache, soft, faults>>
      /\ it.stage = "scan"
  BY DEF IInv, ScanDurable
<1>2. PICK to \in Nat : to = ScanEnd(it.next, it.durable) /\ to <= it.durable
  BY <1>1, ItIsTyped, ScanEndRange
<1>3. PICK found \in SUBSET Request : found = FirstRequests(it.consumer, it.next, to)
  BY <1>1, ItIsTyped, FoundIsTyped
<1>4. it' = [it EXCEPT !.to = to, !.found = found, !.queue = found, !.stage = "import"]
  BY <1>2, <1>3 DEF ScanDurable
<1>5. /\ it' \in Iteration /\ it'.stage = "import" /\ it'.anchor = it.anchor
      /\ it'.next = it.next /\ it'.durable = it.durable /\ it'.consumer = it.consumer
      /\ it'.to = to /\ it'.found = found
  BY <1>1, <1>4, ItIsTyped DEF Iteration, Stage
<1>6. TypeOK'
  BY <1>1, <1>5, TypeStep DEF TypeOK
<1>7. ChainIsOrdered' /\ CheckpointIsSafe' /\ CheckpointsAreBlocks'
  BY <1>1, DaemonFrame
<1>8. HeadsAreKnown' /\ LoadedIsFile'
  BY <1>1, <1>5 DEF HeadsAreKnown, LoadedIsFile, envVars
<1>9. PassIsSound'
  <2>1. NextOf(it.consumer)' = NextOf(it.consumer) /\ minted' = minted
    BY <1>1, <1>5 DEF NextOf, envVars
  <2>2. FirstRequests(it.consumer, it.next, it.to)' = found
    BY <1>1, <1>3, <1>5 DEF FirstRequests, envVars
  <2>3. it.next = NextOf(it.consumer) /\ it.next <= it.durable
        /\ it.anchor \in Nat /\ it.anchor <= minted
    BY <1>1 DEF PassIsSound
  <2> QED
    BY <1>2, <1>5, <2>1, <2>2, <2>3 DEF PassIsSound
<1> QED
  BY <1>6, <1>7, <1>8, <1>9 DEF IInv

LEMMA ImportPreserves ==
    IInv /\ (ImportNotNeeded \/ ImportSubmits \/ ImportDeferred \/ ImportFails) => IInv'
<1> SUFFICES ASSUME IInv, ImportNotNeeded \/ ImportSubmits \/ ImportDeferred \/ ImportFails
             PROVE  IInv'
  OBVIOUS
<1>1. TypeOK /\ UNCHANGED <<envVars, file, loaded, headCache, soft>>
      /\ it.stage \in {"import", "soft-import"} /\ it.queue # {}
  BY DEF IInv, ImportNotNeeded, ImportSubmits, ImportDeferred, ImportFails, Importing
<1>2. faults' \in Nat
  BY <1>1, FaultIsTyped DEF ImportNotNeeded, ImportSubmits, ImportDeferred, ImportFails
<1>3. retained' \subseteq Rounds
  BY <1>1 DEF TypeOK, ImportNotNeeded, ImportSubmits, ImportDeferred, ImportFails
<1>4. \/ \E queue \in SUBSET it.queue, failed \in {it.failed, TRUE} :
            it' = [it EXCEPT !.queue = queue, !.failed = failed]
      \/ it.stage = "soft-import" /\ it' = Following(it.consumer)
  <2>1. CASE ImportNotNeeded \/ ImportSubmits
    <3>1. it' = [it EXCEPT !.queue = @ \ {Oldest}]
      BY <2>1 DEF ImportNotNeeded, ImportSubmits, Dequeued
    <3>2. it' = [it EXCEPT !.queue = it.queue \ {Oldest}, !.failed = it.failed]
      BY <1>1, <3>1, ItIsTyped DEF Iteration
    <3>3. it.queue \ {Oldest} \in SUBSET it.queue
      OBVIOUS
    <3> QED
      BY <3>2, <3>3, Zenon
  <2>2. CASE ImportDeferred
    <3>1. it' = [it EXCEPT !.queue = {}]
      BY <2>2 DEF ImportDeferred
    <3>2. it' = [it EXCEPT !.queue = {}, !.failed = it.failed]
      BY <1>1, <3>1, ItIsTyped DEF Iteration
    <3>3. {} \in SUBSET it.queue
      OBVIOUS
    <3> QED
      BY <3>2, <3>3, Zenon
  <2>3. CASE ImportFails
    <3>1. {} \in SUBSET it.queue
      OBVIOUS
    <3> QED
      BY <1>1, <2>3, <3>1, Zenon DEF ImportFails
  <2> QED
    BY <2>1, <2>2, <2>3
<1>5. it' \in Iteration /\ it'.durable \in {0, it.durable}
  <2>1. CASE it' = Following(it.consumer)
    BY <1>1, <2>1, FollowingIsTyped, ItIsTyped
  <2>2. CASE \E queue \in SUBSET it.queue, failed \in {it.failed, TRUE} :
               it' = [it EXCEPT !.queue = queue, !.failed = failed]
    <3>1. PICK queue \in SUBSET it.queue, failed \in {it.failed, TRUE} :
               it' = [it EXCEPT !.queue = queue, !.failed = failed]
      BY <2>2
    <3>2. queue \subseteq Request /\ failed \in BOOLEAN
      BY <1>1, ItIsTyped, Zenon
    <3> QED
      BY <1>1, <3>1, <3>2, ItIsTyped DEF Iteration
  <2> QED
    BY <1>4, <2>1, <2>2
<1>6. TypeOK'
  BY <1>1, <1>2, <1>3, <1>5, TypeStep DEF TypeOK
<1>7. CASE it.stage = "import"
  <2>1. PICK queue \in SUBSET it.queue, failed \in {it.failed, TRUE} :
               it' = [it EXCEPT !.queue = queue, !.failed = failed]
    BY <1>4, <1>7
  <2>2. /\ it'.stage = "import" /\ it'.consumer = it.consumer /\ it'.next = it.next
        /\ it'.durable = it.durable /\ it'.anchor = it.anchor /\ it'.to = it.to
        /\ it'.found = it.found
    BY <1>1, <1>7, <2>1, ItIsTyped DEF Iteration
  <2> QED
    BY <1>1, <1>6, <1>7, <2>2, WithinImports
<1>8. CASE it.stage = "soft-import"
  <2>1. it'.stage \in {"sleep", "load", "soft-import"}
    BY <1>1, <1>4, <1>8, FollowingIsTyped, ItIsTyped DEF Iteration
  <2> QED
    BY <1>1, <1>5, <1>6, <2>1, OutsidePass
<1> QED
  BY <1>1, <1>7, <1>8

\* The decision: every request below the decided checkpoint is one whose first
\* occurrence the scan found and whose round is stored at the durable block.
LEMMA DecisionHolds ==
    ASSUME IInv, it.stage = "import", AnchorHolds, NEW answered
    PROVE  /\ Decided(answered) \in Nat /\ Decided(answered) <= it.durable + 1
           /\ \A k \in it.next..(Decided(answered) - 1) :
                \A r \in RequestedIn(it.consumer, k) : StoredAt(r, it.durable)
<1>1. /\ TypeOK /\ it.to <= it.durable /\ it.durable <= Len(chain)
      /\ it.found = FirstRequests(it.consumer, it.next, it.to)
  BY DEF IInv, PassIsSound, AnchorHolds
<1>2. it.to \in Nat /\ it.next \in Nat /\ it.durable \in Nat /\ Len(chain) \in Nat
      /\ it.found \subseteq Request
  BY <1>1, ItIsTyped
<1> DEFINE U == {p \in it.found : p.round \notin answered \/ ~StoredAt(p.round, it.durable)}
           S == {it.to + 1} \cup {q.first : q \in U}
<1>3. S \subseteq Nat /\ S # {}
  BY <1>2 DEF Request
<1>4. Decided(answered) = Min(S)
  BY DEF Decided
<1> HIDE DEF S
<1>5. Decided(answered) \in S /\ \A y \in S : Decided(answered) <= y
  BY <1>3, <1>4, MinNat
<1>6. it.to + 1 \in S /\ \A q \in U : q.first \in S
  BY DEF S
<1>7. Decided(answered) \in Nat /\ Decided(answered) <= it.to + 1
  BY <1>3, <1>5, <1>6
<1>8. ASSUME NEW k \in it.next..(Decided(answered) - 1), NEW r \in RequestedIn(it.consumer, k)
      PROVE  StoredAt(r, it.durable)
  <2> DEFINE T == {j \in it.next..k : <<it.consumer, r>> \in chain[j].reqs}
  <2>1. k \in Nat /\ k <= it.to /\ k < Decided(answered)
    BY <1>2, <1>7
  <2>2. T \subseteq Nat /\ k \in T /\ r \in Rounds
    BY <1>2, <2>1 DEF RequestedIn
  <2>3. PICK m \in T : \A j \in T : m <= j
    <3> HIDE DEF T
    <3>1. Min(T) \in T /\ \A j \in T : Min(T) <= j
      BY <2>2, MinNat
    <3> QED
      BY <3>1
  <2>4. m \in it.next..k /\ <<it.consumer, r>> \in chain[m].reqs
    BY <2>3
  <2>5. \A j \in it.next..(m - 1) : <<it.consumer, r>> \notin chain[j].reqs
    <3> SUFFICES ASSUME NEW j \in it.next..(m - 1), <<it.consumer, r>> \in chain[j].reqs
                 PROVE  FALSE
      OBVIOUS
    <3>1. j \in T
      BY <1>2, <2>1, <2>4
    <3> QED
      BY <1>2, <2>1, <2>3, <2>4, <3>1
  <2>6. Min({it.to, Len(chain)}) = it.to
    BY <1>1, <1>2, TwoBlocks
  <2>7. PICK q \in [round : Rounds, first : it.next..it.to] : q.round = r /\ q.first = m
    <3>1. m \in it.next..it.to
      BY <1>2, <2>1, <2>4
    <3>2. [round |-> r, first |-> m] \in [round : Rounds, first : it.next..it.to]
      BY <2>2, <3>1
    <3> QED
      BY <3>2
  <2>8. q \in it.found
    BY <1>1, <2>4, <2>5, <2>6, <2>7 DEF FirstRequests
  <2>9. q \notin U
    <3>1. q \in U => Decided(answered) <= m
      BY <1>5, <1>6, <2>7
    <3> QED
      BY <1>2, <1>7, <2>1, <2>4, <3>1
  <2> QED
    BY <2>7, <2>8, <2>9
<1>9. Decided(answered) <= it.durable + 1
  BY <1>1, <1>2, <1>7
<1> QED
  BY <1>7, <1>8, <1>9

\* With a finality policy that holds, what a pass decided is safe: the requests
\* below the old checkpoint were, and those above it are stored.
LEMMA DecisionIsSafe ==
    ASSUME IInv, it.stage = "import", AnchorHolds, NEW answered, ~broken
    PROVE  SafeUpTo(it.consumer, Decided(answered))
<1>1. /\ TypeOK /\ ChainIsOrdered /\ HeadsAreKnown /\ CheckpointIsSafe
      /\ it.next = NextOf(it.consumer) /\ it.next <= it.durable
      /\ it.consumer \in Consumers /\ it.durable <= durable /\ it.durable \in Nat
      /\ durable \in Nat /\ Len(chain) \in Nat /\ durable <= Len(chain)
      /\ it.next \in Nat
  BY ItIsTyped DEF IInv, PassIsSound, HeadsAreKnown
<1>2. StartBlock \in Nat /\ StartBlock # 0 /\ it.next >= StartBlock
  BY <1>1, DaemonAssumption DEF IInv, CheckpointsAreBlocks, NextOf
<1>3. PICK n \in Nat : n = Decided(answered)
  BY DecisionHolds
<1>4. n <= it.durable + 1
  BY <1>3, DecisionHolds
<1>5. n <= durable + 1
  BY <1>1, <1>4
<1>6. chain[it.durable].stored \subseteq chain[durable].stored
  BY <1>1, <1>2 DEF ChainIsOrdered
<1>7. ASSUME NEW k \in StartBlock..(n - 1), NEW r \in RequestedIn(it.consumer, k)
      PROVE  StoredAt(r, durable)
  <2>1. CASE k < it.next
    <3>1. file[it.consumer] # None /\ it.next = file[it.consumer]
      BY <1>1, <1>2, <2>1 DEF NextOf
    <3>2. k \in StartBlock..(file[it.consumer] - 1)
      BY <1>1, <1>2, <2>1, <3>1
    <3> QED
      BY <1>1, <3>1, <3>2 DEF CheckpointIsSafe
  <2>2. CASE k >= it.next
    <3>1. k \in it.next..(Decided(answered) - 1)
      BY <1>1, <1>2, <1>3, <2>2
    <3>2. StoredAt(r, it.durable)
      BY <3>1, DecisionHolds
    <3> QED
      BY <1>1, <1>6, <3>2 DEF StoredAt
  <2> QED
    BY <1>1, <1>2, <2>1, <2>2
<1> QED
  BY <1>3, <1>5, <1>7 DEF SafeUpTo

\* Where a pass goes on is outside of it.
LEMMA AfterDurableIsTyped ==
    ASSUME TypeOK
    PROVE  /\ AfterDurable \in Iteration
           /\ AfterDurable.stage \in {"sleep", "load", "soft-scan"}
           /\ AfterDurable.durable \in {0, it.durable}
BY ItIsTyped, FollowingIsTyped DEF AfterDurable, Iteration, Stage

LEMMA ClosePreserves == IInv /\ (CloseAnchor \/ CloseUnavailable) => IInv'
<1> SUFFICES ASSUME IInv, CloseAnchor \/ CloseUnavailable PROVE IInv'
  OBVIOUS
<1>1. TypeOK /\ LoadedIsFile /\ HeadsAreKnown /\ PassIsSound
      /\ UNCHANGED <<envVars, retained, file, loaded, headCache, soft>>
      /\ it.stage = "import"
  BY DEF IInv, CloseAnchor, CloseUnavailable
<1>2. faults' \in Nat
  BY <1>1, FaultIsTyped DEF CloseAnchor, CloseUnavailable
<1>3. CASE it' = AfterDurable
  <2>1. TypeOK'
    BY <1>1, <1>2, <1>3, AfterDurableIsTyped, TypeStep DEF TypeOK
  <2> QED
    BY <1>1, <1>3, <2>1, AfterDurableIsTyped, OutsidePass
<1>4. CASE it' # AfterDurable
  <2>1. PICK answered : /\ AnchorHolds /\ Decided(answered) > it.next
                        /\ it' = [it EXCEPT !.decided = Decided(answered), !.stage = "save"]
    BY <1>4 DEF CloseAnchor, CloseUnavailable
  <2>2. PICK n \in Nat : n = Decided(answered)
    BY <1>1, <2>1, DecisionHolds
  <2>3. /\ it' \in Iteration /\ it'.stage = "save" /\ it'.decided = n
        /\ it'.next = it.next /\ it'.durable = it.durable /\ it'.consumer = it.consumer
        /\ it'.anchor = it.anchor
    BY <1>1, <2>1, <2>2, ItIsTyped DEF Iteration, Stage
  <2>4. TypeOK'
    BY <1>1, <1>2, <2>3, TypeStep DEF TypeOK
  <2>5. ChainIsOrdered' /\ CheckpointIsSafe' /\ CheckpointsAreBlocks'
    BY <1>1, DaemonFrame
  <2>6. HeadsAreKnown' /\ LoadedIsFile'
    BY <1>1, <2>3 DEF HeadsAreKnown, LoadedIsFile, envVars
  <2>7. ~broken => SafeUpTo(it.consumer, n)
    BY <1>1, <2>1, <2>2, DecisionIsSafe
  <2>8. PICK c \in Consumers : c = it.consumer
    BY <1>1, ItIsTyped
  <2>9. ~broken => SafeUpTo(c, n)'
    BY <1>1, <2>7, <2>8, DaemonFrame
  <2>10. ~broken' => SafeUpTo(it.consumer, it.decided)'
    BY <1>1, <2>3, <2>8, <2>9 DEF SafeUpTo, envVars
  <2>11. PassIsSound'
    <3>1. NextOf(it.consumer)' = NextOf(it.consumer) /\ minted' = minted
      BY <1>1, <2>3 DEF NextOf, envVars
    <3>2. it.next = NextOf(it.consumer) /\ it.next <= it.durable
          /\ it.anchor \in Nat /\ it.anchor <= minted
      BY <1>1 DEF PassIsSound
    <3> QED
      BY <2>1, <2>2, <2>3, <2>10, <3>1, <3>2 DEF PassIsSound
  <2> QED
    BY <2>4, <2>5, <2>6, <2>11 DEF IInv
<1> QED
  BY <1>3, <1>4

-----------------------------------------------------------------------------
(* The checkpoint write.                                                   *)

\* Writing the decided checkpoint keeps every promise about the file, whether or
\* not the store learns of it.
LEMMA WriteIsSafe ==
    ASSUME IInv, it.stage = "save", UNCHANGED envVars, file' = Written
    PROVE  /\ file' \in Checkpoint /\ CheckpointIsSafe' /\ CheckpointsAreBlocks'
           /\ \A c \in Consumers : file[c] # None => file'[c] # None /\ file'[c] >= file[c]
<1>1. /\ TypeOK /\ CheckpointIsSafe /\ CheckpointsAreBlocks
      /\ it.next = NextOf(it.consumer) /\ it.decided > it.next
      /\ ~broken => SafeUpTo(it.consumer, it.decided)
      /\ file \in Checkpoint /\ it.consumer \in Consumers /\ it.decided \in Nat
      /\ it.next \in Nat
  BY ItIsTyped DEF IInv, PassIsSound, TypeOK
<1>2. PICK m \in Consumers, n \in Nat : m = it.consumer /\ n = it.decided
  BY <1>1
<1>3. StartBlock \in Nat /\ None \notin Nat
  BY DaemonAssumption
<1>4. file' \in Checkpoint
  BY <1>1, <1>2, WriteIsTyped DEF Written
<1>5. /\ file'[m] = n
      /\ \A c \in Consumers : c # m => file'[c] = file[c]
  BY <1>1, <1>2 DEF Written, Checkpoint
<1>6. n >= StartBlock /\ (file[m] # None => file[m] \in Nat /\ n >= file[m])
  BY <1>1, <1>2, <1>3 DEF NextOf, CheckpointsAreBlocks
<1>7. CheckpointsAreBlocks'
  BY <1>1, <1>2, <1>5, <1>6 DEF CheckpointsAreBlocks
<1>8. CheckpointIsSafe'
  <2>1. ASSUME ~broken', NEW c \in Consumers, file'[c] # None
        PROVE  SafeUpTo(c, file[c])'
    <3>1. ~broken
      BY <2>1 DEF envVars
    <3>2. PICK b \in Nat : b = file'[c]
      BY <1>4, <2>1 DEF Checkpoint, Optional
    <3>3. SafeUpTo(c, b)
      <4>1. CASE c = m
        BY <1>1, <1>2, <1>5, <3>1, <3>2, <4>1
      <4>2. CASE c # m
        <5>1. b = file[c] /\ file[c] # None
          BY <1>5, <2>1, <3>2, <4>2
        <5> QED
          BY <1>1, <3>1, <5>1 DEF CheckpointIsSafe, SafeUpTo
      <4> QED
        BY <4>1, <4>2
    <3>4. SafeUpTo(c, b)'
      BY <3>3, DaemonFrame
    <3> QED
      BY <3>2, <3>4 DEF SafeUpTo
  <2> QED
    BY <2>1 DEF CheckpointIsSafe, SafeUpTo
<1>9. ASSUME NEW c \in Consumers, file[c] # None
      PROVE  file'[c] # None /\ file'[c] >= file[c]
  <2>1. file[c] \in Nat
    BY <1>1, <1>9 DEF Checkpoint, Optional
  <2> QED
    BY <1>2, <1>3, <1>5, <1>6, <1>9, <2>1
<1> QED
  BY <1>4, <1>7, <1>8, <1>9

LEMMA SavePreserves == IInv /\ (SaveCheckpoint \/ SaveFails \/ Crash) => IInv'
<1> SUFFICES ASSUME IInv, SaveCheckpoint \/ SaveFails \/ Crash PROVE IInv'
  OBVIOUS
<1>1. TypeOK /\ HeadsAreKnown /\ LoadedIsFile /\ UNCHANGED <<envVars, retained>>
      /\ (file' = file \/ (it.stage = "save" /\ file' = Written))
  BY DEF IInv, SaveCheckpoint, SaveFails, Crash
<1>2. file' \in Checkpoint /\ CheckpointIsSafe' /\ CheckpointsAreBlocks' /\ ChainIsOrdered'
  BY <1>1, WriteIsSafe, DaemonFrame DEF TypeOK
<1>3. faults' \in Nat
  BY <1>1, FaultIsTyped DEF SaveCheckpoint, SaveFails, Crash
<1>4. loaded' \in {None, file'} /\ headCache' \in {None, headCache}
  BY DEF SaveCheckpoint, SaveFails, Crash
<1>5. soft' \in Checkpoint
  BY <1>1 DEF SaveCheckpoint, SaveFails, Crash, Checkpoint, Optional, TypeOK
<1>6. /\ it' \in Iteration /\ it'.stage \in {"sleep", "load", "soft-scan"}
      /\ it'.durable \in {0, it.durable}
  <2>1. CASE SaveCheckpoint
    <3>1. PICK n \in Nat : it' = [AfterDurable EXCEPT !.next = n]
      <4>1. AfterDurable.next \in Nat /\ it.decided \in Nat
        BY <1>1, AfterDurableIsTyped, ItIsTyped DEF Iteration
      <4> QED
        BY <2>1, <4>1 DEF SaveCheckpoint
    <3> QED
      BY <1>1, <3>1, AfterDurableIsTyped DEF Iteration
  <2>2. CASE SaveFails
    BY <1>1, <2>2, FollowingIsTyped, ItIsTyped DEF SaveFails
  <2>3. CASE Crash
    <3>1. 1 \in Consumers /\ "sleep" \in Stage
      BY DaemonAssumption DEF Consumers, Stage
    <3> QED
      BY <2>3, <3>1, BlankIsTyped DEF Crash
  <2> QED
    BY <2>1, <2>2, <2>3
<1>7. TypeOK'
  BY <1>1, <1>2, <1>3, <1>4, <1>5, <1>6, TypeStep DEF TypeOK, Optional
<1>8. HeadsAreKnown'
  <2>1. durable' = durable /\ broken' = broken /\ durable \in Nat
    BY <1>1, ItIsTyped DEF envVars
  <2> QED
    BY <1>1, <1>4, <1>6, <2>1 DEF HeadsAreKnown
<1>9. LoadedIsFile'
  BY <1>4 DEF LoadedIsFile
<1>10. PassIsSound'
  BY <1>6 DEF PassIsSound
<1> QED
  BY <1>2, <1>7, <1>8, <1>9, <1>10 DEF IInv

-----------------------------------------------------------------------------
(* The theorems.                                                           *)

LEMMA NextPreserves == IInv /\ [Next]_vars => IInv'
<1> SUFFICES ASSUME IInv, [Next]_vars PROVE IInv'
  OBVIOUS
<1>1. CASE EnvNext
  BY <1>1, EnvPreserves
<1>2. CASE DaemonNext
  BY <1>2, RecoverPreserves, StartPreserves, FailingPreserves, OpenPreserves,
     ScanPreserves, ImportPreserves, ClosePreserves, SavePreserves, SoftPreserves
     DEF DaemonNext
<1>3. CASE FaultNext
  BY <1>3, RecoverPreserves, FailingPreserves, ImportPreserves, ClosePreserves,
     SavePreserves DEF FaultNext
<1>4. CASE UNCHANGED vars
  <2>1. UNCHANGED <<envVars, file, loaded, headCache, it>>
    BY <1>4 DEF vars, daemonVars
  <2>2. TypeOK'
    BY <1>4 DEF vars, envVars, daemonVars, IInv, TypeOK
  <2>3. ChainIsOrdered' /\ CheckpointIsSafe' /\ CheckpointsAreBlocks'
    BY <2>1, DaemonFrame
  <2>4. HeadsAreKnown' /\ LoadedIsFile'
    BY <2>1 DEF envVars, IInv, HeadsAreKnown, LoadedIsFile
  <2>5. PassIsSound'
    BY <2>1 DEF envVars, IInv, PassIsSound, NextOf, SafeUpTo, AnchorHolds,
       FirstRequests, RequestedIn, StoredAt
  <2> QED
    BY <2>2, <2>3, <2>4, <2>5 DEF IInv
<1> QED
  BY <1>1, <1>2, <1>3, <1>4 DEF Next

LEMMA SpecInvariant == Spec => []IInv
BY InitEstablishes, NextPreserves, PTL DEF Spec

\* The daemon's state is well formed, and the checkpoint on disk never passes a
\* request whose round is not in the registry at a durable block: whatever the
\* crashes, failed writes, stale heads and reorganisations above the durable block,
\* a restart of the daemon loses no request (reconcileDurableRequests).
THEOREM DaemonIsSafe == Spec => []DaemonInv
<1>1. IInv => DaemonInv
  BY DEF IInv, DaemonInv
<1> QED
  BY <1>1, SpecInvariant, PTL

\* Even when durable blocks are reorganised, a checkpoint is decided only over
\* requests of the chain that is canonical at the decision, each of them stored at
\* the durable block of that chain.
THEOREM DecisionsAreSound == Spec => DecisionIsSound
<1>1. ASSUME IInv, [Next]_vars, it.stage = "import", it'.stage = "save"
      PROVE  \A k \in it.next..(it'.decided - 1) : \A r \in RequestedIn(it.consumer, k) :
               StoredAt(r, it.durable)
  <2>1. TypeOK
    BY <1>1 DEF IInv
  <2>2. CloseAnchor
    <3>1. it' # it
      BY <1>1
    <3>2. ~EnvNext /\ ~UNCHANGED vars
      BY <3>1 DEF EnvNext, daemonVars, vars
    <3>3. ~(ImportNotNeeded \/ ImportSubmits \/ ImportDeferred \/ ImportFails)
      BY <1>1, <2>1, ItIsTyped DEF ImportNotNeeded, ImportSubmits, ImportDeferred,
         ImportFails, Dequeued, Iteration
    <3>4. ~CloseUnavailable
      BY <1>1, <2>1, AfterDurableIsTyped DEF CloseUnavailable
    <3>5. ~Crash
      <4>1. 1 \in Consumers /\ "sleep" \in Stage
        BY DaemonAssumption DEF Consumers, Stage
      <4> QED
        BY <1>1, <4>1, BlankIsTyped DEF Crash
    <3> QED
      BY <1>1, <3>2, <3>3, <3>4, <3>5 DEF Next, DaemonNext, FaultNext, RecoverFresh, RecoverCached,
         Recover, StartFresh, StartCached, StartIteration, CachedHeadAhead, OpenAnchor,
         AnchorUnavailable, ScanDurable, SaveCheckpoint, ScanSoft, SoftDone,
         IterationFails, RecoverLosesAttempt, RecoverFails, SaveFails
  <2>3. PICK answered : AnchorHolds /\ it' = [it EXCEPT !.decided = Decided(answered),
                                                        !.stage = "save"]
    BY <1>1, <2>1, <2>2, AfterDurableIsTyped DEF CloseAnchor
  <2>4. it'.decided = Decided(answered)
    BY <2>1, <2>3, ItIsTyped DEF Iteration
  <2> QED
    BY <1>1, <2>3, <2>4, DecisionHolds
<1> QED
  BY <1>1, SpecInvariant, PTL DEF Spec, DecisionIsSound

\* A checkpoint on disk never moves back, over failed writes, reloads and crashes.
THEOREM CheckpointsAdvance == Spec => CheckpointOnlyAdvances
<1>1. ASSUME IInv, [Next]_vars
      PROVE  \A c \in Consumers : file[c] # None => file'[c] # None /\ file'[c] >= file[c]
  <2>1. CASE file' = file
    <3>1. file \in Checkpoint
      BY <1>1 DEF IInv, TypeOK
    <3>2. \A c \in Consumers : file[c] # None => file[c] \in Nat
      BY <3>1 DEF Checkpoint, Optional
    <3> QED
      BY <2>1, <3>2
  <2>2. CASE it.stage = "save" /\ file' = Written /\ UNCHANGED envVars
    BY <1>1, <2>2, WriteIsSafe
  <2>3. file' = file \/ (it.stage = "save" /\ file' = Written /\ UNCHANGED envVars)
    BY <1>1 DEF Next, EnvNext, DaemonNext, FaultNext, vars, daemonVars, RecoverFresh, RecoverCached,
         Recover, StartFresh, StartCached, StartIteration, CachedHeadAhead, OpenAnchor,
         AnchorUnavailable, ScanDurable, SaveCheckpoint, ScanSoft, SoftDone,
         IterationFails, RecoverLosesAttempt, RecoverFails, SaveFails, Crash, ImportNotNeeded,
         ImportSubmits, ImportDeferred, ImportFails, CloseAnchor, CloseUnavailable
  <2> QED
    BY <2>1, <2>2, <2>3
<1> QED
  BY <1>1, SpecInvariant, PTL DEF Spec, CheckpointOnlyAdvances
=============================================================================
