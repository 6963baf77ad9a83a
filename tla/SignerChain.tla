----------------------------- MODULE SignerChain -----------------------------
(***************************************************************************)
(* The EVM chain as one signing account sees it.  None of this is code of  *)
(* the repository: it is the environment the relayer's RPC client talks    *)
(* to, modelled from how apps/relayer/src/chain reads it.                  *)
(*                                                                         *)
(* A block carries at most one transaction of the signer and the account   *)
(* nonce after it, which is what eth_getTransactionCount answers at that   *)
(* block.  Block hashes are fresh numbers, so a hash determines everything *)
(* below it.  Blocks at or below `durable' (the safe / finalized tag) are  *)
(* never reorganised; anything above may be.                               *)
(*                                                                         *)
(* There is no mempool: a transaction that left the relayer may be mined   *)
(* at any later time or never, which is all that the safety properties can *)
(* rely on.                                                                *)
(***************************************************************************)
EXTENDS Integers, Sequences, FiniteSets

CONSTANTS
    AttemptIds,   \* identities of the transactions this relayer may sign
    Foreign,      \* the identity of a transaction signed elsewhere
    None,         \* absent value (JavaScript null / undefined)
    MaxBlocks,    \* bound: blocks mined after genesis, over all forks
    MaxForeign    \* bound: nonces below which the key is also used elsewhere

ASSUME ChainAssumption ==
    /\ Foreign \notin AttemptIds
    /\ None \notin AttemptIds \cup {Foreign}
    /\ MaxBlocks \in Nat \ {0}
    /\ MaxForeign \in Nat

VARIABLES
    chain,     \* the canonical chain, lowest block first
    minted,    \* the last block hash handed out
    durable,   \* number of the durable block
    escaped    \* every transaction of this relayer that reached the network

chainVars == <<chain, minted, durable, escaped>>

Tx     == [nonce : Nat, id : AttemptIds \cup {Foreign}]
Block  == [hash : Nat, tx : Tx \cup {None}, nonce : Nat]
Anchor == [num : Nat \ {0}, hash : Nat]

\* The absent value is told apart from a transaction and from a block reference.
ASSUME ReferenceAssumption == None \notin Tx /\ None \notin Anchor

\* The block reference (number, hash) of canonical block n.
AnchorOf(n) == [num |-> n, hash |-> chain[n].hash]

\* eth_getBlockByNumber at the anchor's number returns the anchor's hash.
Canonical(a) == a.num <= Len(chain) /\ chain[a.num].hash = a.hash

\* The account nonce at the head of the canonical chain.
LatestNonce == chain[Len(chain)].nonce

ChainTypeOK ==
    /\ chain \in Seq(Block)
    /\ minted \in Nat
    /\ durable \in 1..Len(chain)
    /\ escaped \subseteq Tx

ChainInit ==
    /\ chain = <<[hash |-> 0, tx |-> None, nonce |-> 0]>>
    /\ minted = 0
    /\ durable = 1
    /\ escaped = {}

Extend(tx, nonce) ==
    /\ minted < MaxBlocks
    /\ chain' = Append(chain, [hash |-> minted + 1, tx |-> tx, nonce |-> nonce])
    /\ minted' = minted + 1
    /\ UNCHANGED <<durable, escaped>>

\* A block without the signer, or with one of its executable transactions.
MineEmpty == Extend(None, LatestNonce)
MineOwn   == \E t \in escaped :
                 t.nonce = LatestNonce /\ Extend(t, LatestNonce + 1)

\* The same key is used by another wallet or keeper.  The operator is told not
\* to, and the coordinator has to notice when it happens.  The nonce may also
\* move with no transaction from the account (a signed delegation).
MineForeign ==
    /\ LatestNonce < MaxForeign
    /\ \E t \in {[nonce |-> LatestNonce, id |-> Foreign], None} :
         Extend(t, LatestNonce + 1)

\* Blocks above the durable one are abandoned for another fork, whose blocks
\* the following steps mine.
Reorg ==
    /\ \E k \in durable..(Len(chain) - 1) : chain' = SubSeq(chain, 1, k)
    /\ UNCHANGED <<minted, durable, escaped>>

\* The durable tag moves up.
Finalize ==
    /\ \E d \in (durable + 1)..Len(chain) : durable' = d
    /\ UNCHANGED <<chain, minted, escaped>>

\* A raw transaction reaches the network.
Deliver(t) ==
    /\ escaped' = escaped \cup {t}
    /\ UNCHANGED <<chain, minted, durable>>

ChainNext == MineEmpty \/ MineOwn \/ MineForeign \/ Reorg \/ Finalize
=============================================================================
