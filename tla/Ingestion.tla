------------------------------ MODULE Ingestion ------------------------------
(***************************************************************************)
(* The block and event ingestion of one tick (apps/worker/src/ingest.ts)   *)
(* against the evidence tables (packages/database/src/ingestion.ts), while *)
(* the chain the provider shows goes on and reorganises between any two of *)
(* the tick's reads.                                                       *)
(*                                                                         *)
(* A block is the sequence of fork numbers of its chain, oldest first (see *)
(* EvidenceLog).  Fork n begins with the n-th reorganisation, so an        *)
(* abandoned fork is never taken up again.  Every await is a step          *)
(* boundary; a database transaction is one step.  Two consecutive reads of *)
(* one question (stored block and chain block; transaction and its block)  *)
(* are one step.                                                           *)
(***************************************************************************)
EXTENDS Naturals, Sequences, FiniteSets, SequencesExt

CONSTANTS
    Ingesters,    \* processes that run ticks; the lock means one
    Events,       \* contract events, numbered; a larger number is newer
    PageSize,     \* events read per contract
    MaxBlocks,    \* blocks taken per tick
    MaxRewind,    \* blocks walked back at most
    MaxHeight,    \* bound: height of the chain
    MaxReorgs,    \* bound: reorganisations
    MaxFailures,  \* bound: ticks ended by a provider failure or a crash
    NoBlock

Blocks == UNION {[1..n -> 0..MaxReorgs] : n \in 1..MaxHeight}

ASSUME ConstantsAssumption ==
    /\ Events \subseteq Nat
    /\ {PageSize, MaxBlocks, MaxRewind, MaxReorgs, MaxFailures} \subseteq Nat
    /\ MaxHeight \in Nat \ {0}
    /\ NoBlock \notin Blocks

VARIABLES
    tip,         \* the provider's chain
    mined,       \* the block of that chain that holds each event
    reorgs,      \* reorganisations so far
    failures,    \* failures so far
    blocks,      \* chain_blocks
    canonical,   \* those whose canonical flag is set
    checkpoint,  \* ingestion_checkpoints
    raw,         \* raw_events: block and canonical flag of each stored event
    activity,    \* canonical_activities, likewise
    ingester     \* what each running tick has in hand

chain == <<tip, mined, reorgs>>
evidence == <<blocks, canonical, checkpoint, raw, activity>>
vars == <<chain, failures, evidence, ingester>>

Idle == [pc |-> "idle"]
NoRow == [block |-> NoBlock, canonical |-> FALSE]

Init ==
    /\ tip = <<0>>
    /\ mined = [e \in Events |-> NoBlock]
    /\ reorgs = 0
    /\ failures = 0
    /\ blocks = {} /\ canonical = {} /\ checkpoint = NoBlock
    /\ raw = [e \in Events |-> NoRow]
    /\ activity = [e \in Events |-> NoRow]
    /\ ingester = [p \in Ingesters |-> Idle]

-----------------------------------------------------------------------------
(* The provider's chain.                                                   *)

BlockAt(height) == SubSeq(tip, 1, height)

\* A block is added, with some of the events that wait.
Extend ==
    /\ Len(tip) < MaxHeight
    /\ tip' = Append(tip, reorgs)
    /\ \E now \in SUBSET {e \in Events : mined[e] = NoBlock} :
          mined' = [e \in Events |-> IF e \in now THEN tip' ELSE mined[e]]
    /\ UNCHANGED <<reorgs, failures, evidence, ingester>>

\* The chain above some block is replaced by n blocks of a new fork.
Reorganise ==
    /\ reorgs < MaxReorgs
    /\ reorgs' = reorgs + 1
    /\ \E kept \in 1..(Len(tip) - 1) :
          \E n \in 0..(Len(tip) - kept + 1) :
              /\ kept + n <= MaxHeight
              /\ tip' = BlockAt(kept) \o [i \in 1..n |-> reorgs']
              /\ mined' = [e \in Events |->
                    IF mined[e] # NoBlock /\ Len(mined[e]) > kept
                    THEN NoBlock ELSE mined[e]]
    /\ UNCHANGED <<failures, evidence, ingester>>

-----------------------------------------------------------------------------
(* The evidence tables.                                                    *)

StoredAt(height) == {b \in canonical : Len(b) = height}

\* chain_blocks_one_canonical_per_height rejects a second canonical block.
Conflicts(b) == b \notin blocks /\ StoredAt(Len(b)) # {}

\* Faulty variant: ON CONFLICT (height) DO NOTHING.
InsertBlockByHeight(b) ==
    LET taken == \E c \in blocks : Len(c) = Len(b)
    IN  /\ blocks' = IF taken THEN blocks ELSE blocks \cup {b}
        /\ canonical' = IF taken THEN canonical ELSE canonical \cup {b}

\* INSERT ... ON CONFLICT (hash) DO NOTHING: the flag of a stored block stays.
InsertBlock(b) ==
    /\ blocks' = blocks \cup {b}
    /\ canonical' = IF b \in blocks THEN canonical ELSE canonical \cup {b}

Flagged(rows, orphaned) ==
    [e \in Events |-> IF rows[e].block \in orphaned
                      THEN [rows[e] EXCEPT !.canonical = FALSE] ELSE rows[e]]

Orphaned(height) == {b \in canonical : Len(b) > height}

\* Faulty variant: the ancestor is orphaned with what is above it.
MarkReorgWithAncestor(ancestor) ==
    LET orphaned == Orphaned(Len(ancestor) - 1)
    IN  /\ checkpoint' = ancestor
        /\ canonical' = canonical \ orphaned
        /\ raw' = Flagged(raw, orphaned)
        /\ activity' = Flagged(activity, orphaned)
        /\ UNCHANGED blocks

\* Faulty variant: the activities are forgotten, and so are the blocks.
MarkReorgOfEvents(ancestor) ==
    /\ checkpoint' = ancestor
    /\ raw' = Flagged(raw, Orphaned(Len(ancestor)))
    /\ UNCHANGED <<blocks, canonical, activity>>

\* Faulty variant: the checkpoint stays on the orphaned fork.
MarkReorgInPlace(ancestor) ==
    LET orphaned == Orphaned(Len(ancestor))
    IN  /\ canonical' = canonical \ orphaned
        /\ raw' = Flagged(raw, orphaned)
        /\ activity' = Flagged(activity, orphaned)
        /\ UNCHANGED <<blocks, checkpoint>>

\* markReorg: the flags of the blocks above the ancestor and of everything
\* that hangs on them.
MarkReorg(ancestor) ==
    LET orphaned == Orphaned(Len(ancestor))
    IN  /\ checkpoint' = ancestor
        /\ canonical' = canonical \ orphaned
        /\ raw' = Flagged(raw, orphaned)
        /\ activity' = Flagged(activity, orphaned)
        /\ UNCHANGED blocks

-----------------------------------------------------------------------------
(* ingestBlocks.                                                           *)

Goto(p, record) == ingester' = [ingester EXCEPT ![p] = record]
Done(p) == Goto(p, Idle)
ToEvents(p) == Goto(p, [pc |-> "page"])

ReadTip(p) ==
    /\ ingester[p] = Idle
    /\ Goto(p, [pc |-> "checkpoint", tip |-> tip])
    /\ UNCHANGED <<chain, failures, evidence>>

ReadCheckpoint(p) ==
    LET r == ingester[p] IN
    /\ r.pc = "checkpoint"
    /\ Goto(p, IF checkpoint = NoBlock
               THEN [pc |-> "record", block |-> r.tip, last |-> Len(r.tip)]
               ELSE [pc |-> "compare", top |-> Len(r.tip), cp |-> checkpoint])
    /\ UNCHANGED <<chain, failures, evidence>>

\* A height above the provider's tip is a 404, which ends the tick.
Compare(p) ==
    LET r == ingester[p]
        most == Len(r.cp) + MaxBlocks
    IN
    /\ r.pc = "compare"
    /\ Goto(p,
          IF Len(r.cp) > Len(tip) THEN Idle
          ELSE IF BlockAt(Len(r.cp)) # r.cp
          THEN [pc |-> "rewind", from |-> Len(r.cp), height |-> Len(r.cp) - 1]
          ELSE [pc |-> "fetch", parent |-> r.cp,
                last |-> IF r.top < most THEN r.top ELSE most])
    /\ UNCHANGED <<chain, failures, evidence>>

\* findCommonAncestor, one height at a time; it throws when the walk ends.
WalkBack(p) ==
    LET r == ingester[p]
        walked == r.height <= r.from - 1 - MaxRewind \/ r.height = 0
        agrees == BlockAt(r.height) \in StoredAt(r.height)
    IN
    /\ r.pc = "rewind"
    /\ Goto(p,
          IF walked \/ (StoredAt(r.height) # {} /\ r.height > Len(tip))
          THEN Idle
          ELSE IF r.height <= Len(tip) /\ agrees
          THEN [pc |-> "mark", ancestor |-> BlockAt(r.height)]
          ELSE [r EXCEPT !.height = r.height - 1])
    /\ UNCHANGED <<chain, failures, evidence>>

Rewind(p) ==
    /\ ingester[p].pc = "mark"
    /\ MarkReorg(ingester[p].ancestor)
    /\ ToEvents(p)
    /\ UNCHANGED <<chain, failures>>

\* Faulty variant: the parent is not compared.
ContinuesUnchecked(height, parent) == TRUE

\* The chain's block at this height has the parent the walk came from.
Continues(height, parent) == BlockAt(height - 1) = parent

\* The next block of the walk, which stops when the block has another parent.
FetchBlock(p) ==
    LET r == ingester[p]
        height == Len(r.parent) + 1
    IN
    /\ r.pc = "fetch"
    /\ IF height > r.last THEN ToEvents(p)
       ELSE IF height > Len(tip) THEN Done(p)
       ELSE IF ~Continues(height, r.parent) THEN ToEvents(p)
       ELSE Goto(p, [pc |-> "record", block |-> BlockAt(height),
                     last |-> r.last])
    /\ UNCHANGED <<chain, failures, evidence>>

\* recordBlock's transaction, and the walk goes on from the block.
RecordBlock(p) ==
    LET r == ingester[p] IN
    /\ r.pc = "record"
    /\ IF Conflicts(r.block)
       THEN Done(p) /\ UNCHANGED evidence
       ELSE /\ InsertBlock(r.block)
            /\ checkpoint' = r.block
            /\ Goto(p, [pc |-> "fetch", parent |-> r.block, last |-> r.last])
            /\ UNCHANGED <<raw, activity>>
    /\ UNCHANGED <<chain, failures>>

-----------------------------------------------------------------------------
(* ingestEvents.                                                           *)

\* contractEvents: the newest events of the chain, newest first.
Newer(e, f) ==
    \/ Len(mined[e]) > Len(mined[f])
    \/ Len(mined[e]) = Len(mined[f]) /\ e > f
ContractEvents(page) ==
    LET onChain == {e \in Events : mined[e] # NoBlock}
        older == onChain \ Range(page)
    IN  /\ Range(page) \subseteq onChain
        /\ \A i, j \in DOMAIN page : i < j => Newer(page[i], page[j])
        /\ \A e \in older, i \in DOMAIN page : Newer(page[i], e)
        /\ older # {} => Len(page) = PageSize

ReadPage(p) ==
    /\ ingester[p].pc = "page"
    /\ \E n \in 0..PageSize : \E page \in [1..n -> Events] :
          ContractEvents(page) /\ Goto(p, [pc |-> "event", page |-> page])
    /\ UNCHANGED <<chain, failures, evidence>>

\* The page ends at the first event that is stored; an event whose transaction
\* is not canonical any more is passed over.
LookAtEvent(p) ==
    LET r == ingester[p]
        e == Head(r.page)
    IN
    /\ r.pc = "event"
    /\ IF r.page = <<>> \/ raw[e] # NoRow THEN Done(p)
       ELSE IF mined[e] = NoBlock THEN Goto(p, [r EXCEPT !.page = Tail(@)])
       ELSE Goto(p, [pc |-> "block", page |-> r.page, block |-> mined[e]])
    /\ UNCHANGED <<chain, failures, evidence>>

StoreEventBlock(p) ==
    LET r == ingester[p] IN
    /\ r.pc = "block"
    /\ IF Conflicts(r.block)
       THEN Done(p) /\ UNCHANGED <<blocks, canonical>>
       ELSE InsertBlock(r.block) /\ Goto(p, [r EXCEPT !.pc = "raw"])
    /\ UNCHANGED <<chain, failures, checkpoint, raw, activity>>

\* A new row's canonical flag is set, whatever the flag of its block.
Inserted(rows, e, block) ==
    IF rows[e] # NoRow THEN rows
    ELSE [rows EXCEPT ![e] = [block |-> block, canonical |-> TRUE]]

StoreRawEvent(p) ==
    LET r == ingester[p] IN
    /\ r.pc = "raw"
    /\ raw' = Inserted(raw, Head(r.page), r.block)
    /\ Goto(p, [r EXCEPT !.pc = "activity"])
    /\ UNCHANGED <<chain, failures, blocks, canonical, checkpoint, activity>>

RecordActivity(p) ==
    LET r == ingester[p] IN
    /\ r.pc = "activity"
    /\ activity' = Inserted(activity, Head(r.page), r.block)
    /\ Goto(p, [pc |-> "event", page |-> Tail(r.page)])
    /\ UNCHANGED <<chain, failures, blocks, canonical, checkpoint, raw>>

-----------------------------------------------------------------------------
\* A read fails or the process stops: the tick ends where it is.
Fail(p) ==
    /\ ingester[p] # Idle
    /\ failures < MaxFailures
    /\ failures' = failures + 1
    /\ Done(p)
    /\ UNCHANGED <<chain, evidence>>

Tick(p) ==
    \/ ReadTip(p) \/ ReadCheckpoint(p) \/ Compare(p) \/ WalkBack(p)
    \/ Rewind(p) \/ FetchBlock(p) \/ RecordBlock(p)
    \/ ReadPage(p) \/ LookAtEvent(p) \/ StoreEventBlock(p)
    \/ StoreRawEvent(p) \/ RecordActivity(p)

Next ==
    \/ Extend \/ Reorganise
    \/ \E p \in Ingesters : Tick(p) \/ Fail(p)

Spec == Init /\ [][Next]_vars

\* A tick follows a tick, each goes on until it ends, and the chain grows.
FairSpec ==
    /\ Spec
    /\ \A p \in Ingesters : WF_vars(Tick(p))
    /\ WF_vars(Extend)

-----------------------------------------------------------------------------
Row == [block : Blocks, canonical : BOOLEAN] \cup {NoRow}

TypeOK ==
    /\ tip \in Blocks
    /\ mined \in [Events -> Blocks \cup {NoBlock}]
    /\ reorgs \in 0..MaxReorgs /\ failures \in 0..MaxFailures
    /\ blocks \subseteq Blocks /\ canonical \subseteq blocks
    /\ checkpoint \in blocks \cup {NoBlock}
    /\ raw \in [Events -> Row]
    /\ activity \in [Events -> Row]

\* The checkpoint is a canonical block, and every canonical block one of its
\* ancestors: what the confirmation rule reads as "a canonical block above the
\* transaction" is a block of the same chain (confirmations.ts:68-72).
CanonicalIsOneChain ==
    /\ checkpoint # NoBlock => checkpoint \in canonical
    /\ \A b \in canonical : checkpoint # NoBlock /\ IsPrefix(b, checkpoint)

\* Whatever the chain does between two reads of a tick, the stored blocks and
\* the checkpoint change as applyBlock and applyReorg change them.
Core == INSTANCE EvidenceLog
ImplementsCore == Core!Spec

\* An activity is orphaned with the event it was read from, never before or
\* after it, although the two are written by separate statements, and evidence is
\* only given up with its block.
EvidenceKeepsTogether ==
    \A e \in Events :
        /\ activity[e] # NoRow => activity[e] = raw[e]
        /\ (raw[e] # NoRow /\ ~raw[e].canonical) => raw[e].block \notin canonical

\* "A new block must parent the checkpoint hash" (reorg-ingestion-design.md):
\* the checkpoint moves to a child or back down, also where an event has
\* stored the block before the walk reaches it.
CheckpointContinues ==
    [][(checkpoint # NoBlock /\ checkpoint' # checkpoint) =>
          \/ Front(checkpoint') = checkpoint
          \/ Len(checkpoint') < Len(checkpoint)]_vars

\* Some stored block is on the chain, within the reach of the walk back.
Anchored ==
    checkpoint = NoBlock
        \/ \E b \in canonical :
              IsPrefix(b, tip) /\ Len(b) + MaxRewind >= Len(checkpoint)

\* Once the chain is quiet, ingestion ends at its tip: "the next tick rewinds"
\* and "follows the new fork from there" (ingestion.md:31).
Converges == <>[]Anchored => <>[](checkpoint = tip)

=============================================================================
