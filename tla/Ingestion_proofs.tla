--------------------------- MODULE Ingestion_proofs ---------------------------
(* What is proved of ingestion, for any chain, any events, any number of    *)
(* reorganisations and failures: evidence keeps together, the checkpoint    *)
(* moves as the design says, and, of a chain without events, that the       *)
(* tables are the one chain that applyBlock and applyReorg of core build.   *)
EXTENDS Ingestion, SequenceTheorems, TLAPS

\* Two ticks never run at once: the worker's advisory lock (Topology.tla).
LockMeansOne == \A p, q \in Ingesters : p = q

---------------------------------------------------------------------------
(* Blocks: the sequence of the forks of a block and its ancestors *)

Forks == 0..MaxReorgs

\* A block is a chain of forks that is not empty and not too high.
LEMMA BlocksAreChains ==
  ASSUME NEW b
  PROVE  b \in Blocks <=> b \in Seq(Forks) /\ Len(b) \in 1..MaxHeight
<1>1. ASSUME b \in Blocks PROVE b \in Seq(Forks) /\ Len(b) \in 1..MaxHeight
  <2>1. PICK n \in 1..MaxHeight : b \in [1..n -> Forks]
    BY <1>1 DEF Blocks, Forks
  <2>2. n \in Nat
    BY <2>1, ConstantsAssumption
  <2>3. b \in Seq(Forks) /\ Len(b) = n
    BY <2>1, <2>2, SeqDef
  <2> QED BY <2>1, <2>3
<1>2. ASSUME b \in Seq(Forks), Len(b) \in 1..MaxHeight PROVE b \in Blocks
  <2>1. b \in [1..Len(b) -> Forks]
    BY <1>2, LenProperties
  <2>2. PICK n \in 1..MaxHeight : n = Len(b)
    BY <1>2
  <2> QED BY <2>1, <2>2 DEF Blocks, Forks
<1> QED BY <1>1, <1>2

\* Two blocks of one height with the same ancestors are one.
LEMMA SameChain ==
  ASSUME NEW b \in Blocks, NEW c \in Blocks, Len(b) = Len(c), \A i \in 1..Len(b) : b[i] = c[i]
  PROVE  b = c
BY BlocksAreChains, SeqEqual

\* The block of the chain at a height, and its parent.
LEMMA ChainBlocks ==
  ASSUME tip \in Blocks, NEW h \in 1..Len(tip)
  PROVE  /\ BlockAt(h) \in Blocks /\ Len(BlockAt(h)) = h
         /\ \A i \in 1..h : BlockAt(h)[i] = tip[i]
<1>1. tip \in Seq(Forks) /\ Len(tip) \in 1..MaxHeight /\ h \in Nat /\ MaxHeight \in Nat
  BY BlocksAreChains, ConstantsAssumption
<1>2. \A i \in 1..h : tip[i] \in Forks
  BY <1>1, ElementOfSeq
<1>3. PICK b : b = SubSeq(tip, 1, h)
  OBVIOUS
<1>4. b \in Seq(Forks) /\ Len(b) = h /\ \A i \in 1..h : b[i] = tip[i]
  BY <1>1, <1>2, <1>3, SubSeqProperties
<1>5. b \in Blocks
  BY <1>1, <1>4, BlocksAreChains
<1> QED BY <1>3, <1>4, <1>5 DEF BlockAt

LEMMA Parents ==
  ASSUME NEW b \in Blocks, Len(b) > 1
  PROVE  /\ Front(b) \in Blocks /\ Len(Front(b)) = Len(b) - 1
         /\ \A i \in 1..(Len(b) - 1) : Front(b)[i] = b[i]
<1>1. b \in Seq(Forks) /\ Len(b) \in 1..MaxHeight /\ MaxHeight \in Nat
  BY BlocksAreChains, ConstantsAssumption
<1>2. PICK n \in Nat : n = Len(b) - 1 /\ n \in 1..MaxHeight
  BY <1>1
<1>3. \A i \in 1..n : b[i] \in Forks
  BY <1>1, <1>2, ElementOfSeq
<1>4. PICK f : f = SubSeq(b, 1, n)
  OBVIOUS
<1>5. f \in Seq(Forks) /\ Len(f) = n /\ \A i \in 1..n : f[i] = b[i]
  BY <1>2, <1>3, <1>4, SubSeqProperties
<1>6. f \in Blocks
  BY <1>2, <1>5, BlocksAreChains
<1> QED BY <1>2, <1>4, <1>5, <1>6 DEF Front

\* The parent of the chain's block is the chain's block below.
LEMMA ChainContinues ==
  ASSUME tip \in Blocks, NEW h \in Nat, h > 1, h <= Len(tip)
  PROVE  Front(BlockAt(h)) = BlockAt(h - 1)
<1>1. Len(tip) \in Nat
  BY BlocksAreChains
<1>2. PICK g \in 1..Len(tip) : g = h - 1
  BY <1>1
<1>3. h \in 1..Len(tip)
  BY <1>1
<1>4. /\ BlockAt(h) \in Blocks /\ Len(BlockAt(h)) = h /\ \A i \in 1..h : BlockAt(h)[i] = tip[i]
      /\ BlockAt(g) \in Blocks /\ Len(BlockAt(g)) = g /\ \A i \in 1..g : BlockAt(g)[i] = tip[i]
  BY <1>2, <1>3, ChainBlocks
<1>5. PICK b \in Blocks : b = BlockAt(h)
  BY <1>4
<1>6. PICK c \in Blocks : c = BlockAt(g)
  BY <1>4
<1>7. Front(b) \in Blocks /\ Len(Front(b)) = g /\ \A i \in 1..g : Front(b)[i] = b[i]
  BY <1>2, <1>4, <1>5, Parents
<1>8. \A i \in 1..g : Front(b)[i] = c[i]
  BY <1>2, <1>4, <1>5, <1>6, <1>7
<1>9. Front(b) = c
  BY <1>4, <1>6, <1>7, <1>8, SameChain
<1> QED BY <1>2, <1>5, <1>6, <1>9

---------------------------------------------------------------------------
(* The chain *)

ChainTypes ==
  /\ tip \in Blocks /\ mined \in [Events -> Blocks \cup {NoBlock}]
  /\ reorgs \in 0..MaxReorgs /\ failures \in 0..MaxFailures
  /\ \A i \in 1..Len(tip) : tip[i] <= reorgs

\* A reorganisation keeps the chain up to some height and goes on in a new fork.
LEMMA ReorganisedTip ==
  ASSUME ChainTypes, Reorganise
  PROVE  \E kept \in 1..Len(tip) :
           /\ tip' \in Blocks /\ kept <= Len(tip') /\ Len(tip) \in Nat /\ Len(tip') \in Nat
           /\ \A i \in 1..kept : tip'[i] = tip[i]
           /\ \A i \in 1..Len(tip') : i > kept => tip'[i] = reorgs'
           /\ reorgs' = reorgs + 1 /\ reorgs' \in 0..MaxReorgs
           /\ mined' \in [Events -> Blocks \cup {NoBlock}]
<1>1. reorgs' = reorgs + 1 /\ reorgs' \in Forks
  BY ConstantsAssumption DEF Reorganise, ChainTypes, Forks
<1>2. tip \in Seq(Forks) /\ Len(tip) \in Nat /\ MaxHeight \in Nat
  BY BlocksAreChains, ConstantsAssumption DEF ChainTypes
<1>3. PICK kept \in 1..(Len(tip) - 1) : \E n \in 0..(Len(tip) - kept + 1) :
        /\ kept + n <= MaxHeight
        /\ tip' = BlockAt(kept) \o [i \in 1..n |-> reorgs']
        /\ mined' = [e \in Events |-> IF mined[e] # NoBlock /\ Len(mined[e]) > kept THEN NoBlock ELSE mined[e]]
  BY DEF Reorganise
<1>4. PICK n \in 0..(Len(tip) - kept + 1) :
        /\ kept + n <= MaxHeight
        /\ tip' = BlockAt(kept) \o [i \in 1..n |-> reorgs']
        /\ mined' = [e \in Events |-> IF mined[e] # NoBlock /\ Len(mined[e]) > kept THEN NoBlock ELSE mined[e]]
  BY <1>3
<1>5. kept \in 1..Len(tip) /\ kept \in Nat /\ n \in Nat
  BY <1>2
<1>6. PICK below : below = BlockAt(kept)
  OBVIOUS
<1>7. below \in Seq(Forks) /\ Len(below) = kept /\ \A i \in 1..kept : below[i] = tip[i]
  BY <1>5, <1>6, ChainBlocks, BlocksAreChains DEF ChainTypes
<1>8. PICK above : above = [i \in 1..n |-> reorgs']
  OBVIOUS
<1>9. above \in [1..n -> Forks]
  BY <1>1, <1>8
<1>10. above \in Seq(Forks) /\ Len(above) = n /\ \A i \in 1..n : above[i] = reorgs'
  BY <1>5, <1>8, <1>9, SeqDef
<1>11. /\ tip' \in Seq(Forks) /\ Len(tip') = kept + n
       /\ \A i \in 1..(kept + n) : tip'[i] = IF i <= kept THEN below[i] ELSE above[i - kept]
  <2>1. tip' = below \o above
    BY <1>4, <1>6, <1>8
  <2>2. /\ below \o above \in Seq(Forks)
        /\ Len(below \o above) = Len(below) + Len(above)
        /\ \A i \in 1..(Len(below) + Len(above)) :
             (below \o above)[i] = IF i <= Len(below) THEN below[i] ELSE above[i - Len(below)]
    BY <1>7, <1>10, ConcatProperties
  <2> QED BY <1>7, <1>10, <2>1, <2>2
<1>12. tip' \in Blocks
  <2>1. Len(tip') \in 1..MaxHeight
    BY <1>2, <1>4, <1>5, <1>11
  <2> QED BY <1>11, <2>1, BlocksAreChains
<1>13. \A i \in 1..kept : tip'[i] = tip[i]
  BY <1>5, <1>7, <1>11
<1>14. \A i \in 1..Len(tip') : i > kept => tip'[i] = reorgs'
  BY <1>5, <1>10, <1>11
<1>15. mined' \in [Events -> Blocks \cup {NoBlock}]
  BY <1>4 DEF ChainTypes
<1>16. kept <= Len(tip') /\ Len(tip') \in Nat
  BY <1>5, <1>11
<1> QED BY <1>1, <1>2, <1>5, <1>12, <1>13, <1>14, <1>15, <1>16 DEF Forks

\* A block that is added is of the fork the chain is in.
LEMMA ExtendedTip ==
  ASSUME ChainTypes, Extend
  PROVE  /\ tip' \in Blocks /\ Len(tip) \in Nat /\ Len(tip') = Len(tip) + 1
         /\ \A i \in 1..Len(tip) : tip'[i] = tip[i]
         /\ tip'[Len(tip) + 1] = reorgs /\ reorgs' = reorgs
         /\ mined' \in [Events -> Blocks \cup {NoBlock}]
<1>1. tip \in Seq(Forks) /\ Len(tip) \in Nat /\ Len(tip) < MaxHeight /\ reorgs \in Forks /\ MaxHeight \in Nat
  BY BlocksAreChains, ConstantsAssumption DEF ChainTypes, Extend, Forks
<1>2. tip' = Append(tip, reorgs) /\ reorgs' = reorgs
  BY DEF Extend
<1>3. /\ tip' \in Seq(Forks) /\ Len(tip') = Len(tip) + 1
      /\ \A i \in 1..Len(tip) : tip'[i] = tip[i]
      /\ tip'[Len(tip) + 1] = reorgs
  BY <1>1, <1>2
<1>4. tip' \in Blocks
  BY <1>1, <1>3, BlocksAreChains
<1>5. mined' \in [Events -> Blocks \cup {NoBlock}]
  <2>1. PICK now : mined' = [e \in Events |-> IF e \in now THEN tip' ELSE mined[e]]
    BY DEF Extend
  <2> QED BY <1>4, <2>1 DEF ChainTypes
<1> QED BY <1>1, <1>2, <1>3, <1>4, <1>5

LEMMA ChainKeepsTypes ==
  ASSUME ChainTypes, Extend \/ Reorganise
  PROVE  ChainTypes'
<1>1. failures' \in 0..MaxFailures
  BY DEF ChainTypes, Extend, Reorganise
<1>2. CASE Extend
  <2>1. ASSUME NEW i \in 1..Len(tip') PROVE tip'[i] <= reorgs'
    <3>1. CASE i = Len(tip) + 1
      BY <1>2, <3>1, ExtendedTip DEF ChainTypes
    <3>2. CASE i # Len(tip) + 1
      <4>1. i \in 1..Len(tip)
        BY <1>2, <3>2, ExtendedTip
      <4> QED BY <1>2, <4>1, ExtendedTip DEF ChainTypes
    <3> QED BY <3>1, <3>2
  <2> QED BY <1>1, <1>2, <2>1, ExtendedTip DEF ChainTypes
<1>3. CASE Reorganise
  <2>1. PICK kept \in 1..Len(tip) :
           /\ tip' \in Blocks /\ kept <= Len(tip') /\ Len(tip) \in Nat /\ Len(tip') \in Nat
           /\ \A i \in 1..kept : tip'[i] = tip[i]
           /\ \A i \in 1..Len(tip') : i > kept => tip'[i] = reorgs'
           /\ reorgs' = reorgs + 1 /\ reorgs' \in 0..MaxReorgs
           /\ mined' \in [Events -> Blocks \cup {NoBlock}]
    BY <1>3, ReorganisedTip
  <2>2. ASSUME NEW i \in 1..Len(tip') PROVE tip'[i] <= reorgs'
    <3>1. CASE i > kept
      BY <2>1, <3>1
    <3>2. CASE i <= kept
      <4>1. i \in 1..kept /\ i \in 1..Len(tip)
        BY <2>1, <3>2
      <4>2. tip[i] <= reorgs /\ tip[i] \in Forks
        BY <4>1, BlocksAreChains, ElementOfSeq DEF ChainTypes
      <4> QED BY <2>1, <4>1, <4>2 DEF ChainTypes, Forks
    <3> QED BY <2>1, <3>1, <3>2
  <2> QED BY <1>1, <2>1, <2>2 DEF ChainTypes
<1> QED BY <1>2, <1>3

---------------------------------------------------------------------------
(* What a tick has in hand *)

Hands ==
  [pc : {"idle", "page"}] \cup [pc : {"checkpoint"}, tip : Blocks]
  \cup [pc : {"record"}, block : Blocks, last : Nat] \cup [pc : {"compare"}, top : Nat, cp : Blocks]
  \cup [pc : {"rewind"}, from : Nat, height : Nat] \cup [pc : {"mark"}, ancestor : Blocks]
  \cup [pc : {"fetch"}, parent : Blocks, last : Nat] \cup [pc : {"event"}, page : Seq(Events)]
  \cup [pc : {"block", "raw", "activity"}, page : Seq(Events), block : Blocks]

\* What it holds is what the tables say: nobody else writes them.
Fits(r) ==
  /\ r.pc = "record" => (checkpoint # NoBlock => Front(r.block) = checkpoint)
  /\ r.pc = "compare" => checkpoint # NoBlock /\ r.cp = checkpoint
  /\ r.pc = "rewind" => checkpoint # NoBlock /\ r.height < Len(checkpoint)
  /\ r.pc = "mark" => r.ancestor \in canonical /\ checkpoint # NoBlock /\ Len(r.ancestor) < Len(checkpoint)
  /\ r.pc = "fetch" => r.parent = checkpoint
  /\ r.pc \in {"block", "raw", "activity"} => r.page # <<>>
  /\ r.pc \in {"block", "raw"} => raw[Head(r.page)] = NoRow
  /\ r.pc = "raw" => r.block \in blocks
  /\ r.pc = "activity" => /\ raw[Head(r.page)] = [block |-> r.block, canonical |-> TRUE]
                          /\ activity[Head(r.page)] = NoRow

EvidenceTypes ==
  /\ blocks \in SUBSET Blocks /\ canonical \in SUBSET blocks /\ checkpoint \in blocks \cup {NoBlock}
  /\ raw \in [Events -> Row] /\ activity \in [Events -> Row]
  /\ ingester \in [Ingesters -> Hands]

HandsFit == \A p \in Ingesters : Fits(ingester[p])

\* The block of a stored event is stored.
RowsHaveBlocks == \A e \in Events : raw[e] # NoRow => raw[e].block \in blocks

IngestOK == ChainTypes /\ EvidenceTypes /\ HandsFit /\ RowsHaveBlocks /\ EvidenceKeepsTogether

\* A hand by its step.
LEMMA HandOf ==
  ASSUME NEW r \in Hands
  PROVE  /\ r.pc = "checkpoint" => r.tip \in Blocks
         /\ r.pc = "record" => r.block \in Blocks /\ r.last \in Nat
         /\ r.pc = "compare" => r.top \in Nat /\ r.cp \in Blocks
         /\ r.pc = "rewind" => r \in [pc : {"rewind"}, from : Nat, height : Nat]
         /\ r.pc = "mark" => r.ancestor \in Blocks
         /\ r.pc = "fetch" => r.parent \in Blocks /\ r.last \in Nat
         /\ r.pc = "event" => r \in [pc : {"event"}, page : Seq(Events)]
         /\ r.pc \in {"block", "raw", "activity"}
              => r \in [pc : {"block", "raw", "activity"}, page : Seq(Events), block : Blocks]
BY DEF Hands

LEMMA IngestStarts == Init => IngestOK
<1> SUFFICES ASSUME Init PROVE IngestOK
  OBVIOUS
<1>1. ChainTypes
  <2>1. PICK b : b = <<0>>
    OBVIOUS
  <2>2. b \in Seq(Forks) /\ Len(b) = 1 /\ b[1] = 0
    BY <2>1, ConstantsAssumption DEF Forks
  <2>3. b \in Blocks
    <3>1. 1 \in 1..MaxHeight
      BY ConstantsAssumption
    <3> QED BY <2>2, <3>1, BlocksAreChains
  <2>4. tip = b /\ reorgs = 0 /\ failures = 0 /\ 0 \in 0..MaxReorgs /\ 0 \in 0..MaxFailures
    BY <2>1, ConstantsAssumption DEF Init
  <2>5. \A i \in 1..Len(tip) : tip[i] <= reorgs
    <3>1. Len(tip) = 1 /\ tip[1] = 0 /\ reorgs = 0
      BY <2>2, <2>4
    <3>2. \A i \in 1..1 : i = 1
      OBVIOUS
    <3>3. \A i \in 1..1 : tip[i] = 0
      BY <3>1, <3>2
    <3> QED BY <3>1, <3>3
  <2>6. mined \in [Events -> Blocks \cup {NoBlock}]
    BY DEF Init
  <2> QED BY <2>3, <2>4, <2>5, <2>6 DEF ChainTypes
<1>2. EvidenceTypes /\ HandsFit
  <2>1. Idle \in Hands /\ Idle.pc = "idle"
    BY DEF Idle, Hands
  <2>2. Fits(Idle)
    BY <2>1 DEF Fits
  <2> QED BY <2>1, <2>2 DEF Init, EvidenceTypes, HandsFit, Row, Fits
<1>3. RowsHaveBlocks /\ EvidenceKeepsTogether
  BY DEF Init, RowsHaveBlocks, EvidenceKeepsTogether
<1> QED BY <1>1, <1>2, <1>3 DEF IngestOK

\* The chain moves: the tables and what a tick has in hand stay.
LEMMA ChainKeepsIngest ==
  ASSUME IngestOK, Extend \/ Reorganise
  PROVE  IngestOK'
<1>1. ChainTypes'
  BY ChainKeepsTypes DEF IngestOK
<1>2. UNCHANGED <<blocks, canonical, checkpoint, raw, activity, ingester>>
  BY DEF Extend, Reorganise, evidence
<1> QED BY <1>1, <1>2 DEF IngestOK, EvidenceTypes, HandsFit, Fits, RowsHaveBlocks, EvidenceKeepsTogether

\* A tick that only reads goes on with what fits the tables.
LEMMA ReadingKeepsIngest ==
  ASSUME IngestOK, NEW p \in Ingesters, NEW r \in Hands, Fits(r), Goto(p, r),
         UNCHANGED <<tip, mined, reorgs, blocks, canonical, checkpoint, raw, activity>>, failures' \in 0..MaxFailures
  PROVE  IngestOK'
<1>1. ingester' = [ingester EXCEPT ![p] = r]
  BY DEF Goto
<1>2. ChainTypes' /\ EvidenceTypes'
  BY <1>1 DEF IngestOK, ChainTypes, EvidenceTypes
<1>3. HandsFit'
  <2> SUFFICES ASSUME NEW q \in Ingesters PROVE Fits(ingester[q])'
    BY DEF HandsFit
  <2>1. PICK x : x = ingester'[q]
    OBVIOUS
  <2>2. x = r \/ x = ingester[q]
    BY <1>1, <2>1 DEF IngestOK, EvidenceTypes
  <2>3. Fits(x)
    BY <2>2 DEF IngestOK, HandsFit
  <2>4. Fits(ingester[q])' <=> Fits(x)
    BY <2>1 DEF Fits
  <2> QED BY <2>3, <2>4
<1> QED BY <1>2, <1>3 DEF IngestOK, RowsHaveBlocks, EvidenceKeepsTogether

\* The reads of ingestBlocks.
LEMMA BlockReadsKeepIngest ==
  ASSUME IngestOK, NEW p \in Ingesters,
         ReadTip(p) \/ ReadCheckpoint(p) \/ Compare(p) \/ WalkBack(p) \/ FetchBlock(p)
  PROVE  IngestOK'
<1>1. UNCHANGED <<tip, mined, reorgs, blocks, canonical, checkpoint, raw, activity>> /\ failures' \in 0..MaxFailures
  BY DEF ReadTip, ReadCheckpoint, Compare, WalkBack, FetchBlock, chain, evidence, IngestOK, ChainTypes
<1>2. ASSUME NEW r \in Hands, Fits(r), Goto(p, r) PROVE IngestOK'
  BY <1>1, <1>2, ReadingKeepsIngest
<1>3. PICK h \in Hands : h = ingester[p] /\ Fits(h)
  BY DEF IngestOK, EvidenceTypes, HandsFit
<1>4. tip \in Blocks /\ Len(tip) \in Nat /\ MaxBlocks \in Nat
  BY BlocksAreChains, ConstantsAssumption DEF IngestOK, ChainTypes
<1>5. \A b \in Blocks : Len(b) \in Nat /\ Len(b) >= 1
  BY BlocksAreChains
<1>6. \A k \in {"idle", "page"} : [pc |-> k] \in Hands /\ Fits([pc |-> k])
  BY DEF Hands, Fits
<1>7. Idle \in Hands /\ Fits(Idle)
  BY <1>6 DEF Idle
<1>8. Goto(p, Idle) \/ ToEvents(p) \/ Done(p) => IngestOK'
  BY <1>2, <1>6, <1>7 DEF Done, ToEvents
<1>9. CASE ReadTip(p)
  <2> DEFINE r == [pc |-> "checkpoint", tip |-> tip]
  <2>1. r \in Hands /\ r.pc = "checkpoint"
    BY <1>4 DEF Hands
  <2>2. Goto(p, r)
    BY <1>9 DEF ReadTip
  <2> HIDE DEF r
  <2> QED BY <1>2, <2>1, <2>2 DEF Fits
<1>10. CASE ReadCheckpoint(p)
  <2>1. h.pc = "checkpoint" /\ h.tip \in Blocks
    BY <1>3, <1>10, HandOf DEF ReadCheckpoint
  <2>2. PICK n \in Nat : n = Len(h.tip)
    BY <1>5, <2>1
  <2>3. CASE checkpoint = NoBlock
    <3> DEFINE r == [pc |-> "record", block |-> h.tip, last |-> n]
    <3>1. r \in Hands /\ r.pc = "record"
      BY <2>1 DEF Hands
    <3>2. Goto(p, r)
      BY <1>3, <1>10, <2>2, <2>3 DEF ReadCheckpoint
    <3> HIDE DEF r
    <3> QED BY <1>2, <2>3, <3>1, <3>2 DEF Fits
  <2>4. CASE checkpoint # NoBlock
    <3> DEFINE r == [pc |-> "compare", top |-> n, cp |-> checkpoint]
    <3>1. checkpoint \in Blocks
      BY <2>4 DEF IngestOK, EvidenceTypes
    <3>2. r \in Hands /\ r.pc = "compare" /\ r.cp = checkpoint
      BY <3>1 DEF Hands
    <3>3. Goto(p, r)
      BY <1>3, <1>10, <2>2, <2>4 DEF ReadCheckpoint
    <3> HIDE DEF r
    <3> QED BY <1>2, <2>4, <3>2, <3>3 DEF Fits
  <2> QED BY <2>3, <2>4
<1>11. CASE Compare(p)
  <2>1. h.pc = "compare" /\ h.cp = checkpoint /\ checkpoint # NoBlock /\ checkpoint \in Blocks /\ h.top \in Nat
    BY <1>3, <1>11, HandOf DEF Compare, Fits
  <2>2. PICK n \in Nat : n = Len(h.cp) /\ n >= 1 /\ n = Len(checkpoint)
    BY <1>5, <2>1
  <2>3. PICK most \in Nat : most = n + MaxBlocks
    BY <1>4
  <2>4. PICK last \in Nat : last = IF h.top < most THEN h.top ELSE most
    BY <2>1
  <2>5. CASE n > Len(tip)
    BY <1>3, <1>8, <1>11, <2>2, <2>5 DEF Compare
  <2>6. CASE ~(n > Len(tip)) /\ BlockAt(n) # h.cp
    <3> DEFINE r == [pc |-> "rewind", from |-> n, height |-> n - 1]
    <3>1. r \in Hands /\ r.pc = "rewind" /\ r.height = n - 1
      BY <2>2 DEF Hands
    <3>2. Goto(p, r)
      BY <1>3, <1>11, <2>2, <2>6 DEF Compare
    <3> HIDE DEF r
    <3>3. r.height < Len(checkpoint)
      BY <2>2, <3>1
    <3> QED BY <1>2, <2>1, <3>1, <3>2, <3>3 DEF Fits
  <2>7. CASE ~(n > Len(tip)) /\ BlockAt(n) = h.cp
    <3> DEFINE r == [pc |-> "fetch", parent |-> checkpoint, last |-> last]
    <3>1. r \in Hands /\ r.pc = "fetch" /\ r.parent = checkpoint
      BY <2>1 DEF Hands
    <3>2. Goto(p, r)
      BY <1>3, <1>11, <2>1, <2>2, <2>3, <2>4, <2>7 DEF Compare
    <3> HIDE DEF r
    <3> QED BY <1>2, <2>1, <3>1, <3>2 DEF Fits
  <2> QED BY <2>5, <2>6, <2>7
<1>12. CASE WalkBack(p)
  <2>1. /\ h.pc = "rewind" /\ checkpoint # NoBlock /\ checkpoint \in Blocks /\ h.height < Len(checkpoint)
        /\ h \in [pc : {"rewind"}, from : Nat, height : Nat]
    BY <1>3, <1>12, HandOf DEF WalkBack, Fits, IngestOK, EvidenceTypes
  <2>2. PICK n \in Nat : n = h.height /\ n < Len(checkpoint)
    BY <2>1
  <2>3. \/ Goto(p, Idle)
        \/ n # 0 /\ n <= Len(tip) /\ BlockAt(n) \in StoredAt(n) /\ Goto(p, [pc |-> "mark", ancestor |-> BlockAt(n)])
        \/ n # 0 /\ Goto(p, [h EXCEPT !.height = n - 1])
    BY <1>3, <1>12, <2>2 DEF WalkBack
  <2>4. CASE n # 0 /\ n <= Len(tip) /\ BlockAt(n) \in StoredAt(n) /\ Goto(p, [pc |-> "mark", ancestor |-> BlockAt(n)])
    <3>1. n \in 1..Len(tip)
      BY <1>4, <2>2, <2>4
    <3>2. PICK b \in Blocks : b = BlockAt(n) /\ Len(b) = n /\ b \in canonical
      BY <1>4, <2>4, <3>1, ChainBlocks DEF StoredAt
    <3> DEFINE r == [pc |-> "mark", ancestor |-> b]
    <3>3. r \in Hands /\ r.pc = "mark" /\ r.ancestor = b
      BY DEF Hands
    <3>4. Goto(p, r)
      BY <2>4, <3>2
    <3> HIDE DEF r
    <3> QED BY <1>2, <2>1, <2>2, <3>2, <3>3, <3>4 DEF Fits
  <2>5. CASE n # 0 /\ Goto(p, [h EXCEPT !.height = n - 1])
    <3>1. PICK m \in Nat : m = n - 1
      BY <2>2, <2>5
    <3> DEFINE r == [h EXCEPT !.height = m]
    <3>2. r \in [pc : {"rewind"}, from : Nat, height : Nat] /\ r.height = m
      BY <2>1
    <3>3. r \in Hands /\ r.pc = "rewind"
      BY <3>2 DEF Hands
    <3>4. Goto(p, r)
      BY <2>5, <3>1
    <3> HIDE DEF r
    <3>5. r.height < Len(checkpoint)
      BY <1>5, <2>1, <2>2, <3>1, <3>2
    <3> QED BY <1>2, <2>1, <3>3, <3>4, <3>5 DEF Fits
  <2> QED BY <1>8, <2>3, <2>4, <2>5
<1>13. CASE FetchBlock(p)
  <2>1. h.pc = "fetch" /\ h.parent = checkpoint /\ h.parent \in Blocks /\ h.last \in Nat
    BY <1>3, <1>13, HandOf DEF FetchBlock, Fits
  <2>2. PICK n \in Nat : n = Len(h.parent) + 1 /\ n > 1
    BY <1>5, <2>1
  <2>3. \/ ToEvents(p) \/ Done(p)
        \/ /\ n <= Len(tip) /\ BlockAt(n - 1) = h.parent
           /\ Goto(p, [pc |-> "record", block |-> BlockAt(n), last |-> h.last])
    BY <1>3, <1>4, <1>13, <2>2 DEF FetchBlock, Continues
  <2>4. CASE /\ n <= Len(tip) /\ BlockAt(n - 1) = h.parent
             /\ Goto(p, [pc |-> "record", block |-> BlockAt(n), last |-> h.last])
    <3>1. n \in 1..Len(tip)
      BY <1>4, <2>2, <2>4
    <3>2. PICK b \in Blocks : b = BlockAt(n)
      BY <1>4, <3>1, ChainBlocks
    <3>3. Front(b) = checkpoint
      BY <1>4, <2>1, <2>2, <2>4, <3>2, ChainContinues
    <3> DEFINE r == [pc |-> "record", block |-> b, last |-> h.last]
    <3>4. r \in Hands /\ r.pc = "record" /\ r.block = b
      BY <2>1 DEF Hands
    <3>5. Goto(p, r)
      BY <2>4, <3>2
    <3> HIDE DEF r
    <3> QED BY <1>2, <3>3, <3>4, <3>5 DEF Fits
  <2> QED BY <1>8, <2>3, <2>4
<1> QED BY <1>9, <1>10, <1>11, <1>12, <1>13

\* The reads of ingestEvents, and a tick that ends early.
LEMMA EventReadsKeepIngest ==
  ASSUME IngestOK, NEW p \in Ingesters, ReadPage(p) \/ LookAtEvent(p) \/ Fail(p)
  PROVE  IngestOK'
<1>1. UNCHANGED <<tip, mined, reorgs, blocks, canonical, checkpoint, raw, activity>> /\ failures' \in 0..MaxFailures
  BY ConstantsAssumption DEF ReadPage, LookAtEvent, Fail, chain, evidence, IngestOK, ChainTypes
<1>2. ASSUME NEW r \in Hands, Fits(r), Goto(p, r) PROVE IngestOK'
  BY <1>1, <1>2, ReadingKeepsIngest
<1>3. PICK h \in Hands : h = ingester[p] /\ Fits(h)
  BY DEF IngestOK, EvidenceTypes, HandsFit
<1>4. Idle \in Hands /\ Fits(Idle)
  BY DEF Idle, Hands, Fits
<1>5. CASE Done(p)
  BY <1>2, <1>4, <1>5 DEF Done
<1>6. CASE ReadPage(p)
  <2>1. PICK n \in 0..PageSize : \E page \in [1..n -> Events] : Goto(p, [pc |-> "event", page |-> page])
    BY <1>6 DEF ReadPage
  <2>2. PICK page \in [1..n -> Events] : Goto(p, [pc |-> "event", page |-> page])
    BY <2>1
  <2>3. n \in Nat
    BY <2>1, ConstantsAssumption
  <2>4. page \in Seq(Events)
    BY <2>2, <2>3, SeqDef
  <2> DEFINE r == [pc |-> "event", page |-> page]
  <2>5. r \in Hands /\ r.pc = "event"
    BY <2>4 DEF Hands
  <2>6. Goto(p, r)
    BY <2>2
  <2> HIDE DEF r
  <2> QED BY <1>2, <2>5, <2>6 DEF Fits
<1>7. CASE LookAtEvent(p)
  <2>1. h.pc = "event" /\ h \in [pc : {"event"}, page : Seq(Events)]
    BY <1>3, <1>7, HandOf DEF LookAtEvent
  <2>2. PICK page \in Seq(Events) : page = h.page
    BY <2>1
  <2>3. CASE page = <<>> \/ raw[Head(page)] # NoRow
    BY <1>3, <1>5, <1>7, <2>2, <2>3 DEF LookAtEvent
  <2>4. CASE page # <<>> /\ raw[Head(page)] = NoRow
    <3>1. PICK e \in Events : e = Head(page)
      BY <2>2, <2>4, HeadTailProperties
    <3>2. PICK rest \in Seq(Events) : rest = Tail(page)
      BY <2>2, <2>4, HeadTailProperties
    <3>3. CASE mined[e] = NoBlock
      <4> DEFINE r == [h EXCEPT !.page = rest]
      <4>1. r \in Hands /\ r.pc = "event"
        BY <2>1 DEF Hands
      <4>2. Goto(p, r)
        BY <1>3, <1>7, <2>2, <2>4, <3>1, <3>2, <3>3 DEF LookAtEvent
      <4> HIDE DEF r
      <4> QED BY <1>2, <4>1, <4>2 DEF Fits
    <3>4. CASE mined[e] # NoBlock
      <4>1. PICK b \in Blocks : b = mined[e]
        BY <3>4 DEF IngestOK, ChainTypes
      <4> DEFINE r == [pc |-> "block", page |-> page, block |-> b]
      <4>2. r \in Hands /\ r.pc = "block" /\ r.page = page
        BY <2>2 DEF Hands
      <4>3. Goto(p, r)
        BY <1>3, <1>7, <2>2, <2>4, <3>1, <3>4, <4>1 DEF LookAtEvent
      <4> HIDE DEF r
      <4> QED BY <1>2, <2>4, <4>2, <4>3 DEF Fits
    <3> QED BY <3>3, <3>4
  <2> QED BY <2>3, <2>4
<1> QED BY <1>5, <1>6, <1>7 DEF Fail

\* A tick that writes: it is the only one, so what it goes on with is what has to fit.
LEMMA WritingKeepsIngest ==
  ASSUME LockMeansOne, IngestOK, NEW p \in Ingesters, NEW r \in Hands, Goto(p, r), Fits(r)',
         UNCHANGED <<tip, mined, reorgs, failures>>,
         blocks' \in SUBSET Blocks, canonical' \in SUBSET blocks', checkpoint' \in blocks' \cup {NoBlock},
         raw' \in [Events -> Row], activity' \in [Events -> Row],
         RowsHaveBlocks', EvidenceKeepsTogether'
  PROVE  IngestOK'
<1>1. ingester' = [ingester EXCEPT ![p] = r]
  BY DEF Goto
<1>2. ChainTypes' /\ EvidenceTypes'
  BY <1>1 DEF IngestOK, ChainTypes, EvidenceTypes
<1>3. \A q \in Ingesters : ingester'[q] = r
  BY <1>1 DEF LockMeansOne, IngestOK, EvidenceTypes
<1>4. HandsFit'
  BY <1>3 DEF HandsFit, Fits
<1> QED BY <1>2, <1>4 DEF IngestOK

\* A block is inserted, by the walk or for an event: what is evidence stays so.
LEMMA InsertKeepsEvidence ==
  ASSUME IngestOK, NEW b \in Blocks, InsertBlock(b), UNCHANGED <<raw, activity>>
  PROVE  /\ blocks' \in SUBSET Blocks /\ canonical' \in SUBSET blocks' /\ b \in blocks' /\ blocks \subseteq blocks'
         /\ raw' \in [Events -> Row] /\ activity' \in [Events -> Row]
         /\ RowsHaveBlocks' /\ EvidenceKeepsTogether'
<1>1. blocks' = blocks \cup {b} /\ canonical' = IF b \in blocks THEN canonical ELSE canonical \cup {b}
  BY DEF InsertBlock
<1>2. blocks' \in SUBSET Blocks /\ canonical' \in SUBSET blocks' /\ b \in blocks' /\ blocks \subseteq blocks'
  BY <1>1 DEF IngestOK, EvidenceTypes
<1>3. raw' \in [Events -> Row] /\ activity' \in [Events -> Row]
  BY DEF IngestOK, EvidenceTypes
<1>4. RowsHaveBlocks'
  BY <1>2 DEF IngestOK, RowsHaveBlocks
<1>5. EvidenceKeepsTogether'
  <2>1. ASSUME NEW e \in Events, raw[e] # NoRow, ~raw[e].canonical PROVE raw[e].block \notin canonical'
    BY <1>1, <2>1 DEF IngestOK, RowsHaveBlocks, EvidenceKeepsTogether
  <2> QED BY <2>1 DEF IngestOK, EvidenceKeepsTogether
<1> QED BY <1>2, <1>3, <1>4, <1>5

\* recordBlock.
LEMMA RecordBlockKeepsIngest ==
  ASSUME LockMeansOne, IngestOK, NEW p \in Ingesters, RecordBlock(p)
  PROVE  IngestOK'
<1>1. PICK h \in Hands : h = ingester[p] /\ Fits(h) /\ h.pc = "record" /\ h.block \in Blocks /\ h.last \in Nat
  BY HandOf DEF IngestOK, EvidenceTypes, HandsFit, RecordBlock
<1>2. CASE Conflicts(h.block)
  <2>1. Goto(p, Idle) /\ UNCHANGED <<tip, mined, reorgs, failures, blocks, canonical, checkpoint, raw, activity>>
    BY <1>1, <1>2 DEF RecordBlock, Done, chain, evidence
  <2>2. Idle \in Hands /\ Fits(Idle)
    BY DEF Idle, Hands, Fits
  <2>3. failures' \in 0..MaxFailures
    BY <2>1 DEF IngestOK, ChainTypes
  <2> QED BY <2>1, <2>2, <2>3, ReadingKeepsIngest
<1>3. CASE ~Conflicts(h.block)
  <2> DEFINE r == [pc |-> "fetch", parent |-> h.block, last |-> h.last]
  <2>1. /\ InsertBlock(h.block) /\ checkpoint' = h.block /\ Goto(p, r)
        /\ UNCHANGED <<tip, mined, reorgs, failures, raw, activity>>
    BY <1>1, <1>3 DEF RecordBlock, chain
  <2>2. r \in Hands /\ r.pc = "fetch" /\ r.parent = h.block
    BY <1>1 DEF Hands
  <2> HIDE DEF r
  <2>3. Fits(r)'
    BY <2>1, <2>2 DEF Fits
  <2> QED BY <1>1, <2>1, <2>2, <2>3, InsertKeepsEvidence, WritingKeepsIngest
<1> QED BY <1>2, <1>3

\* recordRawEvent's block, stored ahead of the checkpoint.
LEMMA EventBlockKeepsIngest ==
  ASSUME LockMeansOne, IngestOK, NEW p \in Ingesters, StoreEventBlock(p)
  PROVE  IngestOK'
<1>1. PICK h \in Hands : /\ h = ingester[p] /\ Fits(h) /\ h.pc = "block"
                         /\ h \in [pc : {"block", "raw", "activity"}, page : Seq(Events), block : Blocks]
  BY HandOf DEF IngestOK, EvidenceTypes, HandsFit, StoreEventBlock
<1>2. CASE Conflicts(h.block)
  <2>1. Goto(p, Idle) /\ UNCHANGED <<tip, mined, reorgs, failures, blocks, canonical, checkpoint, raw, activity>>
    BY <1>1, <1>2 DEF StoreEventBlock, Done, chain
  <2>2. Idle \in Hands /\ Fits(Idle)
    BY DEF Idle, Hands, Fits
  <2>3. failures' \in 0..MaxFailures
    BY <2>1 DEF IngestOK, ChainTypes
  <2> QED BY <2>1, <2>2, <2>3, ReadingKeepsIngest
<1>3. CASE ~Conflicts(h.block)
  <2>1. PICK b \in Blocks : b = h.block
    BY <1>1
  <2> DEFINE r == [h EXCEPT !.pc = "raw"]
  <2>2. /\ InsertBlock(b) /\ Goto(p, r)
        /\ UNCHANGED <<tip, mined, reorgs, failures, checkpoint, raw, activity>>
    BY <1>1, <1>3, <2>1 DEF StoreEventBlock, chain
  <2>3. r \in Hands /\ r.pc = "raw" /\ r.page = h.page /\ r.block = b
    BY <1>1, <2>1 DEF Hands
  <2> HIDE DEF r
  <2>4. b \in blocks'
    BY <2>2, InsertKeepsEvidence
  <2>5. Fits(r)'
    BY <1>1, <2>2, <2>3, <2>4 DEF Fits
  <2>6. checkpoint' \in blocks' \cup {NoBlock}
    BY <2>2, InsertKeepsEvidence DEF IngestOK, EvidenceTypes
  <2> QED BY <2>2, <2>3, <2>5, <2>6, InsertKeepsEvidence, WritingKeepsIngest
<1> QED BY <1>2, <1>3

\* The event's row.
LEMMA RawEventKeepsIngest ==
  ASSUME LockMeansOne, IngestOK, NEW p \in Ingesters, StoreRawEvent(p)
  PROVE  IngestOK'
<1>1. PICK h \in Hands : /\ h = ingester[p] /\ Fits(h) /\ h.pc = "raw"
                         /\ h \in [pc : {"block", "raw", "activity"}, page : Seq(Events), block : Blocks]
  BY HandOf DEF IngestOK, EvidenceTypes, HandsFit, StoreRawEvent
<1>2. PICK b \in Blocks : b = h.block /\ b \in blocks
  BY <1>1 DEF Fits
<1>3. PICK page \in Seq(Events) : page = h.page /\ page # <<>>
  BY <1>1 DEF Fits
<1>4. PICK e \in Events : e = Head(page) /\ raw[e] = NoRow
  BY <1>1, <1>3, HeadTailProperties DEF Fits
<1>5. PICK row \in Row : row = [block |-> b, canonical |-> TRUE] /\ row # NoRow /\ row.block = b /\ row.canonical
  <2> DEFINE new == [block |-> b, canonical |-> TRUE]
  <2>1. new \in [block : Blocks, canonical : BOOLEAN]
    BY <1>2
  <2>2. new.block = b /\ new.canonical = TRUE
    OBVIOUS
  <2>3. NoRow.canonical = FALSE
    BY DEF NoRow
  <2>4. new \in Row
    BY <2>1 DEF Row
  <2> HIDE DEF new
  <2>5. new # NoRow
    BY <2>2, <2>3
  <2>6. new.canonical
    BY <2>2
  <2>7. new = [block |-> b, canonical |-> TRUE]
    BY DEF new
  <2> QED BY <2>2, <2>4, <2>5, <2>6, <2>7
<1>6. activity[e] = NoRow
  BY <1>4 DEF IngestOK, EvidenceKeepsTogether
<1> DEFINE r == [h EXCEPT !.pc = "activity"]
<1>7. /\ raw' = [raw EXCEPT ![e] = row] /\ Goto(p, r)
      /\ UNCHANGED <<tip, mined, reorgs, failures, blocks, canonical, checkpoint, activity>>
  BY <1>1, <1>2, <1>3, <1>4, <1>5 DEF StoreRawEvent, Inserted, chain
<1>8. r \in Hands /\ r.pc = "activity" /\ r.page = page /\ r.block = b
  BY <1>1, <1>2, <1>3 DEF Hands
<1> HIDE DEF r
<1>9. raw' \in [Events -> Row] /\ raw'[e] = row /\ \A f \in Events : f # e => raw'[f] = raw[f]
  BY <1>7 DEF IngestOK, EvidenceTypes
<1>10. Fits(r)'
  BY <1>3, <1>4, <1>5, <1>6, <1>7, <1>8, <1>9 DEF Fits
<1>11. RowsHaveBlocks'
  BY <1>2, <1>5, <1>7, <1>9 DEF IngestOK, RowsHaveBlocks
<1>12. EvidenceKeepsTogether'
  BY <1>5, <1>6, <1>7, <1>9 DEF IngestOK, EvidenceKeepsTogether
<1> QED BY <1>7, <1>8, <1>9, <1>10, <1>11, <1>12, WritingKeepsIngest DEF IngestOK, EvidenceTypes

\* The activity read from it, by a statement of its own.
LEMMA ActivityKeepsIngest ==
  ASSUME LockMeansOne, IngestOK, NEW p \in Ingesters, RecordActivity(p)
  PROVE  IngestOK'
<1>1. PICK h \in Hands : /\ h = ingester[p] /\ Fits(h) /\ h.pc = "activity"
                         /\ h \in [pc : {"block", "raw", "activity"}, page : Seq(Events), block : Blocks]
  BY HandOf DEF IngestOK, EvidenceTypes, HandsFit, RecordActivity
<1>2. PICK page \in Seq(Events) : page = h.page /\ page # <<>>
  BY <1>1 DEF Fits
<1>3. PICK e \in Events : e = Head(page)
  BY <1>2, HeadTailProperties
<1>4. PICK rest \in Seq(Events) : rest = Tail(page)
  BY <1>2, HeadTailProperties
<1>5. raw[e] = [block |-> h.block, canonical |-> TRUE] /\ activity[e] = NoRow /\ raw[e] \in Row
  BY <1>1, <1>2, <1>3 DEF Fits, IngestOK, EvidenceTypes
<1>6. PICK row \in Row : row = raw[e]
  BY <1>5
<1> DEFINE r == [pc |-> "event", page |-> rest]
<1>7. /\ activity' = [activity EXCEPT ![e] = row] /\ Goto(p, r)
      /\ UNCHANGED <<tip, mined, reorgs, failures, blocks, canonical, checkpoint, raw>>
  BY <1>1, <1>2, <1>3, <1>4, <1>5, <1>6 DEF RecordActivity, Inserted, chain
<1>8. r \in Hands /\ r.pc = "event"
  BY <1>4 DEF Hands
<1> HIDE DEF r
<1>9. activity' \in [Events -> Row] /\ activity'[e] = raw[e] /\ \A f \in Events : f # e => activity'[f] = activity[f]
  BY <1>6, <1>7 DEF IngestOK, EvidenceTypes
<1>10. Fits(r)'
  BY <1>8 DEF Fits
<1>11. RowsHaveBlocks'
  BY <1>7 DEF IngestOK, RowsHaveBlocks
<1>12. EvidenceKeepsTogether'
  BY <1>7, <1>9 DEF IngestOK, EvidenceKeepsTogether
<1> QED BY <1>7, <1>8, <1>9, <1>10, <1>11, <1>12, WritingKeepsIngest DEF IngestOK, EvidenceTypes

\* markReorg flags the rows of the blocks it gives up, of both tables alike.
LEMMA FlaggedRows ==
  ASSUME NEW rows \in [Events -> Row], NEW orphaned \in SUBSET Blocks
  PROVE  /\ Flagged(rows, orphaned) \in [Events -> Row]
         /\ \A e \in Events :
              /\ rows[e].block \notin orphaned => Flagged(rows, orphaned)[e] = rows[e]
              /\ rows[e].block \in orphaned => ~Flagged(rows, orphaned)[e].canonical
              /\ Flagged(rows, orphaned)[e].block = rows[e].block
              /\ rows[e] = NoRow => Flagged(rows, orphaned)[e] = NoRow
              /\ Flagged(rows, orphaned)[e] # NoRow => rows[e] # NoRow
<1>1. ASSUME NEW e \in Events
      PROVE  /\ Flagged(rows, orphaned)[e] \in Row
             /\ rows[e].block \notin orphaned => Flagged(rows, orphaned)[e] = rows[e]
             /\ rows[e].block \in orphaned => ~Flagged(rows, orphaned)[e].canonical
             /\ Flagged(rows, orphaned)[e].block = rows[e].block
             /\ rows[e] = NoRow => rows[e].block \notin orphaned
  <2>1. PICK row \in Row : row = rows[e]
    OBVIOUS
  <2>2. Flagged(rows, orphaned)[e] = IF row.block \in orphaned THEN [row EXCEPT !.canonical = FALSE] ELSE row
    BY <2>1 DEF Flagged
  <2>3. row = NoRow => row.block \notin orphaned
    BY ConstantsAssumption DEF NoRow
  <2>4. CASE row.block \in orphaned
    <3>1. row \in [block : Blocks, canonical : BOOLEAN]
      BY <2>3, <2>4 DEF Row
    <3> DEFINE flagged == [row EXCEPT !.canonical = FALSE]
    <3>2. flagged \in Row /\ ~flagged.canonical /\ flagged.block = row.block
      BY <3>1 DEF Row
    <3> HIDE DEF flagged
    <3>3. Flagged(rows, orphaned)[e] = flagged
      BY <2>2, <2>4 DEF flagged
    <3> QED BY <2>1, <2>3, <2>4, <3>2, <3>3
  <2>5. CASE row.block \notin orphaned
    BY <2>1, <2>2, <2>3, <2>5
  <2> QED BY <2>4, <2>5
<1>2. Flagged(rows, orphaned) \in [Events -> Row]
  BY <1>1 DEF Flagged
<1>3. \A e \in Events : /\ rows[e] = NoRow => Flagged(rows, orphaned)[e] = NoRow
                        /\ Flagged(rows, orphaned)[e] # NoRow => rows[e] # NoRow
  BY <1>1
<1> QED BY <1>1, <1>2, <1>3

LEMMA RewindKeepsIngest ==
  ASSUME LockMeansOne, IngestOK, NEW p \in Ingesters, Rewind(p)
  PROVE  IngestOK'
<1>1. PICK h \in Hands : h = ingester[p] /\ Fits(h) /\ h.pc = "mark"
  BY DEF IngestOK, EvidenceTypes, HandsFit, Rewind
<1>2. h.ancestor \in canonical
  BY <1>1 DEF Fits
<1>3. PICK orphaned \in SUBSET Blocks : orphaned = Orphaned(Len(h.ancestor)) /\ orphaned \subseteq canonical
  BY DEF Orphaned, IngestOK, EvidenceTypes
<1> DEFINE r == [pc |-> "page"]
<1>4. /\ checkpoint' = h.ancestor /\ canonical' = canonical \ orphaned /\ blocks' = blocks
      /\ raw' = Flagged(raw, orphaned) /\ activity' = Flagged(activity, orphaned)
      /\ Goto(p, r) /\ UNCHANGED <<tip, mined, reorgs, failures>>
  BY <1>1, <1>3 DEF Rewind, MarkReorg, ToEvents, chain
<1>5. r \in Hands /\ r.pc = "page"
  BY DEF Hands
<1> HIDE DEF r
<1>6. Fits(r)'
  BY <1>5 DEF Fits
<1>7. /\ raw \in [Events -> Row] /\ activity \in [Events -> Row]
      /\ blocks' \in SUBSET Blocks /\ canonical' \in SUBSET blocks' /\ checkpoint' \in blocks' \cup {NoBlock}
  BY <1>2, <1>4 DEF IngestOK, EvidenceTypes
<1>8. raw' \in [Events -> Row] /\ activity' \in [Events -> Row]
  BY <1>4, <1>7, FlaggedRows
<1>9. RowsHaveBlocks'
  BY <1>4, <1>7, FlaggedRows DEF IngestOK, RowsHaveBlocks
<1>10. EvidenceKeepsTogether'
  <2> SUFFICES ASSUME NEW e \in Events
               PROVE  /\ activity'[e] # NoRow => activity'[e] = raw'[e]
                      /\ (raw'[e] # NoRow /\ ~raw'[e].canonical) => raw'[e].block \notin canonical'
    BY DEF EvidenceKeepsTogether
  <2>1. activity[e] # NoRow => activity[e] = raw[e]
    BY DEF IngestOK, EvidenceKeepsTogether
  <2>2. activity[e] = raw[e] => activity'[e] = raw'[e]
    BY <1>4 DEF Flagged
  <2>3. activity'[e] # NoRow => activity'[e] = raw'[e]
    BY <1>4, <1>7, <2>1, <2>2, FlaggedRows
  <2>4. CASE raw[e].block \in orphaned
    BY <1>4, <1>7, <2>3, <2>4, FlaggedRows
  <2>5. CASE raw[e].block \notin orphaned
    <3>1. raw'[e] = raw[e]
      BY <1>4, <1>7, <2>5, FlaggedRows
    <3>2. (raw[e] # NoRow /\ ~raw[e].canonical) => raw[e].block \notin canonical
      BY DEF IngestOK, EvidenceKeepsTogether
    <3> QED BY <1>4, <2>3, <3>1, <3>2
  <2> QED BY <2>4, <2>5
<1> QED BY <1>4, <1>5, <1>6, <1>7, <1>8, <1>9, <1>10, WritingKeepsIngest

\* Every step of the chain and of the tick.
LEMMA IngestStep == LockMeansOne /\ IngestOK /\ [Next]_vars => IngestOK'
<1> SUFFICES ASSUME LockMeansOne, IngestOK, [Next]_vars PROVE IngestOK'
  OBVIOUS
<1>1. CASE UNCHANGED vars
  BY <1>1 DEF vars, chain, evidence, IngestOK, ChainTypes, EvidenceTypes, HandsFit, Fits, RowsHaveBlocks,
              EvidenceKeepsTogether
<1>2. ASSUME NEW p \in Ingesters, Tick(p) \/ Fail(p) PROVE IngestOK'
  BY <1>2, BlockReadsKeepIngest, EventReadsKeepIngest, RecordBlockKeepsIngest, EventBlockKeepsIngest,
     RawEventKeepsIngest, ActivityKeepsIngest, RewindKeepsIngest DEF Tick
<1> QED BY <1>1, <1>2, ChainKeepsIngest DEF Next

LEMMA IngestAlways ==
  ASSUME LockMeansOne
  PROVE  Spec => []IngestOK
<1>1. IngestOK /\ [Next]_vars => IngestOK'
  BY IngestStep
<1> QED BY <1>1, IngestStarts, PTL DEF Spec

\* chain_blocks, ingestion_checkpoints, raw_events and activities, and the tick that writes them, keep their types: in
\* particular the checkpoint and the canonical blocks are rows of the table.
THEOREM TablesKeepTheirTypes ==
  ASSUME LockMeansOne
  PROVE  Spec => []TypeOK
<1>1. IngestOK => TypeOK
  BY DEF IngestOK, ChainTypes, EvidenceTypes, TypeOK
<1> QED BY <1>1, IngestAlways, PTL

\* recordRawEvent, recordActivity and markReorg: although the two rows of an event are written by separate statements
\* and the chain and the process may stop in between, an activity is orphaned with its event, and evidence is given up
\* only with its block.
THEOREM EvidenceStaysTogether ==
  ASSUME LockMeansOne
  PROVE  Spec => []EvidenceKeepsTogether
<1>1. IngestOK => EvidenceKeepsTogether
  BY DEF IngestOK
<1> QED BY <1>1, IngestAlways, PTL

\* ingestBlocks: the checkpoint moves to a child of the block it is on, or back down to an ancestor, whatever the
\* chain does between the read of a block and its transaction.
THEOREM CheckpointStaysOnItsChain ==
  ASSUME LockMeansOne
  PROVE  Spec => CheckpointContinues
<1> DEFINE Continued == (checkpoint # NoBlock /\ checkpoint' # checkpoint) =>
                           \/ Front(checkpoint') = checkpoint
                           \/ Len(checkpoint') < Len(checkpoint)
<1>1. IngestOK /\ [Next]_vars => [Continued]_vars
  <2> SUFFICES ASSUME IngestOK, Next, checkpoint # NoBlock, checkpoint' # checkpoint
               PROVE  Front(checkpoint') = checkpoint \/ Len(checkpoint') < Len(checkpoint)
    OBVIOUS
  <2>1. PICK p \in Ingesters : RecordBlock(p) \/ Rewind(p)
    BY DEF Next, Extend, Reorganise, Tick, Fail, ReadTip, ReadCheckpoint, Compare, WalkBack, FetchBlock, ReadPage,
           LookAtEvent, StoreEventBlock, StoreRawEvent, RecordActivity, evidence
  <2>2. Fits(ingester[p])
    BY DEF IngestOK, HandsFit
  <2>3. CASE RecordBlock(p)
    <3>1. ingester[p].pc = "record" /\ checkpoint' = ingester[p].block
      BY <2>3 DEF RecordBlock, evidence
    <3> QED BY <2>2, <3>1 DEF Fits
  <2>4. CASE Rewind(p)
    <3>1. ingester[p].pc = "mark" /\ checkpoint' = ingester[p].ancestor
      BY <2>4 DEF Rewind, MarkReorg
    <3> QED BY <2>2, <3>1 DEF Fits
  <2> QED BY <2>1, <2>3, <2>4
<1>2. IngestOK /\ [Next]_vars => IngestOK'
  BY IngestStep
<1> QED BY <1>1, <1>2, IngestStarts, PTL DEF Spec, CheckpointContinues

---------------------------------------------------------------------------
(* A chain without events: the tables against the chain *)

\* What ingestBlocks writes when no event's block is stored ahead of it.
BlocksOnly == Events = {}

Begins(a, b) == Len(a) <= Len(b) /\ \A i \in 1..Len(a) : a[i] = b[i]

LEMMA BeginsIsPrefix ==
  ASSUME NEW a \in Blocks, NEW b \in Blocks
  PROVE  IsPrefix(a, b) <=> Begins(a, b)
<1>1. a \in Seq(Forks) /\ b \in Seq(Forks)
  BY BlocksAreChains
<1>2. PICK n \in Nat : n = Len(a) /\ n >= 1
  BY BlocksAreChains
<1>3. Len(b) \in Nat
  BY <1>1
<1>4. CASE n <= Len(b)
  <2>1. \A i \in 1..n : a[i] \in Forks /\ b[i] \in Forks
    BY <1>1, <1>2, <1>3, <1>4, ElementOfSeq
  <2>2. PICK f : f = SubSeq(a, 1, n)
    OBVIOUS
  <2>3. PICK g : g = SubSeq(b, 1, n)
    OBVIOUS
  <2>4. f \in Seq(Forks) /\ Len(f) = n /\ \A i \in 1..n : f[i] = a[i]
    BY <1>2, <2>1, <2>2, SubSeqProperties
  <2>5. g \in Seq(Forks) /\ Len(g) = n /\ \A i \in 1..n : g[i] = b[i]
    BY <1>2, <2>1, <2>3, SubSeqProperties
  <2>6. f = g <=> \A i \in 1..n : f[i] = g[i]
    BY <2>4, <2>5, SeqEqual
  <2>7. f = g <=> \A i \in 1..n : a[i] = b[i]
    BY <2>4, <2>5, <2>6
  <2> QED BY <1>2, <1>4, <2>2, <2>3, <2>7 DEF IsPrefix, Begins
<1>5. CASE ~(n <= Len(b))
  BY <1>2, <1>5 DEF IsPrefix, Begins
<1> QED BY <1>4, <1>5

LEMMA BeginsItself ==
  ASSUME NEW b \in Blocks
  PROVE  Begins(b, b)
<1>1. Len(b) \in Nat
  BY BlocksAreChains
<1> QED BY <1>1 DEF Begins

\* Of two beginnings of one block the lower is a beginning of the higher.
LEMMA BeginningsNest ==
  ASSUME NEW a \in Blocks, NEW b \in Blocks, NEW c \in Blocks, Begins(a, c), Begins(b, c), Len(a) <= Len(b)
  PROVE  Begins(a, b)
<1>1. Len(a) \in Nat /\ Len(b) \in Nat
  BY BlocksAreChains
<1>2. ASSUME NEW i \in 1..Len(a) PROVE a[i] = b[i]
  BY <1>1 DEF Begins
<1> QED BY <1>2 DEF Begins

\* A beginning as high as the block is the block.
LEMMA BeginsAtItsHeight ==
  ASSUME NEW a \in Blocks, NEW b \in Blocks, Begins(a, b), Len(b) <= Len(a)
  PROVE  a = b
<1>1. Len(a) \in Nat /\ Len(b) \in Nat /\ Len(a) <= Len(b) /\ \A i \in 1..Len(a) : a[i] = b[i]
  BY BlocksAreChains DEF Begins
<1> QED BY <1>1, SameChain

\* What a parent begins with, its child does.
LEMMA BeginsChild ==
  ASSUME NEW a \in Blocks, NEW b \in Blocks, Front(b) \in Blocks, Begins(a, Front(b))
  PROVE  Begins(a, b)
<1>1. b \in Seq(Forks) /\ Len(a) \in Nat /\ Len(b) \in Nat
  BY BlocksAreChains
<1>2. Len(b) # 1
  <2> SUFFICES ASSUME Len(b) = 1 PROVE FALSE
    OBVIOUS
  <2>1. Front(b) = <<>>
    <3>1. Front(b) = SubSeq(b, 1, 0)
      BY DEF Front
    <3> QED BY <1>1, <3>1, SubSeqProperties, EmptySeq
  <2>2. Len(Front(b)) \in 1..MaxHeight
    BY BlocksAreChains
  <2> QED BY <2>1, <2>2
<1>3. PICK f \in Blocks : f = Front(b) /\ Len(f) = Len(b) - 1 /\ \A i \in 1..(Len(b) - 1) : f[i] = b[i]
  <2>1. PICK n \in 1..MaxHeight : n = Len(b)
    BY BlocksAreChains
  <2>2. MaxHeight \in Nat
    BY ConstantsAssumption
  <2>3. n > 1
    BY <1>2, <2>1, <2>2
  <2> QED BY <2>1, <2>3, Parents
<1>4. Len(a) <= Len(b) - 1 /\ \A i \in 1..Len(a) : a[i] = f[i]
  BY <1>3 DEF Begins
<1>5. \A i \in 1..Len(a) : i \in 1..(Len(b) - 1)
  BY <1>1, <1>4
<1> QED BY <1>1, <1>3, <1>4, <1>5 DEF Begins

\* A block leaves the chain at a height when it is there of an older fork: forks only grow, so the chain never comes
\* back to it.
Leaves(b, i) ==
  /\ i <= Len(tip) + 1
  /\ \A j \in 1..(i - 1) : b[j] = tip[j]
  /\ b[i] < IF i <= Len(tip) THEN tip[i] ELSE reorgs
Dead(b) == \E i \in 1..Len(b) : Leaves(b, i)

\* A block the provider has shown: it is on the chain, or the chain has left it.
Known(b) == Begins(b, tip) \/ Dead(b)

LEMMA NoChainBlockIsDead ==
  ASSUME ChainTypes, NEW b \in Blocks, Begins(b, tip)
  PROVE  ~Dead(b)
<1>1. Len(b) \in Nat /\ Len(tip) \in Nat /\ tip \in Seq(Forks)
  BY BlocksAreChains DEF ChainTypes
<1>2. ASSUME NEW i \in 1..Len(b), Leaves(b, i) PROVE FALSE
  <2>1. i \in 1..Len(tip) /\ b[i] = tip[i]
    BY <1>1 DEF Begins
  <2>2. tip[i] \in Forks
    BY <1>1, <2>1, ElementOfSeq
  <2> QED BY <1>1, <1>2, <2>1, <2>2, ConstantsAssumption DEF Leaves, Forks
<1> QED BY <1>2 DEF Dead

\* What has left the chain stays off it, and what was shown stays known.
LEMMA ChainStaysKnown ==
  ASSUME ChainTypes, Extend \/ Reorganise, NEW b \in Blocks
  PROVE  (Dead(b) => Dead(b)') /\ (Known(b) => Known(b)')
<1>1. /\ b \in Seq(Forks) /\ Len(b) \in Nat /\ tip \in Seq(Forks) /\ Len(tip) \in Nat /\ reorgs \in Nat
      /\ MaxReorgs \in Nat /\ \A i \in 1..Len(tip) : tip[i] <= reorgs /\ tip[i] \in Nat
  <2>1. b \in Seq(Forks) /\ Len(b) \in Nat /\ tip \in Seq(Forks) /\ Len(tip) \in Nat
    BY BlocksAreChains DEF ChainTypes
  <2>2. MaxReorgs \in Nat
    BY ConstantsAssumption
  <2>3. \A i \in 1..Len(tip) : tip[i] \in Forks
    BY <2>1, ElementOfSeq
  <2> QED BY <2>1, <2>2, <2>3 DEF ChainTypes, Forks
<1>2. \A i \in 1..Len(b) : b[i] \in Nat
  <2>1. \A i \in 1..Len(b) : b[i] \in Forks
    BY <1>1, ElementOfSeq
  <2> QED BY <1>1, <2>1 DEF Forks
<1>3. CASE Extend
  <2>1. /\ Len(tip') = Len(tip) + 1 /\ \A i \in 1..Len(tip) : tip'[i] = tip[i]
        /\ tip'[Len(tip) + 1] = reorgs /\ reorgs' = reorgs
    BY <1>3, ExtendedTip
  <2>2. ASSUME NEW i \in 1..Len(b), Leaves(b, i) PROVE Leaves(b, i)'
    <3>1. i <= Len(tip) + 1 /\ (\A j \in 1..(i - 1) : b[j] = tip[j]) /\ b[i] < (IF i <= Len(tip) THEN tip[i] ELSE reorgs)
      BY <2>2 DEF Leaves
    <3>2. \A j \in 1..(i - 1) : b[j] = tip'[j]
      BY <1>1, <2>1, <3>1
    <3>3. b[i] < tip'[i]
      <4>1. CASE i <= Len(tip)
        BY <1>1, <2>1, <3>1, <4>1
      <4>2. CASE i = Len(tip) + 1
        BY <1>1, <2>1, <3>1, <4>2
      <4> QED BY <1>1, <3>1, <4>1, <4>2
    <3>4. i <= Len(tip')
      BY <2>1, <3>1
    <3> QED BY <1>1, <2>1, <3>2, <3>3, <3>4 DEF Leaves
  <2>3. Begins(b, tip) => Begins(b, tip')
    BY <1>1, <2>1 DEF Begins
  <2>4. Begins(b, tip)' <=> Begins(b, tip')
    BY DEF Begins
  <2> QED BY <2>2, <2>3, <2>4 DEF Dead, Known
<1>4. CASE Reorganise
  <2>1. PICK kept \in 1..Len(tip) :
           /\ kept <= Len(tip') /\ Len(tip') \in Nat
           /\ \A i \in 1..kept : tip'[i] = tip[i]
           /\ \A i \in 1..Len(tip') : i > kept => tip'[i] = reorgs'
           /\ reorgs' = reorgs + 1
    BY <1>4, ReorganisedTip
  <2>2. kept \in Nat /\ kept >= 1 /\ kept <= Len(tip)
    BY <1>1
  <2>3. ASSUME kept + 1 <= Len(b), \A j \in 1..kept : b[j] = tip[j], b[kept + 1] <= reorgs PROVE Dead(b)'
    <3>1. PICK k \in 1..Len(b) : k = kept + 1
      BY <1>1, <2>2, <2>3
    <3>2. k <= Len(tip') + 1
      BY <2>1, <2>2, <3>1
    <3>3. \A j \in 1..(k - 1) : b[j] = tip'[j]
      BY <2>1, <2>2, <2>3, <3>1
    <3>4. b[k] < IF k <= Len(tip') THEN tip'[k] ELSE reorgs'
      <4>1. b[k] < reorgs'
        BY <1>1, <1>2, <2>1, <2>3, <3>1
      <4>2. k <= Len(tip') => tip'[k] = reorgs'
        BY <2>1, <2>2, <3>1
      <4> QED BY <4>1, <4>2
    <3> QED BY <3>2, <3>3, <3>4 DEF Dead, Leaves
  <2>4. ASSUME NEW i \in 1..Len(b), Leaves(b, i) PROVE Dead(b)'
    <3>1. i <= Len(tip) + 1 /\ (\A j \in 1..(i - 1) : b[j] = tip[j]) /\ b[i] < (IF i <= Len(tip) THEN tip[i] ELSE reorgs)
      BY <2>4 DEF Leaves
    <3>2. CASE i <= kept
      <4>1. \A j \in 1..(i - 1) : b[j] = tip'[j]
        BY <1>1, <2>1, <2>2, <3>1, <3>2
      <4>2. i <= Len(tip') /\ tip'[i] = tip[i] /\ i <= Len(tip)
        BY <2>1, <2>2, <3>2
      <4> QED BY <2>1, <3>1, <4>1, <4>2 DEF Dead, Leaves
    <3>3. CASE i > kept
      <4>1. kept + 1 <= Len(b) /\ \A j \in 1..kept : b[j] = tip[j]
        BY <1>1, <2>2, <3>1, <3>3
      <4>2. b[kept + 1] <= reorgs
        <5>1. CASE i = kept + 1
          BY <1>1, <1>2, <2>2, <3>1, <5>1
        <5>2. CASE i > kept + 1
          <6>1. kept + 1 \in 1..(i - 1) /\ kept + 1 \in 1..Len(tip)
            BY <1>1, <2>2, <3>1, <5>2
          <6> QED BY <1>1, <3>1, <6>1
        <5> QED BY <2>2, <3>3, <5>1, <5>2
      <4> QED BY <2>3, <4>1, <4>2
    <3> QED BY <2>2, <3>2, <3>3
  <2>5. ASSUME Begins(b, tip) PROVE Known(b)'
    <3>1. Len(b) <= Len(tip) /\ \A j \in 1..Len(b) : b[j] = tip[j]
      BY <2>5 DEF Begins
    <3>2. CASE Len(b) <= kept
      <4>1. Begins(b, tip')
        BY <1>1, <2>1, <2>2, <3>1, <3>2 DEF Begins
      <4> QED BY <4>1 DEF Known, Begins
    <3>3. CASE Len(b) > kept
      <4>1. kept + 1 \in 1..Len(b) /\ kept + 1 \in 1..Len(tip)
        BY <1>1, <2>2, <3>1, <3>3
      <4>2. b[kept + 1] <= reorgs /\ \A j \in 1..kept : b[j] = tip[j]
        BY <1>1, <2>2, <3>1, <4>1
      <4> QED BY <1>1, <2>2, <2>3, <3>3, <4>1, <4>2 DEF Known
    <3> QED BY <1>1, <2>2, <3>2, <3>3
  <2> QED BY <2>4, <2>5 DEF Dead, Known
<1> QED BY <1>3, <1>4

\* Every stored block was shown; those without a flag the chain has left.
BlocksShown ==
  /\ \A b \in blocks : Known(b)
  /\ \A b \in blocks \ canonical : Dead(b)
  /\ checkpoint = NoBlock => blocks = {}

OneChain ==
  /\ checkpoint # NoBlock => checkpoint \in canonical
  /\ \A b \in canonical : checkpoint # NoBlock /\ Begins(b, checkpoint)

\* What the tick has seen of the chain: the block it records was shown and has no orphaned row, and all the canonical
\* blocks it has walked past the chain has left.
Saw(r) ==
  /\ r.pc = "checkpoint" => Known(r.tip)
  /\ r.pc = "record" => Known(r.block) /\ (r.block \in blocks => r.block \in canonical)
  /\ r.pc = "rewind" => \A c \in canonical : Len(c) > r.height => Dead(c)
  /\ r.pc = "mark" => \A c \in canonical : Len(c) > Len(r.ancestor) => Dead(c)

ChainFollowed == BlocksShown /\ OneChain /\ \A p \in Ingesters : Saw(ingester[p])

LEMMA OneChainIsCanonical == IngestOK => (OneChain <=> CanonicalIsOneChain)
<1> SUFFICES ASSUME IngestOK PROVE OneChain <=> CanonicalIsOneChain
  OBVIOUS
<1>1. \A b \in canonical : b \in Blocks
  BY DEF IngestOK, EvidenceTypes
<1>2. checkpoint # NoBlock => checkpoint \in Blocks
  BY DEF IngestOK, EvidenceTypes
<1>3. ASSUME NEW b \in canonical, checkpoint # NoBlock PROVE IsPrefix(b, checkpoint) <=> Begins(b, checkpoint)
  BY <1>1, <1>2, <1>3, BeginsIsPrefix
<1> QED BY <1>3 DEF OneChain, CanonicalIsOneChain

LEMMA FollowingStarts == Init => ChainFollowed
<1> SUFFICES ASSUME Init PROVE ChainFollowed
  OBVIOUS
<1>1. Saw(Idle)
  BY DEF Saw, Idle
<1>2. ASSUME NEW p \in Ingesters PROVE Saw(ingester[p])
  <2>1. ingester[p] = Idle
    BY DEF Init
  <2> QED BY <1>1, <2>1
<1>3. BlocksShown /\ OneChain
  BY DEF Init, BlocksShown, OneChain
<1> QED BY <1>2, <1>3 DEF ChainFollowed

\* The chain moves: what was known of it stays so.
LEMMA ChainKeepsFollowing ==
  ASSUME IngestOK, ChainFollowed, Extend \/ Reorganise
  PROVE  ChainFollowed'
<1>1. UNCHANGED <<blocks, canonical, checkpoint, ingester>>
  BY DEF Extend, Reorganise, evidence
<1>2. \A b \in Blocks : (Dead(b) => Dead(b)') /\ (Known(b) => Known(b)')
  BY ChainStaysKnown DEF IngestOK
<1>3. \A b \in blocks : b \in Blocks
  BY DEF IngestOK, EvidenceTypes
<1>4. BlocksShown'
  BY <1>1, <1>2, <1>3 DEF ChainFollowed, BlocksShown
<1>5. OneChain'
  BY <1>1 DEF ChainFollowed, OneChain, Begins
<1>6. ASSUME NEW p \in Ingesters PROVE Saw(ingester[p])'
  <2>1. PICK h \in Hands : h = ingester[p]
    BY DEF IngestOK, EvidenceTypes
  <2>2. Saw(h)
    BY <2>1 DEF ChainFollowed
  <2>3. (h.pc = "checkpoint" => h.tip \in Blocks) /\ (h.pc = "record" => h.block \in Blocks)
    BY <2>1, HandOf
  <2>4. \A c \in canonical : c \in Blocks
    BY DEF IngestOK, EvidenceTypes
  <2>5. h.pc = "checkpoint" => Known(h.tip)'
    BY <1>2, <2>2, <2>3 DEF Saw
  <2>6. h.pc = "record" => Known(h.block)' /\ (h.block \in blocks' => h.block \in canonical')
    BY <1>1, <1>2, <2>2, <2>3 DEF Saw
  <2>7. h.pc = "rewind" => \A c \in canonical' : Len(c) > h.height => Dead(c)'
    BY <1>1, <1>2, <2>2, <2>4 DEF Saw
  <2>8. h.pc = "mark" => \A c \in canonical' : Len(c) > Len(h.ancestor) => Dead(c)'
    BY <1>1, <1>2, <2>2, <2>4 DEF Saw
  <2>9. Saw(h)'
    BY <2>5, <2>6, <2>7, <2>8 DEF Saw
  <2>10. ingester'[p] = h
    BY <1>1, <2>1
  <2> QED BY <2>9, <2>10 DEF Saw
<1> QED BY <1>4, <1>5, <1>6 DEF ChainFollowed

\* A tick goes on with what it saw, and nobody else runs.
LEMMA TickKeepsFollowing ==
  ASSUME LockMeansOne, IngestOK, NEW p \in Ingesters, NEW r, Goto(p, r), Saw(r)', BlocksShown', OneChain'
  PROVE  ChainFollowed'
<1>1. ingester' = [ingester EXCEPT ![p] = r]
  BY DEF Goto
<1>2. ASSUME NEW q \in Ingesters PROVE Saw(ingester[q])'
  <2>1. ingester'[q] = r
    BY <1>1 DEF LockMeansOne, IngestOK, EvidenceTypes
  <2> QED BY <2>1 DEF Saw
<1> QED BY <1>2 DEF ChainFollowed

LEMMA QuietChain ==
  ASSUME UNCHANGED <<tip, reorgs>>, NEW b
  PROVE  (Known(b)' <=> Known(b)) /\ (Dead(b)' <=> Dead(b))
BY DEF Known, Dead, Begins, Leaves

LEMMA ReadingKeepsFollowing ==
  ASSUME LockMeansOne, IngestOK, ChainFollowed, NEW p \in Ingesters, NEW r, Goto(p, r), Saw(r),
         UNCHANGED <<tip, reorgs, blocks, canonical, checkpoint>>
  PROVE  ChainFollowed'
<1>1. \A b : (Known(b)' <=> Known(b)) /\ (Dead(b)' <=> Dead(b))
  BY QuietChain
<1>2. BlocksShown'
  BY <1>1 DEF ChainFollowed, BlocksShown
<1>3. OneChain'
  BY DEF ChainFollowed, OneChain, Begins
<1>4. Saw(r)'
  BY <1>1 DEF Saw
<1> QED BY <1>2, <1>3, <1>4, TickKeepsFollowing

\* A block of the chain that is stored is canonical.
LEMMA ChainBlocksAreCanonical ==
  ASSUME IngestOK, ChainFollowed, NEW b \in blocks, Begins(b, tip)
  PROVE  b \in canonical
<1>1. b \in Blocks
  BY DEF IngestOK, EvidenceTypes
<1>2. ~Dead(b)
  BY <1>1, NoChainBlockIsDead DEF IngestOK
<1> QED BY <1>2 DEF ChainFollowed, BlocksShown

\* A canonical block that the chain does not have at its height, the chain has left.
LEMMA OffTheChain ==
  ASSUME IngestOK, ChainFollowed, NEW c \in canonical, NEW h \in 1..Len(tip), Len(c) = h, c # BlockAt(h)
  PROVE  Dead(c)
<1>1. c \in blocks /\ c \in Blocks /\ tip \in Blocks
  BY DEF IngestOK, EvidenceTypes, ChainTypes
<1>2. Known(c)
  BY <1>1 DEF ChainFollowed, BlocksShown
<1>3. BlockAt(h) \in Blocks /\ Len(BlockAt(h)) = h /\ \A i \in 1..h : BlockAt(h)[i] = tip[i]
  BY <1>1, ChainBlocks
<1>4. ASSUME Begins(c, tip) PROVE FALSE
  <2>1. \A i \in 1..h : c[i] = BlockAt(h)[i]
    BY <1>3, <1>4 DEF Begins
  <2> QED BY <1>1, <1>3, <2>1, SameChain
<1> QED BY <1>2, <1>4 DEF Known

\* The reads of ingestBlocks, and a tick that ends early.
LEMMA BlockReadsKeepFollowing ==
  ASSUME LockMeansOne, IngestOK, ChainFollowed, NEW p \in Ingesters,
         ReadTip(p) \/ ReadCheckpoint(p) \/ Compare(p) \/ WalkBack(p) \/ FetchBlock(p) \/ Fail(p)
  PROVE  ChainFollowed'
<1>1. UNCHANGED <<tip, reorgs, blocks, canonical, checkpoint>>
  BY DEF ReadTip, ReadCheckpoint, Compare, WalkBack, FetchBlock, Fail, chain, evidence
<1>2. ASSUME NEW r, Saw(r), Goto(p, r) PROVE ChainFollowed'
  BY <1>1, <1>2, ReadingKeepsFollowing
<1>3. PICK h \in Hands : h = ingester[p] /\ Fits(h) /\ Saw(h)
  BY DEF IngestOK, EvidenceTypes, HandsFit, ChainFollowed
<1>4. tip \in Blocks /\ Len(tip) \in Nat /\ MaxBlocks \in Nat
  BY BlocksAreChains, ConstantsAssumption DEF IngestOK, ChainTypes
<1>5. \A b \in Blocks : Len(b) \in Nat /\ Len(b) >= 1
  BY BlocksAreChains
<1>6. \A k \in {"idle", "page"} : Saw([pc |-> k])
  BY DEF Saw
<1>7. Goto(p, Idle) \/ ToEvents(p) \/ Done(p) => ChainFollowed'
  BY <1>2, <1>6 DEF Done, ToEvents, Idle
<1>8. CASE ReadTip(p)
  <2>1. Known(tip)
    BY <1>4, BeginsItself DEF Known
  <2> DEFINE r == [pc |-> "checkpoint", tip |-> tip]
  <2>2. r.pc = "checkpoint" /\ r.tip = tip /\ Goto(p, r)
    BY <1>8 DEF ReadTip
  <2> HIDE DEF r
  <2> QED BY <1>2, <2>1, <2>2 DEF Saw
<1>9. CASE ReadCheckpoint(p)
  <2>1. h.pc = "checkpoint" /\ h.tip \in Blocks /\ Known(h.tip)
    BY <1>3, <1>9, HandOf DEF ReadCheckpoint, Saw
  <2>2. PICK n \in Nat : n = Len(h.tip)
    BY <1>5, <2>1
  <2>3. CASE checkpoint = NoBlock
    <3> DEFINE r == [pc |-> "record", block |-> h.tip, last |-> n]
    <3>1. r.pc = "record" /\ r.block = h.tip
      OBVIOUS
    <3>2. Goto(p, r)
      BY <1>3, <1>9, <2>2, <2>3 DEF ReadCheckpoint
    <3> HIDE DEF r
    <3>3. blocks = {}
      BY <2>3 DEF ChainFollowed, BlocksShown
    <3> QED BY <1>2, <2>1, <3>1, <3>2, <3>3 DEF Saw
  <2>4. CASE checkpoint # NoBlock
    <3> DEFINE r == [pc |-> "compare", top |-> n, cp |-> checkpoint]
    <3>1. r.pc = "compare"
      OBVIOUS
    <3>2. Goto(p, r)
      BY <1>3, <1>9, <2>2, <2>4 DEF ReadCheckpoint
    <3> HIDE DEF r
    <3> QED BY <1>2, <3>1, <3>2 DEF Saw
  <2> QED BY <2>3, <2>4
<1>10. CASE Compare(p)
  <2>1. h.pc = "compare" /\ h.cp = checkpoint /\ checkpoint # NoBlock /\ checkpoint \in Blocks /\ h.top \in Nat
    BY <1>3, <1>10, HandOf DEF Compare, Fits
  <2>2. PICK n \in Nat : n = Len(h.cp) /\ n >= 1 /\ n = Len(checkpoint)
    BY <1>5, <2>1
  <2>3. PICK most \in Nat : most = n + MaxBlocks
    BY <1>4
  <2>4. PICK last \in Nat : last = IF h.top < most THEN h.top ELSE most
    BY <2>1
  <2>5. CASE n > Len(tip)
    BY <1>3, <1>7, <1>10, <2>2, <2>5 DEF Compare
  <2>6. CASE ~(n > Len(tip)) /\ BlockAt(n) # h.cp
    <3> DEFINE r == [pc |-> "rewind", from |-> n, height |-> n - 1]
    <3>1. r.pc = "rewind" /\ r.height = n - 1
      OBVIOUS
    <3>2. Goto(p, r)
      BY <1>3, <1>10, <2>2, <2>6 DEF Compare
    <3> HIDE DEF r
    <3>3. ASSUME NEW c \in canonical, Len(c) > n - 1 PROVE Dead(c)
      <4>1. c \in Blocks /\ Begins(c, checkpoint)
        BY DEF IngestOK, EvidenceTypes, ChainFollowed, OneChain
      <4>2. Len(c) \in Nat /\ Len(c) >= n
        BY <1>5, <2>2, <3>3, <4>1
      <4>3. c = checkpoint
        BY <2>1, <2>2, <4>1, <4>2, BeginsAtItsHeight
      <4>4. n \in 1..Len(tip)
        BY <1>4, <2>2, <2>6
      <4> QED BY <2>1, <2>2, <2>6, <4>3, <4>4, OffTheChain
    <3> QED BY <1>2, <3>1, <3>2, <3>3 DEF Saw
  <2>7. CASE ~(n > Len(tip)) /\ BlockAt(n) = h.cp
    <3> DEFINE r == [pc |-> "fetch", parent |-> checkpoint, last |-> last]
    <3>1. r.pc = "fetch"
      OBVIOUS
    <3>2. Goto(p, r)
      BY <1>3, <1>10, <2>1, <2>2, <2>3, <2>4, <2>7 DEF Compare
    <3> HIDE DEF r
    <3> QED BY <1>2, <3>1, <3>2 DEF Saw
  <2> QED BY <2>5, <2>6, <2>7
<1>11. CASE WalkBack(p)
  <2>1. h.pc = "rewind" /\ h \in [pc : {"rewind"}, from : Nat, height : Nat]
    BY <1>3, <1>11, HandOf DEF WalkBack
  <2>2. PICK n \in Nat : n = h.height
    BY <2>1
  <2>3. \A c \in canonical : Len(c) > n => Dead(c)
    BY <1>3, <2>1, <2>2 DEF Saw
  <2>4. \/ Goto(p, Idle)
        \/ n # 0 /\ n <= Len(tip) /\ Goto(p, [pc |-> "mark", ancestor |-> BlockAt(n)])
        \/ /\ n # 0 /\ ~(StoredAt(n) # {} /\ n > Len(tip)) /\ ~(n <= Len(tip) /\ BlockAt(n) \in StoredAt(n))
           /\ Goto(p, [h EXCEPT !.height = n - 1])
    BY <1>3, <1>11, <2>2 DEF WalkBack
  <2>5. CASE n # 0 /\ n <= Len(tip) /\ Goto(p, [pc |-> "mark", ancestor |-> BlockAt(n)])
    <3>1. n \in 1..Len(tip)
      BY <1>4, <2>2, <2>5
    <3>2. PICK b \in Blocks : b = BlockAt(n) /\ Len(b) = n
      BY <1>4, <3>1, ChainBlocks
    <3> DEFINE r == [pc |-> "mark", ancestor |-> b]
    <3>3. r.pc = "mark" /\ r.ancestor = b /\ Goto(p, r)
      BY <2>5, <3>2
    <3> HIDE DEF r
    <3> QED BY <1>2, <2>3, <3>2, <3>3 DEF Saw
  <2>6. CASE /\ n # 0 /\ ~(StoredAt(n) # {} /\ n > Len(tip)) /\ ~(n <= Len(tip) /\ BlockAt(n) \in StoredAt(n))
             /\ Goto(p, [h EXCEPT !.height = n - 1])
    <3>1. PICK m \in Nat : m = n - 1
      BY <2>2, <2>6
    <3> DEFINE r == [h EXCEPT !.height = m]
    <3>2. r \in [pc : {"rewind"}, from : Nat, height : Nat] /\ r.height = m
      BY <2>1
    <3>3. r.pc = "rewind" /\ Goto(p, r)
      BY <2>6, <3>1, <3>2
    <3> HIDE DEF r
    <3>4. ASSUME NEW c \in canonical, Len(c) > m PROVE Dead(c)
      <4>1. c \in Blocks
        BY DEF IngestOK, EvidenceTypes
      <4>2. Len(c) \in Nat
        BY <1>5, <4>1
      <4>3. CASE Len(c) > n
        BY <2>3, <4>3
      <4>4. CASE Len(c) = n
        <5>1. c \in StoredAt(n)
          BY <4>4 DEF StoredAt
        <5>2. n <= Len(tip) /\ c # BlockAt(n)
          BY <1>4, <2>6, <5>1
        <5>3. n \in 1..Len(tip)
          BY <1>4, <2>2, <2>6, <5>2
        <5> QED BY <4>4, <5>2, <5>3, OffTheChain
      <4> QED BY <2>2, <3>1, <3>4, <4>2, <4>3, <4>4
    <3> QED BY <1>2, <3>2, <3>3, <3>4 DEF Saw
  <2> QED BY <1>7, <2>4, <2>5, <2>6
<1>12. CASE FetchBlock(p)
  <2>1. h.pc = "fetch" /\ h.parent \in Blocks /\ h.last \in Nat
    BY <1>3, <1>12, HandOf DEF FetchBlock
  <2>2. PICK n \in Nat : n = Len(h.parent) + 1 /\ n > 1
    BY <1>5, <2>1
  <2>3. \/ ToEvents(p) \/ Done(p)
        \/ n <= Len(tip) /\ Goto(p, [pc |-> "record", block |-> BlockAt(n), last |-> h.last])
    BY <1>3, <1>4, <1>12, <2>2 DEF FetchBlock
  <2>4. CASE n <= Len(tip) /\ Goto(p, [pc |-> "record", block |-> BlockAt(n), last |-> h.last])
    <3>1. n \in 1..Len(tip)
      BY <1>4, <2>2, <2>4
    <3>2. PICK b \in Blocks : b = BlockAt(n) /\ Len(b) = n /\ \A i \in 1..n : b[i] = tip[i]
      BY <1>4, <3>1, ChainBlocks
    <3>3. Begins(b, tip)
      BY <2>4, <3>2 DEF Begins
    <3>4. Known(b) /\ (b \in blocks => b \in canonical)
      BY <3>3, ChainBlocksAreCanonical DEF Known
    <3> DEFINE r == [pc |-> "record", block |-> b, last |-> h.last]
    <3>5. r.pc = "record" /\ r.block = b
      OBVIOUS
    <3>6. Goto(p, r)
      BY <2>4, <3>2
    <3> HIDE DEF r
    <3> QED BY <1>2, <3>4, <3>5, <3>6 DEF Saw
  <2> QED BY <1>7, <2>3, <2>4
<1>13. CASE Fail(p)
  BY <1>7, <1>13 DEF Fail
<1> QED BY <1>8, <1>9, <1>10, <1>11, <1>12, <1>13

\* recordBlock: what the tables become, and that core's applyBlock makes them so.
LEMMA RecordKeepsFollowing ==
  ASSUME LockMeansOne, IngestOK, ChainFollowed, NEW p \in Ingesters, RecordBlock(p)
  PROVE  ChainFollowed' /\ (Core!ApplyBlock(checkpoint') \/ UNCHANGED Core!vars)
<1>1. PICK h \in Hands : /\ h = ingester[p] /\ Fits(h) /\ Saw(h) /\ h.pc = "record"
                         /\ h.block \in Blocks /\ h.last \in Nat
  BY HandOf DEF IngestOK, EvidenceTypes, HandsFit, ChainFollowed, RecordBlock
<1>2. CASE Conflicts(h.block)
  <2>1. Goto(p, Idle) /\ UNCHANGED <<tip, reorgs, blocks, canonical, checkpoint>>
    BY <1>1, <1>2 DEF RecordBlock, Done, chain, evidence
  <2>2. Saw(Idle)
    BY DEF Saw, Idle
  <2>3. ChainFollowed'
    BY <2>1, <2>2, ReadingKeepsFollowing
  <2> QED BY <2>1, <2>3 DEF Core!vars
<1>3. CASE ~Conflicts(h.block)
  <2>1. PICK b \in Blocks : b = h.block
    BY <1>1
  <2>2. Known(b) /\ (b \in blocks => b \in canonical) /\ (checkpoint # NoBlock => Front(b) = checkpoint)
    BY <1>1, <2>1 DEF Saw, Fits
  <2> DEFINE r == [pc |-> "fetch", parent |-> b, last |-> h.last]
  <2>3. InsertBlock(b) /\ checkpoint' = b /\ Goto(p, r) /\ UNCHANGED <<tip, reorgs>>
    BY <1>1, <1>3, <2>1 DEF RecordBlock, chain
  <2>4. r.pc = "fetch"
    OBVIOUS
  <2> HIDE DEF r
  <2>5. blocks' = blocks \cup {b} /\ canonical' = canonical \cup {b}
    BY <2>2, <2>3 DEF InsertBlock
  <2>6. \A c : (Known(c)' <=> Known(c)) /\ (Dead(c)' <=> Dead(c))
    BY <2>3, QuietChain
  <2>7. b # NoBlock
    BY ConstantsAssumption
  <2>8. BlocksShown'
    BY <2>2, <2>3, <2>5, <2>6, <2>7 DEF ChainFollowed, BlocksShown
  <2>9. ASSUME NEW c \in canonical' PROVE Begins(c, b)
    <3>1. CASE c = b
      BY <3>1, BeginsItself
    <3>2. CASE c \in canonical
      <4>1. checkpoint # NoBlock /\ Begins(c, checkpoint) /\ c \in Blocks /\ checkpoint \in Blocks
        BY <3>2 DEF ChainFollowed, OneChain, IngestOK, EvidenceTypes
      <4> QED BY <2>2, <4>1, BeginsChild
    <3> QED BY <2>5, <2>9, <3>1, <3>2
  <2>10. OneChain'
    BY <2>3, <2>5, <2>7, <2>9 DEF OneChain, Begins
  <2>11. Saw(r)'
    BY <2>4 DEF Saw
  <2>12. ChainFollowed'
    BY <2>3, <2>8, <2>10, <2>11, TickKeepsFollowing
  <2>13. Core!ApplyBlock(checkpoint')
    <3>1. checkpoint # NoBlock => Front(checkpoint') = checkpoint
      BY <2>2, <2>3
    <3>2. blocks' = blocks \cup {checkpoint'} /\ canonical' = canonical \cup {checkpoint'}
      BY <2>3, <2>5
    <3> QED BY <3>1, <3>2 DEF Core!ApplyBlock, Core!Front, Front
  <2> QED BY <2>12, <2>13
<1> QED BY <1>2, <1>3

\* markReorg: what the tables become, and that core's applyReorg makes them so.
LEMMA RewindKeepsFollowing ==
  ASSUME LockMeansOne, IngestOK, ChainFollowed, NEW p \in Ingesters, Rewind(p)
  PROVE  ChainFollowed' /\ Core!ApplyReorg(checkpoint')
<1>1. PICK h \in Hands : h = ingester[p] /\ Fits(h) /\ Saw(h) /\ h.pc = "mark"
  BY DEF IngestOK, EvidenceTypes, HandsFit, ChainFollowed, Rewind
<1>2. PICK a \in canonical : a = h.ancestor
  BY <1>1 DEF Fits
<1>3. \A c \in canonical : Len(c) > Len(a) => Dead(c)
  BY <1>1, <1>2 DEF Saw
<1>4. \A c \in canonical : c \in Blocks /\ c \in blocks /\ c # NoBlock /\ Len(c) \in Nat
  BY BlocksAreChains, ConstantsAssumption DEF IngestOK, EvidenceTypes
<1> DEFINE r == [pc |-> "page"]
<1>5. /\ checkpoint' = a /\ canonical' = canonical \ {c \in canonical : Len(c) > Len(a)} /\ blocks' = blocks
      /\ Goto(p, r) /\ UNCHANGED <<tip, reorgs>>
  BY <1>1, <1>2 DEF Rewind, MarkReorg, Orphaned, ToEvents, chain
<1>6. r.pc = "page"
  OBVIOUS
<1> HIDE DEF r
<1>7. canonical' = {c \in canonical : Len(c) <= Len(a)}
  BY <1>2, <1>4, <1>5
<1>8. \A c : (Known(c)' <=> Known(c)) /\ (Dead(c)' <=> Dead(c))
  BY <1>5, QuietChain
<1>9. BlocksShown'
  <2>1. ASSUME NEW c \in blocks' \ canonical' PROVE Dead(c)
    BY <1>3, <1>5, <2>1 DEF ChainFollowed, BlocksShown
  <2> QED BY <1>2, <1>4, <1>5, <1>8, <2>1 DEF ChainFollowed, BlocksShown
<1>10. ASSUME NEW c \in canonical' PROVE Begins(c, a)
  <2>1. c \in canonical /\ Len(c) <= Len(a)
    BY <1>7
  <2>2. checkpoint # NoBlock /\ Begins(c, checkpoint) /\ Begins(a, checkpoint)
    BY <2>1 DEF ChainFollowed, OneChain
  <2>3. checkpoint \in Blocks
    BY <2>2 DEF IngestOK, EvidenceTypes
  <2> QED BY <1>2, <1>4, <2>1, <2>2, <2>3, BeginningsNest
<1>11. OneChain'
  <2>1. a \in canonical'
    BY <1>2, <1>4, <1>7
  <2> QED BY <1>2, <1>4, <1>5, <1>10, <2>1 DEF OneChain, Begins
<1>12. Saw(r)'
  BY <1>6 DEF Saw
<1>13. ChainFollowed'
  BY <1>5, <1>9, <1>11, <1>12, TickKeepsFollowing
<1>14. Core!ApplyReorg(checkpoint')
  BY <1>2, <1>4, <1>5, <1>7 DEF Core!ApplyReorg
<1> QED BY <1>13, <1>14

\* The page of a chain without events is empty, and the tick ends with it.
LEMMA NoEventsKeepFollowing ==
  ASSUME LockMeansOne, BlocksOnly, IngestOK, ChainFollowed, NEW p \in Ingesters,
         \/ ReadPage(p) \/ LookAtEvent(p) \/ StoreEventBlock(p) \/ StoreRawEvent(p) \/ RecordActivity(p)
  PROVE  ChainFollowed' /\ UNCHANGED Core!vars
<1>1. PICK h \in Hands : h = ingester[p] /\ Fits(h)
  BY DEF IngestOK, EvidenceTypes, HandsFit
<1>2. \A page \in Seq(Events) : page = <<>>
  <2>1. ASSUME NEW page \in Seq(Events), page # <<>> PROVE FALSE
    <3>1. Head(page) \in Events
      BY <2>1, HeadTailProperties
    <3> QED BY <3>1 DEF BlocksOnly
  <2> QED BY <2>1
<1>3. h.pc \notin {"block", "raw", "activity"}
  <2>1. ASSUME h.pc \in {"block", "raw", "activity"} PROVE FALSE
    <3>1. h \in [pc : {"block", "raw", "activity"}, page : Seq(Events), block : Blocks]
      BY <2>1, HandOf
    <3>2. h.page \in Seq(Events)
      BY <3>1
    <3>3. h.page # <<>>
      BY <1>1, <2>1 DEF Fits
    <3> QED BY <1>2, <3>2, <3>3
  <2> QED BY <2>1
<1>4. ReadPage(p) \/ LookAtEvent(p)
  BY <1>1, <1>3 DEF StoreEventBlock, StoreRawEvent, RecordActivity
<1>5. UNCHANGED <<tip, reorgs, blocks, canonical, checkpoint>>
  BY <1>4 DEF ReadPage, LookAtEvent, chain, evidence
<1>6. ASSUME NEW r, Goto(p, r), Saw(r) PROVE ChainFollowed'
  BY <1>5, <1>6, ReadingKeepsFollowing
<1>7. CASE ReadPage(p)
  <2>1. PICK n \in 0..PageSize : \E page \in [1..n -> Events] : Goto(p, [pc |-> "event", page |-> page])
    BY <1>7 DEF ReadPage
  <2>2. PICK page \in [1..n -> Events] : Goto(p, [pc |-> "event", page |-> page])
    BY <2>1
  <2> DEFINE r == [pc |-> "event", page |-> page]
  <2>3. r.pc = "event" /\ Goto(p, r)
    BY <2>2
  <2> HIDE DEF r
  <2>4. Saw(r)
    BY <2>3 DEF Saw
  <2> QED BY <1>5, <1>6, <2>3, <2>4 DEF Core!vars
<1>8. CASE LookAtEvent(p)
  <2>1. h.pc = "event"
    BY <1>1, <1>8 DEF LookAtEvent
  <2>2. h \in [pc : {"event"}, page : Seq(Events)]
    BY <2>1, HandOf
  <2>3. h.page = <<>>
    BY <1>2, <2>2
  <2>4. Goto(p, Idle)
    BY <1>1, <1>8, <2>3 DEF LookAtEvent, Done
  <2>5. Saw(Idle)
    BY DEF Saw, Idle
  <2> QED BY <1>5, <1>6, <2>4, <2>5 DEF Core!vars
<1> QED BY <1>4, <1>7, <1>8

LEMMA FollowingStep ==
  LockMeansOne /\ BlocksOnly /\ IngestOK /\ ChainFollowed /\ [Next]_vars => ChainFollowed' /\ [Core!Next]_Core!vars
<1> SUFFICES ASSUME LockMeansOne, BlocksOnly, IngestOK, ChainFollowed, [Next]_vars
             PROVE  ChainFollowed' /\ [Core!Next]_Core!vars
  OBVIOUS
<1>1. CASE UNCHANGED vars
  <2>1. UNCHANGED <<tip, reorgs, blocks, canonical, checkpoint, ingester>>
    BY <1>1 DEF vars, chain, evidence
  <2>2. \A c : (Known(c)' <=> Known(c)) /\ (Dead(c)' <=> Dead(c))
    BY <2>1, QuietChain
  <2>3. BlocksShown' /\ OneChain'
    BY <2>1, <2>2 DEF ChainFollowed, BlocksShown, OneChain, Begins
  <2>4. ASSUME NEW p \in Ingesters PROVE Saw(ingester[p])'
    BY <2>1, <2>2 DEF ChainFollowed, Saw
  <2> QED BY <2>1, <2>3, <2>4 DEF ChainFollowed, Core!vars
<1>2. CASE Extend \/ Reorganise
  <2>1. UNCHANGED Core!vars
    BY <1>2 DEF Extend, Reorganise, evidence, Core!vars
  <2> QED BY <1>2, <2>1, ChainKeepsFollowing
<1>3. ASSUME NEW p \in Ingesters, Tick(p) \/ Fail(p) PROVE ChainFollowed' /\ [Core!Next]_Core!vars
  <2>1. CASE ReadTip(p) \/ ReadCheckpoint(p) \/ Compare(p) \/ WalkBack(p) \/ FetchBlock(p) \/ Fail(p)
    <3>1. UNCHANGED Core!vars
      BY <2>1 DEF ReadTip, ReadCheckpoint, Compare, WalkBack, FetchBlock, Fail, evidence, Core!vars
    <3> QED BY <2>1, <3>1, BlockReadsKeepFollowing
  <2>2. CASE RecordBlock(p)
    BY <2>2, RecordKeepsFollowing DEF Core!Next
  <2>3. CASE Rewind(p)
    BY <2>3, RewindKeepsFollowing DEF Core!Next
  <2>4. CASE ReadPage(p) \/ LookAtEvent(p) \/ StoreEventBlock(p) \/ StoreRawEvent(p) \/ RecordActivity(p)
    BY <2>4, NoEventsKeepFollowing
  <2> QED BY <1>3, <2>1, <2>2, <2>3, <2>4 DEF Tick
<1> QED BY <1>1, <1>2, <1>3 DEF Next

\* chain_blocks and ingestion_checkpoints: of a chain without events the canonical blocks are one chain, which ends at
\* the checkpoint, through every reorganisation and every tick that fails on its way.
THEOREM TablesHoldOneChain ==
  ASSUME LockMeansOne, BlocksOnly
  PROVE  Spec => []CanonicalIsOneChain
<1>1. Init => IngestOK /\ ChainFollowed
  BY IngestStarts, FollowingStarts
<1>2. IngestOK /\ ChainFollowed /\ [Next]_vars => (IngestOK /\ ChainFollowed)'
  BY IngestStep, FollowingStep
<1>3. IngestOK /\ ChainFollowed => CanonicalIsOneChain
  BY OneChainIsCanonical DEF ChainFollowed
<1> QED BY <1>1, <1>2, <1>3, PTL DEF Spec

\* The ticks of the worker implement applyBlock and applyReorg of core (EvidenceLog): every write of the tables is one
\* of the two, whatever the chain has done since the tick read it.
THEOREM IngestionImplementsCore ==
  ASSUME LockMeansOne, BlocksOnly
  PROVE  Spec => ImplementsCore
<1>1. Init => IngestOK /\ ChainFollowed
  BY IngestStarts, FollowingStarts
<1>2. IngestOK /\ ChainFollowed /\ [Next]_vars => (IngestOK /\ ChainFollowed)'
  BY IngestStep, FollowingStep
<1>3. IngestOK /\ ChainFollowed /\ [Next]_vars => [Core!Next]_Core!vars
  BY FollowingStep
<1>4. Init => Core!Init
  BY DEF Init, Core!Init
<1> QED BY <1>1, <1>2, <1>3, <1>4, PTL DEF Spec, ImplementsCore, Core!Spec

===============================================================================
