-------------------------- MODULE Execution_proofs --------------------------
(***************************************************************************)
(* Proofs about Execution: its types for every plan, number of processes   *)
(* and bound, and, where the reports of one workflow never overlap and no  *)
(* claim waits for a row lock beside another worker, that the state shown  *)
(* for a workflow is where its history ends, and that it is offered for    *)
(* another signature, confirmed or completed only on what the chain has    *)
(* shown of its own transactions.                                          *)
(***************************************************************************)
EXTENDS Execution, SequenceTheorems, Sums_proofs

-----------------------------------------------------------------------------
(* Lemmas on the helpers.                                                  *)

LEMMA InsertKeepsType ==
    ASSUME NEW S, NEW stored \in Seq(S), NEW moves \in Seq(S),
           NEW offset \in Nat, offset <= Len(stored)
    PROVE  /\ InsertTransitions(stored, moves, offset) \in Seq(S)
           /\ Len(InsertTransitions(stored, moves, offset)) >= Len(stored)
<1> DEFINE first == Len(stored) - offset + 1
           rest == SubSeq(moves, first, Len(moves))
<1>1. first \in Int /\ Len(moves) \in Int /\ first >= 1
  BY LenProperties
<1>2. \A i \in first..Len(moves) : moves[i] \in S
  BY <1>1, ElementOfSeq
<1>3. rest \in Seq(S)
  <2> HIDE DEF first
  <2> QED  BY <1>1, <1>2, SubSeqProperties
<1>4. stored \o rest \in Seq(S) /\ Len(stored \o rest) = Len(stored) + Len(rest)
  <2> HIDE DEF rest
  <2> QED  BY <1>3, ConcatProperties
<1>5. Len(rest) \in Nat /\ Len(stored) \in Nat
  <2> HIDE DEF rest
  <2> QED  BY <1>3, LenProperties
<1> QED  BY <1>4, <1>5 DEF InsertTransitions

\* A write that continues the stored history appends every move.
LEMMA InsertAppends ==
    ASSUME NEW S, NEW stored \in Seq(S), NEW moves \in Seq(S), moves # <<>>
    PROVE  /\ InsertTransitions(stored, moves, Len(stored)) = stored \o moves
           /\ Len(stored \o moves) = Len(stored) + Len(moves)
           /\ stored \o moves # <<>>
           /\ (stored \o moves)[Len(stored \o moves)] = moves[Len(moves)]
           /\ \A i \in 1..Len(stored) : (stored \o moves)[i] = stored[i]
<1>1. Len(stored) - Len(stored) + 1 = 1
  BY LenProperties
<1>2. SubSeq(moves, 1, Len(moves)) = moves
  BY SubSeqFull
<1>3. InsertTransitions(stored, moves, Len(stored)) = stored \o moves
  BY <1>1, <1>2 DEF InsertTransitions
<1>4. /\ stored \o moves \in Seq(S)
      /\ Len(stored \o moves) = Len(stored) + Len(moves)
      /\ \A i \in 1..Len(stored) + Len(moves) :
            (stored \o moves)[i] = IF i <= Len(stored) THEN stored[i]
                                   ELSE moves[i - Len(stored)]
  BY ConcatProperties
<1>5. Len(moves) \in Nat \ {0} /\ Len(stored) \in Nat
  BY LenProperties, EmptySeq
<1>6. stored \o moves # <<>>
  BY <1>4, <1>5, EmptySeq
<1>7. (stored \o moves)[Len(stored) + Len(moves)] = moves[Len(moves)]
  BY <1>4, <1>5
<1>8. \A i \in 1..Len(stored) : (stored \o moves)[i] = stored[i]
  BY <1>4, <1>5
<1> QED  BY <1>3, <1>4, <1>6, <1>7, <1>8

LEMMA MovesAlongType ==
    ASSUME NEW from \in States, NEW path \in Seq(States), path # <<>>
    PROVE  /\ MovesAlong(from, path) \in Seq(Move)
           /\ MovesAlong(from, path) # <<>>
           /\ Len(MovesAlong(from, path)) = Len(path)
           /\ MovesAlong(from, path)[1].from = from
           /\ MovesAlong(from, path)[Len(path)].to = path[Len(path)]
<1>1. Len(path) \in Nat /\ Len(path) >= 1
  BY LenProperties, EmptySeq
<1>2. \A i \in 1..Len(path) : path[i] \in States
  BY ElementOfSeq
<1>3. \A i \in 1..Len(path) :
          (IF i = 1 THEN from ELSE path[i - 1]) \in States
  BY <1>1, <1>2
<1>4. MovesAlong(from, path) \in [1..Len(path) -> Move]
  BY <1>2, <1>3 DEF MovesAlong, Move
<1>5. /\ MovesAlong(from, path) \in Seq(Move)
      /\ Len(MovesAlong(from, path)) = Len(path)
  BY <1>1, <1>4
<1>6. MovesAlong(from, path) # <<>>
  BY <1>1, <1>5, EmptySeq
<1> QED  BY <1>1, <1>5, <1>6 DEF MovesAlong

\* A decided path only names states.
LEMMA PathTypes ==
    ASSUME NEW from \in States
    PROVE  /\ \A seen, final : ConfirmationDecision(from, seen, final) \in Seq(States)
           /\ \A verdict : ReconciliationPath(from, verdict) \in Seq(States)
           /\ \A verdict : ReconciliationPath(from, verdict) # <<>>
<1>1. \A a \in States : <<a>> \in Seq(States)
  OBVIOUS
<1>2. \A a, b \in States : <<a, b>> \in Seq(States)
  OBVIOUS
<1>3. <<>> \in Seq(States)
  BY EmptySeq
<1>4. {"CONFIRMING", "STEP_CONFIRMED", "AWAITING_SIGNATURE", "FAILED",
       "ACTION_REQUIRED", "REORGED", "RECONCILING", "COMPLETED"} \subseteq States
  BY DEF States
<1>5. ASSUME NEW ahead, NEW final
      PROVE  ConfirmedPath(from, ahead, final) \in Seq(States)
  <2> DEFINE confirming == IF from = "SUBMITTED" THEN <<"CONFIRMING">> ELSE <<>>
             ending == IF final THEN <<"STEP_CONFIRMED">>
                       ELSE <<"STEP_CONFIRMED", "AWAITING_SIGNATURE">>
  <2>1. confirming \in Seq(States) /\ ending \in Seq(States)
    BY <1>1, <1>2, <1>3, <1>4
  <2>2. confirming \o ending \in Seq(States)
    <3> HIDE DEF confirming, ending
    <3> QED  BY <2>1, ConcatProperties
  <2> QED  BY <2>1, <2>2 DEF ConfirmedPath
<1>6. ASSUME NEW seen, NEW final
      PROVE  ConfirmationDecision(from, seen, final) \in Seq(States)
  BY <1>1, <1>3, <1>4, <1>5 DEF ConfirmationDecision
<1>7. ASSUME NEW verdict
      PROVE  /\ ReconciliationPath(from, verdict) \in Seq(States)
             /\ ReconciliationPath(from, verdict) # <<>>
  <2> DEFINE begin == IF from = "STEP_CONFIRMED" THEN <<"RECONCILING">> ELSE <<>>
             last == IF verdict = "matched" THEN "COMPLETED" ELSE "ACTION_REQUIRED"
  <2>1. begin \in Seq(States) /\ <<last>> \in Seq(States) /\ Len(<<last>>) = 1
    BY <1>1, <1>3, <1>4
  <2>2. /\ begin \o <<last>> \in Seq(States)
        /\ Len(begin \o <<last>>) = Len(begin) + 1
        /\ Len(begin) \in Nat
    <3> HIDE DEF begin, last
    <3> QED  BY <2>1, ConcatProperties, LenProperties
  <2>3. begin \o <<last>> # <<>>
    <3> HIDE DEF begin, last
    <3> QED  BY <2>2, EmptySeq
  <2> QED  BY <2>2, <2>3 DEF ReconciliationPath
<1> QED  BY <1>6, <1>7

LEMMA AdmissionType ==
    /\ MovesAlong("DRAFT", AdmissionPath) \in Seq(Move)
    /\ MovesAlong("DRAFT", AdmissionPath) # <<>>
    /\ Len(MovesAlong("DRAFT", AdmissionPath)) = 2
    /\ MovesAlong("DRAFT", AdmissionPath)[2].to = "AWAITING_SIGNATURE"
<1>1. AdmissionPath \in Seq(States) /\ Len(AdmissionPath) = 2
      /\ AdmissionPath[2] = "AWAITING_SIGNATURE"
  BY DEF AdmissionPath, States
<1>2. AdmissionPath # <<>> /\ "DRAFT" \in States
  BY <1>1, EmptySeq DEF States
<1>3. /\ MovesAlong("DRAFT", AdmissionPath) \in Seq(Move)
      /\ MovesAlong("DRAFT", AdmissionPath) # <<>>
      /\ Len(MovesAlong("DRAFT", AdmissionPath)) = Len(AdmissionPath)
      /\ MovesAlong("DRAFT", AdmissionPath)[Len(AdmissionPath)].to
            = AdmissionPath[Len(AdmissionPath)]
  BY <1>1, <1>2, MovesAlongType
<1> QED  BY <1>1, <1>3

-----------------------------------------------------------------------------
(* Types.  What a process carries was counted when it was read; histories  *)
(* only grow, so InsertTransitions never starts past the first move.       *)

RequestOK(r) ==
    r.pc # "idle" =>
        /\ r.count <= Len(log[r.w])
        /\ answer[r.w][r.step] # "none"

RowOK(r) ==
    /\ r.pc # "idle" => r.count <= Len(log[r.w])
    /\ r.pc \in {"claim", "waiting"} => r.moves # <<>>

TypeInv ==
    /\ TypeOK
    /\ \A h \in Handlers : RequestOK(handler[h])
    /\ \A p \in Workers : RowOK(worker[p])

LEMMA WriteType ==
    ASSUME TypeOK, NEW w \in Workflows, NEW moves \in Seq(Move), moves # <<>>,
           NEW offset \in Nat, offset <= Len(log[w]), Write(w, moves, offset)
    PROVE  /\ state' \in [Workflows -> States \cup {"NONE"}]
           /\ log' \in [Workflows -> Seq(Move)]
           /\ older' \in SUBSET (Workflows \X Workflows)
           /\ \A v \in Workflows : Len(log'[v]) >= Len(log[v])
<1>1. moves[Len(moves)] \in Move
  <2>1. Len(moves) \in 1..Len(moves)
    BY LenProperties, EmptySeq
  <2> QED  BY <2>1, ElementOfSeq
<1>2. state' \in [Workflows -> States \cup {"NONE"}]
  BY <1>1 DEF TypeOK, Write, Move
<1>3. log[w] \in Seq(Move)
  BY DEF TypeOK
<1>4. /\ InsertTransitions(log[w], moves, offset) \in Seq(Move)
      /\ Len(InsertTransitions(log[w], moves, offset)) >= Len(log[w])
  BY <1>3, InsertKeepsType
<1>5. log' = [log EXCEPT ![w] = InsertTransitions(log[w], moves, offset)]
  BY DEF Write
<1>6. log' \in [Workflows -> Seq(Move)]
  BY <1>4, <1>5 DEF TypeOK
<1>7. \A v \in Workflows : Len(log[v]) \in Nat
  BY LenProperties DEF TypeOK
<1>8. \A v \in Workflows : Len(log'[v]) >= Len(log[v])
  BY <1>4, <1>5, <1>7 DEF TypeOK
<1>9. older' \in SUBSET (Workflows \X Workflows)
  BY DEF TypeOK, Write, Touch
<1> QED  BY <1>2, <1>6, <1>8, <1>9

\* A step that leaves every process alone and every history no shorter.
LEMMA ProcessesKept ==
    ASSUME TypeInv, UNCHANGED <<handler, worker, answer>>,
           \A v \in Workflows : Len(log'[v]) >= Len(log[v]),
           log' \in [Workflows -> Seq(Move)]
    PROVE  /\ \A h \in Handlers : RequestOK(handler[h])'
           /\ \A p \in Workers : RowOK(worker[p])'
<1>1. \A v \in Workflows : Len(log'[v]) \in Nat /\ Len(log[v]) \in Nat
  BY LenProperties DEF TypeInv, TypeOK
<1>2. \A h \in Handlers : handler[h].pc # "idle" =>
          handler[h].w \in Workflows /\ handler[h].count \in Nat
  BY DEF TypeInv, TypeOK, Request, Idle
<1>3. \A p \in Workers : worker[p].pc # "idle" =>
          worker[p].w \in Workflows /\ worker[p].count \in Nat
  BY DEF TypeInv, TypeOK, RowInHand, Idle
<1> QED  BY <1>1, <1>2, <1>3 DEF TypeInv, RequestOK, RowOK

LEMMA TypeInit == ASSUME Init PROVE TypeInv
<1>1. <<>> \in Seq(Move) /\ <<>> \in Seq([step : Steps, outcome : Outcomes])
  BY EmptySeq
<1>2. Absent \in TransactionEvidence
  BY DEF Absent, Evidence, TransactionEvidence, Statuses
<1>3. reorgs \in 0..MaxReorgs
  BY ConstantsAssumption DEF Init
<1>4. TypeOK
  BY <1>1, <1>2, <1>3 DEF Init, TypeOK, Request, RowInHand
<1>5. /\ \A h \in Handlers : RequestOK(handler[h])
      /\ \A p \in Workers : RowOK(worker[p])
  BY DEF Init, RequestOK, RowOK, Idle
<1> QED  BY <1>4, <1>5 DEF TypeInv

\* The client and the API.
LEMMA TypeStart ==
    ASSUME TypeInv, NEW w \in Workflows, StartWorkflow(w)
    PROVE  TypeInv'
<1> DEFINE moves == MovesAlong("DRAFT", AdmissionPath)
<1>1. moves \in Seq(Move) /\ moves # <<>>
  BY AdmissionType
<1>2. Len(log[w]) \in Nat /\ 0 \in Nat
  BY LenProperties DEF TypeInv, TypeOK
<1>3. Write(w, moves, 0)
  BY DEF StartWorkflow
<1>4. /\ state' \in [Workflows -> States \cup {"NONE"}]
      /\ log' \in [Workflows -> Seq(Move)]
      /\ older' \in SUBSET (Workflows \X Workflows)
      /\ \A v \in Workflows : Len(log'[v]) >= Len(log[v])
  <2> HIDE DEF moves
  <2> QED  BY <1>1, <1>2, <1>3, WriteType DEF TypeInv
<1>5. UNCHANGED <<attempts, activity, answer, chain, handler, worker>>
  BY DEF StartWorkflow
<1>6. TypeOK'
  BY <1>4, <1>5 DEF TypeInv, TypeOK, chain
<1> QED  BY <1>4, <1>5, <1>6, ProcessesKept DEF TypeInv

LEMMA TypeWallet ==
    ASSUME TypeInv, NEW w \in Workflows, NEW k \in Steps,
           NEW outcome \in Outcomes, WalletAnswers(w, k, outcome)
    PROVE  TypeInv'
<1>1. Absent \in TransactionEvidence /\ Pending \in TransactionEvidence
  BY DEF Absent, Pending, Evidence, TransactionEvidence, Statuses
<1>2. tx' \in [Workflows -> [Steps -> TransactionEvidence]]
  BY <1>1 DEF WalletAnswers, TypeInv, TypeOK
<1>3. answer' \in [Workflows -> [Steps -> Outcomes \cup {"none"}]]
  BY DEF WalletAnswers, TypeInv, TypeOK
<1>4. TypeOK'
  BY <1>2, <1>3 DEF WalletAnswers, TypeInv, TypeOK, rows
<1>5. outcome # "none"
  BY ConstantsAssumption
<1>6. \A v \in Workflows, j \in Steps :
          answer[v][j] # "none" => answer'[v][j] # "none"
  BY <1>5 DEF WalletAnswers, TypeInv, TypeOK
<1>7. ASSUME NEW h \in Handlers PROVE RequestOK(handler[h])'
  <2>1. handler[h].pc # "idle" =>
            handler[h].w \in Workflows /\ handler[h].step \in Steps
    BY DEF TypeInv, TypeOK, Request, Idle
  <2> QED  BY <1>6, <2>1 DEF WalletAnswers, rows, TypeInv, RequestOK
<1>8. \A p \in Workers : RowOK(worker[p])'
  BY DEF WalletAnswers, rows, TypeInv, RowOK
<1> QED  BY <1>4, <1>7, <1>8 DEF TypeInv

LEMMA TypeReadWorkflow ==
    ASSUME TypeInv, NEW h \in Handlers, NEW w \in Workflows, NEW k \in Steps,
           ReadWorkflow(h, w, k)
    PROVE  TypeInv'
<1> DEFINE r == [pc |-> "read", w |-> w, step |-> k,
                 seen |-> state[w], count |-> Len(log[w])]
<1>1. handler' = [handler EXCEPT ![h] = r]
  BY DEF ReadWorkflow
<1>2. Len(log[w]) \in Nat /\ state[w] \in States
  BY LenProperties DEF TypeInv, TypeOK, ReadWorkflow
<1>3. r \in Request
  BY <1>2 DEF Request
<1>4. handler' \in [Handlers -> Request]
  <2> HIDE DEF r
  <2> QED  BY <1>1, <1>3 DEF TypeInv, TypeOK
<1>5. TypeOK'
  BY <1>4 DEF ReadWorkflow, TypeInv, TypeOK, rows, chain
<1>6. UNCHANGED <<log, answer, worker>> /\ answer[w][k] # "none"
  BY DEF ReadWorkflow, rows
<1>7. r.count <= Len(log'[r.w]) /\ answer'[r.w][r.step] # "none"
  BY <1>2, <1>6
<1>8. ASSUME NEW g \in Handlers PROVE RequestOK(handler[g])'
  <2>1. CASE g = h
    <3>1. handler'[g] = r
      BY <1>1, <2>1 DEF TypeInv, TypeOK
    <3> QED  BY <1>7, <3>1 DEF RequestOK
  <2>2. CASE g # h
    <3>1. handler'[g] = handler[g]
      BY <1>1, <2>2 DEF TypeInv, TypeOK
    <3> QED  BY <3>1, <1>6 DEF TypeInv, RequestOK
  <2> QED  BY <2>1, <2>2
<1>9. \A p \in Workers : RowOK(worker[p])'
  BY <1>6 DEF TypeInv, RowOK
<1> QED  BY <1>5, <1>8, <1>9 DEF TypeInv

\* The outcome a request carries, and what transition() makes of it.
LEMMA RequestFields ==
    ASSUME TypeInv, NEW h \in Handlers, handler[h].pc # "idle"
    PROVE  /\ handler[h].pc \in {"read", "write"}
           /\ handler[h].w \in Workflows
           /\ handler[h].step \in Steps
           /\ handler[h].seen \in States
           /\ handler[h].count \in Nat
           /\ handler[h].count <= Len(log[handler[h].w])
           /\ answer[handler[h].w][handler[h].step] \in Outcomes
<1>1. handler[h] \in Request \ {Idle}
  BY DEF TypeInv, TypeOK, Idle
<1>2. /\ handler[h].pc \in {"read", "write"}
      /\ handler[h].w \in Workflows
      /\ handler[h].step \in Steps
      /\ handler[h].seen \in States
      /\ handler[h].count \in Nat
  BY <1>1 DEF Request
<1>3. /\ handler[h].count <= Len(log[handler[h].w])
      /\ answer[handler[h].w][handler[h].step] # "none"
  BY DEF TypeInv, RequestOK
<1> QED  BY <1>2, <1>3 DEF TypeInv, TypeOK

LEMMA TypeFindAttempt ==
    ASSUME TypeInv, NEW h \in Handlers, FindAttempt(h)
    PROVE  TypeInv'
<1>1. handler[h] \in Request /\ handler[h].pc = "read"
  BY DEF TypeInv, TypeOK, FindAttempt
<1>2. [handler[h] EXCEPT !.pc = "write"] \in Request
  BY <1>1 DEF Request, Idle
<1>3. PICK r \in {Idle, [handler[h] EXCEPT !.pc = "write"]} :
          handler' = [handler EXCEPT ![h] = r]
  BY DEF FindAttempt
<1>4. r \in Request
  BY <1>2, <1>3 DEF Request
<1>5. handler' \in [Handlers -> Request]
  BY <1>3, <1>4 DEF TypeInv, TypeOK
<1>6. UNCHANGED <<rows, activity, answer, chain, worker>>
  BY DEF FindAttempt
<1>7. TypeOK'
  BY <1>5, <1>6 DEF TypeInv, TypeOK, rows, chain
<1>8. ASSUME NEW g \in Handlers PROVE RequestOK(handler[g])'
  <2>1. CASE g # h
    BY <1>3, <1>6, <2>1 DEF TypeInv, TypeOK, RequestOK, rows
  <2>2. CASE g = h /\ r = Idle
    BY <1>3, <2>2 DEF TypeInv, TypeOK, RequestOK, Idle
  <2>3. CASE g = h /\ r = [handler[h] EXCEPT !.pc = "write"]
    <3>1. r.w = handler[h].w /\ r.count = handler[h].count
          /\ r.step = handler[h].step
      BY <1>1, <2>3 DEF Request, Idle
    <3>2. handler'[g] = r
      BY <1>3, <2>3 DEF TypeInv, TypeOK
    <3>3. RequestOK(handler[h]) /\ handler[h].pc # "idle"
      BY <1>1 DEF TypeInv
    <3> QED  BY <1>6, <3>1, <3>2, <3>3 DEF RequestOK, rows
  <2> QED  BY <1>3, <2>1, <2>2, <2>3
<1>9. \A p \in Workers : RowOK(worker[p])'
  BY <1>6 DEF TypeInv, RowOK, rows
<1> QED  BY <1>7, <1>8, <1>9 DEF TypeInv

LEMMA TypeRecordAttempt ==
    ASSUME TypeInv, NEW h \in Handlers, RecordAttempt(h)
    PROVE  TypeInv'
<1> DEFINE r == handler[h]
           outcome == answer[r.w][r.step]
           move == [from |-> r.seen, to |-> TargetOf(outcome)]
           attempt == [step |-> r.step, outcome |-> outcome]
<1>1. /\ r.pc = "write"
      /\ r.w \in Workflows /\ r.step \in Steps /\ r.seen \in States
      /\ r.count \in Nat /\ r.count <= Len(log[r.w])
      /\ outcome \in Outcomes
  BY RequestFields DEF RecordAttempt
<1>2. handler' = [handler EXCEPT ![h] = Idle]
      /\ UNCHANGED <<activity, answer, chain, worker>>
  BY DEF RecordAttempt
<1>3. move \in Move
  BY <1>1 DEF Move, TargetOf, States
<1>4. /\ state' \in [Workflows -> States \cup {"NONE"}]
      /\ log' \in [Workflows -> Seq(Move)]
      /\ older' \in SUBSET (Workflows \X Workflows)
      /\ \A v \in Workflows : Len(log'[v]) >= Len(log[v])
      /\ attempts' \in [Workflows -> Seq([step : Steps, outcome : Outcomes])]
  <2>1. CASE move.from = move.to
    <3>1. UNCHANGED <<state, log, attempts, older>>
      BY <2>1 DEF RecordAttempt, rows
    <3>2. \A v \in Workflows : Len(log[v]) \in Nat
      BY LenProperties DEF TypeInv, TypeOK
    <3>3. \A v \in Workflows : Len(log'[v]) >= Len(log[v])
      BY <3>1, <3>2
    <3> QED  BY <3>1, <3>3 DEF TypeInv, TypeOK
  <2>2. CASE move.from # move.to
    <3>1. /\ attempts' = [attempts EXCEPT ![r.w] = AddAttempt(@, attempt)]
          /\ Write(r.w, <<move>>, r.count)
      BY <2>2 DEF RecordAttempt
    <3>2. <<move>> \in Seq(Move) /\ <<move>> # <<>>
      <4> HIDE DEF move
      <4> QED  BY <1>3
    <3>3. /\ state' \in [Workflows -> States \cup {"NONE"}]
          /\ log' \in [Workflows -> Seq(Move)]
          /\ older' \in SUBSET (Workflows \X Workflows)
          /\ \A v \in Workflows : Len(log'[v]) >= Len(log[v])
      <4> HIDE DEF move, r
      <4> QED  BY <1>1, <3>1, <3>2, WriteType DEF TypeInv
    <3>4. attempt \in [step : Steps, outcome : Outcomes]
      BY <1>1
    <3>5. attempts[r.w] \in Seq([step : Steps, outcome : Outcomes])
      BY <1>1 DEF TypeInv, TypeOK
    <3>6. AddAttempt(attempts[r.w], attempt)
              \in Seq([step : Steps, outcome : Outcomes])
      <4> HIDE DEF attempt, r
      <4> QED  BY <3>4, <3>5, AppendProperties DEF AddAttempt
    <3>7. attempts' \in [Workflows -> Seq([step : Steps, outcome : Outcomes])]
      <4> HIDE DEF attempt, r
      <4> QED  BY <3>1, <3>6 DEF TypeInv, TypeOK
    <3> QED  BY <3>3, <3>7
  <2> QED  BY <2>1, <2>2
<1>5. handler' \in [Handlers -> Request]
  BY <1>2 DEF TypeInv, TypeOK, Request
<1>6. TypeOK'
  BY <1>2, <1>4, <1>5 DEF TypeInv, TypeOK, chain
<1>7. \A v \in Workflows : Len(log'[v]) \in Nat /\ Len(log[v]) \in Nat
  BY <1>4, LenProperties DEF TypeInv, TypeOK
<1>8. ASSUME NEW g \in Handlers PROVE RequestOK(handler[g])'
  <2>1. CASE g = h
    BY <1>2, <2>1 DEF TypeInv, TypeOK, RequestOK, Idle
  <2>2. CASE g # h
    <3>1. handler'[g] = handler[g]
      BY <1>2, <2>2 DEF TypeInv, TypeOK
    <3>2. SUFFICES ASSUME handler[g].pc # "idle"
                   PROVE  /\ handler[g].count <= Len(log'[handler[g].w])
                          /\ answer[handler[g].w][handler[g].step] # "none"
      BY <1>2, <3>1 DEF RequestOK
    <3>3. handler[g].w \in Workflows /\ handler[g].count \in Nat
          /\ RequestOK(handler[g])
      BY <3>2, RequestFields DEF TypeInv
    <3> QED  BY <3>2, <3>3, <1>4, <1>7 DEF RequestOK
  <2> QED  BY <2>1, <2>2
<1>9. ASSUME NEW p \in Workers PROVE RowOK(worker[p])'
  <2>1. worker[p].pc # "idle" =>
            worker[p].w \in Workflows /\ worker[p].count \in Nat
    BY DEF TypeInv, TypeOK, RowInHand, Idle
  <2>2. RowOK(worker[p]) /\ worker' = worker
    BY <1>2 DEF TypeInv
  <2>3. worker[p].pc # "idle" => worker[p].count <= Len(log'[worker[p].w])
    BY <1>4, <1>7, <2>1, <2>2 DEF RowOK
  <2> QED  BY <2>2, <2>3 DEF RowOK
<1> QED  BY <1>6, <1>8, <1>9 DEF TypeInv

LEMMA TypeAbandon ==
    ASSUME TypeInv, NEW h \in Handlers, AbandonRequest(h)
    PROVE  TypeInv'
<1>1. handler' \in [Handlers -> Request]
  BY DEF AbandonRequest, TypeInv, TypeOK, Request
<1>2. TypeOK'
  BY <1>1 DEF AbandonRequest, TypeInv, TypeOK, rows, chain
<1>3. \A g \in Handlers : RequestOK(handler[g])'
  BY DEF AbandonRequest, TypeInv, TypeOK, RequestOK, Idle, rows
<1>4. \A p \in Workers : RowOK(worker[p])'
  BY DEF AbandonRequest, TypeInv, RowOK, rows
<1> QED  BY <1>2, <1>3, <1>4 DEF TypeInv

\* The worker.
LEMMA RowFields ==
    ASSUME TypeInv, NEW p \in Workers, worker[p].pc # "idle"
    PROVE  /\ worker[p].w \in Workflows
           /\ worker[p].count \in Nat
           /\ worker[p].count <= Len(log[worker[p].w])
           /\ worker[p].pc \in {"evidence", "effects"} =>
                 worker[p].state \in States
           /\ worker[p].pc \in {"claim", "waiting"} =>
                 worker[p].moves \in Seq(Move) /\ worker[p].moves # <<>>
<1>1. worker[p] \in RowInHand \ {Idle} /\ RowOK(worker[p])
  BY DEF TypeInv, TypeOK, Idle
<1> QED  BY <1>1 DEF RowInHand, RowOK

LEMMA WorkerStep ==
    ASSUME TypeInv, NEW p \in Workers, NEW r \in RowInHand, RowOK(r),
           worker' = [worker EXCEPT ![p] = r],
           UNCHANGED <<rows, activity, answer, chain, handler>>
    PROVE  TypeInv'
<1>1. worker' \in [Workers -> RowInHand]
  BY DEF TypeInv, TypeOK
<1>2. TypeOK'
  BY <1>1 DEF TypeInv, TypeOK, rows, chain
<1>3. \A h \in Handlers : RequestOK(handler[h])'
  BY DEF TypeInv, RequestOK, rows
<1>4. ASSUME NEW q \in Workers PROVE RowOK(worker[q])'
  <2>1. RowOK(worker'[q])
    BY DEF TypeInv, TypeOK
  <2> QED  BY <2>1 DEF RowOK, rows
<1> QED  BY <1>2, <1>3, <1>4 DEF TypeInv

LEMMA TypeListConfirming ==
    ASSUME TypeInv, NEW p \in Workers, NEW w \in Workflows, ListConfirming(p, w)
    PROVE  TypeInv'
<1>1. PICK i \in DOMAIN attempts[w] :
          worker' = [worker EXCEPT ![p] =
              [pc |-> "evidence", w |-> w, state |-> state[w],
               count |-> Len(log[w]), step |-> attempts[w][i].step]]
  BY DEF ListConfirming
<1> DEFINE r == [pc |-> "evidence", w |-> w, state |-> state[w],
                 count |-> Len(log[w]), step |-> attempts[w][i].step]
<1>2. Len(log[w]) \in Nat
  BY LenProperties DEF TypeInv, TypeOK
<1>3. state[w] \in States
  BY DEF ListConfirming, Window, AwaitingConfirmation, States
<1>4. attempts[w][i].step \in Steps
  <2>1. attempts[w] \in Seq([step : Steps, outcome : Outcomes])
    BY DEF TypeInv, TypeOK
  <2>2. attempts[w][i] \in [step : Steps, outcome : Outcomes]
    BY <1>1, <2>1, LenProperties, ElementOfSeq
  <2> QED  BY <2>2
<1>5. r \in RowInHand
  BY <1>2, <1>3, <1>4 DEF RowInHand
<1>6. RowOK(r)
  BY <1>2 DEF RowOK
<1>7. UNCHANGED <<rows, activity, answer, chain, handler>>
  BY DEF ListConfirming
<1> HIDE DEF r
<1>8. worker' = [worker EXCEPT ![p] = r]
  BY <1>1 DEF r
<1> QED  BY <1>5, <1>6, <1>7, <1>8, WorkerStep

LEMMA TypeListReconciling ==
    ASSUME TypeInv, NEW p \in Workers, NEW w \in Workflows, ListReconciling(p, w)
    PROVE  TypeInv'
<1> DEFINE r == [pc |-> "effects", w |-> w, state |-> state[w],
                 count |-> Len(log[w])]
<1>1. Len(log[w]) \in Nat
  BY LenProperties DEF TypeInv, TypeOK
<1>2. state[w] \in States
  BY DEF ListReconciling, Window, AwaitingReconciliation, States
<1>3. r \in RowInHand
  BY <1>1, <1>2 DEF RowInHand
<1>4. RowOK(r)
  BY <1>1 DEF RowOK
<1>5. /\ worker' = [worker EXCEPT ![p] = r]
      /\ UNCHANGED <<rows, activity, answer, chain, handler>>
  BY DEF ListReconciling
<1> HIDE DEF r
<1> QED  BY <1>3, <1>4, <1>5, WorkerStep

LEMMA IdleRow == Idle \in RowInHand /\ RowOK(Idle)
BY DEF RowInHand, RowOK, Idle

\* Whatever is decided for a row that was listed.
LEMMA TypeDecide ==
    ASSUME TypeInv, NEW p \in Workers, worker[p].pc \in {"evidence", "effects"},
           NEW path \in Seq(States), Decide(p, path),
           UNCHANGED <<rows, activity, answer, chain, handler>>
    PROVE  TypeInv'
<1> DEFINE moves == MovesAlong(worker[p].state, path)
           r == [pc |-> "claim", w |-> worker[p].w, count |-> worker[p].count,
                 moves |-> moves]
<1>1. CASE path = <<>>
  <2>1. worker' = [worker EXCEPT ![p] = Idle]
    BY <1>1 DEF Decide
  <2> QED  BY <2>1, IdleRow, WorkerStep
<1>2. CASE path # <<>>
  <2>1. moves \in Seq(Move) /\ moves # <<>>
    BY <1>2, RowFields, MovesAlongType
  <2>2. /\ worker[p].w \in Workflows /\ worker[p].count \in Nat
        /\ worker[p].count <= Len(log[worker[p].w])
    BY RowFields
  <2>3. worker' = [worker EXCEPT ![p] = r]
    BY <1>2 DEF Decide
  <2> HIDE DEF moves
  <2>4. r \in RowInHand
    BY <2>1, <2>2 DEF RowInHand
  <2>5. RowOK(r)
    BY <2>1, <2>2 DEF RowOK
  <2> HIDE DEF r
  <2> QED  BY <2>3, <2>4, <2>5, WorkerStep
<1> QED  BY <1>1, <1>2

LEMMA TypeReadEvidence ==
    ASSUME TypeInv, NEW p \in Workers, ReadEvidence(p)
    PROVE  TypeInv'
<1> DEFINE path == ConfirmationDecision(worker[p].state,
                       tx[worker[p].w][worker[p].step], worker[p].step = NSteps)
<1>1. worker[p].pc = "evidence"
  BY DEF ReadEvidence
<1>2. path \in Seq(States)
  BY <1>1, RowFields, PathTypes
<1>3. /\ Decide(p, path)
      /\ UNCHANGED <<rows, activity, answer, chain, handler>>
  BY DEF ReadEvidence
<1> HIDE DEF path
<1> QED  BY <1>1, <1>2, <1>3, TypeDecide

LEMMA TypeReadEffects ==
    ASSUME TypeInv, NEW p \in Workers, ReadEffects(p)
    PROVE  TypeInv'
<1> DEFINE effects == {k \in Steps : activity[worker[p].w][k] = "attributed"}
           verdict ==
               ReconciliationDecision(QuotesOutput, effects, Credit, Minimum)
           path == IF verdict = "wait" THEN <<>>
                   ELSE ReconciliationPath(worker[p].state, verdict)
<1>1. worker[p].pc = "effects"
  BY DEF ReadEffects
<1>2. path \in Seq(States)
  <2> HIDE DEF verdict
  <2> QED  BY <1>1, RowFields, PathTypes, EmptySeq
<1>3. /\ Decide(p, path)
      /\ UNCHANGED <<rows, activity, answer, chain, handler>>
  BY DEF ReadEffects
<1> HIDE DEF path
<1> QED  BY <1>1, <1>2, <1>3, TypeDecide

LEMMA TypeWaitForRow ==
    ASSUME TypeInv, NEW p \in Workers, WaitForRow(p)
    PROVE  TypeInv'
<1> DEFINE r == [pc |-> "waiting", w |-> worker[p].w, count |-> worker[p].count,
                 moves |-> worker[p].moves, counted |-> Len(log[worker[p].w])]
<1>1. worker[p].pc = "claim"
  BY DEF WaitForRow
<1>2. /\ worker[p].w \in Workflows /\ worker[p].count \in Nat
      /\ worker[p].count <= Len(log[worker[p].w])
      /\ worker[p].moves \in Seq(Move) /\ worker[p].moves # <<>>
  BY <1>1, RowFields
<1>3. Len(log[worker[p].w]) \in Nat
  BY <1>2, LenProperties DEF TypeInv, TypeOK
<1>4. r \in RowInHand
  BY <1>2, <1>3 DEF RowInHand
<1>5. RowOK(r)
  BY <1>2 DEF RowOK
<1>6. /\ worker' = [worker EXCEPT ![p] = r]
      /\ UNCHANGED <<rows, activity, answer, chain, handler>>
  BY DEF WaitForRow, TypeInv, TypeOK
<1> HIDE DEF r
<1> QED  BY <1>4, <1>5, <1>6, WorkerStep

LEMMA TypeAdvance ==
    ASSUME TypeInv, NEW p \in Workers, Advance(p)
    PROVE  TypeInv'
<1>1. /\ worker[p].w \in Workflows /\ worker[p].count \in Nat
      /\ worker[p].count <= Len(log[worker[p].w])
      /\ worker[p].moves \in Seq(Move) /\ worker[p].moves # <<>>
  BY RowFields DEF Advance
<1>2. worker' = [worker EXCEPT ![p] = Idle]
      /\ UNCHANGED <<activity, answer, chain, handler>>
  BY DEF Advance
<1>3. CASE UNCHANGED rows
  BY <1>2, <1>3, IdleRow, WorkerStep
<1>4. CASE ~UNCHANGED rows
  <2>1. Write(worker[p].w, worker[p].moves, worker[p].count)
        /\ UNCHANGED attempts
    BY <1>4 DEF Advance
  <2>2. /\ state' \in [Workflows -> States \cup {"NONE"}]
        /\ log' \in [Workflows -> Seq(Move)]
        /\ older' \in SUBSET (Workflows \X Workflows)
        /\ \A v \in Workflows : Len(log'[v]) >= Len(log[v])
    BY <1>1, <2>1, WriteType DEF TypeInv
  <2>3. worker' \in [Workers -> RowInHand]
    BY <1>2, IdleRow DEF TypeInv, TypeOK
  <2>4. TypeOK'
    BY <1>2, <2>1, <2>2, <2>3 DEF TypeInv, TypeOK, chain
  <2>5. \A v \in Workflows : Len(log'[v]) \in Nat /\ Len(log[v]) \in Nat
    BY <2>2, LenProperties DEF TypeInv, TypeOK
  <2>6. ASSUME NEW h \in Handlers PROVE RequestOK(handler[h])'
    <3>1. handler[h].pc # "idle" =>
              handler[h].w \in Workflows /\ handler[h].count \in Nat
      BY RequestFields
    <3> QED  BY <1>2, <2>2, <2>5, <3>1 DEF TypeInv, RequestOK
  <2>7. ASSUME NEW q \in Workers PROVE RowOK(worker[q])'
    <3>1. CASE q = p
      BY <1>2, <3>1 DEF TypeInv, TypeOK, RowOK, Idle
    <3>2. CASE q # p
      <4>1. worker'[q] = worker[q] /\ RowOK(worker[q])
        BY <1>2, <3>2 DEF TypeInv, TypeOK
      <4>2. worker[q].pc # "idle" =>
                worker[q].w \in Workflows /\ worker[q].count \in Nat
        BY RowFields
      <4> QED  BY <2>2, <2>5, <4>1, <4>2 DEF RowOK
    <3> QED  BY <3>1, <3>2
  <2> QED  BY <2>4, <2>6, <2>7 DEF TypeInv
<1> QED  BY <1>3, <1>4

LEMMA TypeDropRow ==
    ASSUME TypeInv, NEW p \in Workers, DropRow(p)
    PROVE  TypeInv'
BY IdleRow, WorkerStep DEF DropRow

\* The chain and ingestion: only tx, activity and the bounds change.
LEMMA ChainStep ==
    ASSUME TypeInv, UNCHANGED <<rows, answer, handler, worker>>,
           tx' \in [Workflows -> [Steps -> TransactionEvidence]],
           activity' \in [Workflows -> [Steps ->
               {"none", "attributed", "unattributed", "rewound", "lost"}]],
           reorgs' \in 0..MaxReorgs, confirmed' \in SUBSET (Workflows \X Steps)
    PROVE  TypeInv'
<1>1. TypeOK'
  BY DEF TypeInv, TypeOK, rows
<1>2. UNCHANGED <<log, answer, handler, worker>>
  BY DEF rows
<1> QED  BY <1>1, <1>2 DEF TypeInv, RequestOK, RowOK

LEMMA TypeChain ==
    ASSUME TypeInv, NEW w \in Workflows, NEW k \in Steps, ChainNext(w, k)
    PROVE  TypeInv'
<1> USE DEF TypeInv, TypeOK
<1>1. /\ Pending \in TransactionEvidence
      /\ \A status \in Statuses, block, canonical, ahead \in BOOLEAN :
            Evidence(status, block, canonical, ahead) \in TransactionEvidence
  BY DEF Pending, Evidence, TransactionEvidence, Statuses
<1>2. tx[w][k] \in TransactionEvidence /\ tx[w][k].status \in Statuses
  BY DEF TransactionEvidence
<1>3. ASSUME NEW seen \in TransactionEvidence, SetTx(w, k, seen)
      PROVE  tx' \in [Workflows -> [Steps -> TransactionEvidence]]
  BY <1>3 DEF SetTx
<1>4. CASE \E status \in {"success", "aborted"} : Mine(w, k, status)
  <2>1. PICK status \in {"success", "aborted"} : Mine(w, k, status)
    BY <1>4
  <2>2. tx' \in [Workflows -> [Steps -> TransactionEvidence]]
    BY <1>1, <1>3, <2>1 DEF Mine, Statuses
  <2> QED  BY <2>1, <2>2, ChainStep DEF Mine
<1>5. CASE Drop(w, k)
  <2>1. tx' \in [Workflows -> [Steps -> TransactionEvidence]]
    BY <1>1, <1>3, <1>5 DEF Drop, Statuses
  <2> QED  BY <1>5, <2>1, ChainStep DEF Drop
<1>6. CASE Deepen(w, k)
  <2>1. [tx[w][k] EXCEPT !.ahead = TRUE] \in TransactionEvidence
    BY <1>2 DEF TransactionEvidence
  <2>2. tx' \in [Workflows -> [Steps -> TransactionEvidence]]
    BY <1>3, <1>6, <2>1 DEF Deepen
  <2>3. confirmed' \in SUBSET (Workflows \X Steps)
    BY <1>6 DEF Deepen
  <2> QED  BY <1>6, <2>2, <2>3, ChainStep DEF Deepen
<1>7. CASE Orphan(w, k)
  <2>1. tx' \in [Workflows -> [Steps -> TransactionEvidence]]
    BY <1>1, <1>2, <1>3, <1>7 DEF Orphan
  <2>2. reorgs' \in 0..MaxReorgs
    BY <1>7, ConstantsAssumption DEF Orphan
  <2> QED  BY <1>7, <2>1, <2>2, ChainStep DEF Orphan
<1>8. CASE Return(w, k)
  <2>1. tx' \in [Workflows -> [Steps -> TransactionEvidence]]
    BY <1>1, <1>3, <1>8 DEF Return
  <2> QED  BY <1>8, <2>1, ChainStep DEF Return
<1>9. CASE IngestEvent(w, k)
  BY <1>9, ChainStep DEF IngestEvent, chain
<1>10. CASE Rewind(w, k)
  BY <1>10, ChainStep DEF Rewind, chain
<1> QED  BY <1>4, <1>5, <1>6, <1>7, <1>8, <1>9, <1>10 DEF ChainNext

LEMMA TypeStutter == TypeInv /\ UNCHANGED vars => TypeInv'
BY DEF vars, rows, chain, TypeInv, TypeOK, RequestOK, RowOK

LEMMA TypeStep == TypeInv /\ [Next]_vars => TypeInv'
<1> SUFFICES ASSUME TypeInv, [Next]_vars PROVE TypeInv'
  OBVIOUS
<1>1. ASSUME NEW w \in Workflows, ClientNext(w) PROVE TypeInv'
  BY <1>1, TypeStart, TypeWallet, TypeReadWorkflow DEF ClientNext
<1>2. ASSUME NEW h \in Handlers, HandlerNext(h) PROVE TypeInv'
  BY <1>2, TypeFindAttempt, TypeRecordAttempt, TypeAbandon DEF HandlerNext
<1>3. ASSUME NEW p \in Workers, WorkerNext(p) PROVE TypeInv'
  BY <1>3, TypeListConfirming, TypeListReconciling, TypeReadEvidence,
     TypeReadEffects, TypeWaitForRow, TypeAdvance, TypeDropRow DEF WorkerNext
<1> QED  BY <1>1, <1>2, <1>3, TypeChain, TypeStutter DEF Next

\* Every row, request and tick keeps its form, for every plan and any number of
\* requests and workers, overlapping or not (packages/database/src/execution.ts:
\* the sequence numbers one writer computes are never below what it read).
THEOREM TypeCorrect == Spec => []TypeOK
<1>1. Init => TypeInv
  BY TypeInit
<1>2. TypeInv => TypeOK
  BY DEF TypeInv
<1> QED  BY <1>1, <1>2, TypeStep, PTL DEF Spec

-----------------------------------------------------------------------------
(* History.  The API and the worker write the same rows without a common   *)
(* lock.  What keeps them apart is that an answer that is not recorded yet *)
(* leaves the workflow awaiting a signature, a state no worker moves, and  *)
(* that a claim which matches the count proves the row in hand current.    *)

\* The steps the wallet answered and no attempt records.
Open(w) == {k \in Steps : answer[w][k] # "none" /\ ~Recorded(w, k)}

OpenIsAwaited ==
    \A w \in Workflows : \A k \in Open(w) :
        /\ state[w] = "AWAITING_SIGNATURE"
        /\ \A j \in Open(w) : j = k

\* A report of an open step holds the current row.
RequestSafe(r) ==
    /\ r.pc = "write" => ~Recorded(r.w, r.step)
    /\ (r.pc # "idle" /\ ~Recorded(r.w, r.step)) =>
          r.seen = state[r.w] /\ r.count = Len(log[r.w])

OneRequest ==
    \A g, h \in Handlers :
        (handler[g] # Idle /\ handler[h] # Idle /\ handler[g].w = handler[h].w)
            => g = h

\* Each move is allowed and starts where the one before it ended.
WalkFrom(start, moves) ==
    \A i \in 1..Len(moves) :
        /\ CanTransition(moves[i].from, moves[i].to)
        /\ moves[i].from = IF i = 1 THEN start ELSE moves[i - 1].to

\* What a waiting claim has counted is still so when it gets the row.
CountHolds(r) == r.counted = r.count => r.count = Len(log[r.w])

\* A row in hand remembers where the history ended when it was listed.
RowSafe(r) ==
    /\ r.pc # "idle" => r.count > 0
    /\ r.pc = "evidence" =>
          /\ r.state \in {"SUBMITTED", "CONFIRMING"}
          /\ log[r.w][r.count].to = r.state
    /\ r.pc = "effects" =>
          /\ r.state \in {"STEP_CONFIRMED", "RECONCILING"}
          /\ log[r.w][r.count].to = r.state
    /\ r.pc \in {"claim", "waiting"} =>
          /\ log[r.w][r.count].to # "AWAITING_SIGNATURE"
          /\ WalkFrom(log[r.w][r.count].to, r.moves)
    /\ r.pc = "waiting" => ClaimWaits /\ CountHolds(r)

HistorySafe ==
    /\ StateIsLastTransition
    /\ \A w \in Workflows : WalkFrom("DRAFT", log[w])
    /\ OpenIsAwaited
    /\ \A h \in Handlers : RequestSafe(handler[h])
    /\ OneRequest
    /\ \A p \in Workers : RowSafe(worker[p])

\* The moves the two writers make are in the table.
LEMMA AllowedMoves ==
    /\ CanTransition("DRAFT", "QUOTED")
    /\ CanTransition("QUOTED", "AWAITING_SIGNATURE")
    /\ CanTransition("AWAITING_SIGNATURE", "SUBMITTED")
    /\ CanTransition("AWAITING_SIGNATURE", "BROADCAST_UNKNOWN")
    /\ \A from \in {"SUBMITTED", "CONFIRMING"} :
          \A to \in {"FAILED", "ACTION_REQUIRED", "REORGED"} :
              CanTransition(from, to)
    /\ CanTransition("SUBMITTED", "CONFIRMING")
    /\ CanTransition("CONFIRMING", "STEP_CONFIRMED")
    /\ CanTransition("STEP_CONFIRMED", "AWAITING_SIGNATURE")
    /\ CanTransition("STEP_CONFIRMED", "RECONCILING")
    /\ CanTransition("RECONCILING", "COMPLETED")
    /\ CanTransition("RECONCILING", "ACTION_REQUIRED")
BY DEF CanTransition, ALLOWED, States

LEMMA MovesWalk ==
    ASSUME NEW from \in States, NEW path \in Seq(States),
           \A i \in 1..Len(path) :
               CanTransition(IF i = 1 THEN from ELSE path[i - 1], path[i])
    PROVE  WalkFrom(from, MovesAlong(from, path))
<1>1. CASE path = <<>>
  <2>1. Len(path) = 0
    BY <1>1, EmptySeq
  <2>2. Len(MovesAlong(from, path)) = 0
    BY <2>1 DEF MovesAlong
  <2> QED  BY <2>2 DEF WalkFrom
<1>2. CASE path # <<>>
  <2>1. Len(MovesAlong(from, path)) = Len(path) /\ Len(path) \in Nat
    BY <1>2, MovesAlongType, LenProperties
  <2>2. \A i \in 1..Len(path) :
            /\ MovesAlong(from, path)[i].to = path[i]
            /\ MovesAlong(from, path)[i].from =
                  IF i = 1 THEN from ELSE path[i - 1]
    BY DEF MovesAlong
  <2>3. \A i \in 1..Len(path) : i # 1 => i - 1 \in 1..Len(path)
    BY <2>1
  <2>4. \A i \in 1..Len(path) :
            i # 1 => MovesAlong(from, path)[i - 1].to = path[i - 1]
    BY <2>2, <2>3
  <2> DEFINE moves == MovesAlong(from, path)
  <2> HIDE DEF moves
  <2>5. \A i \in 1..Len(path) :
            /\ CanTransition(moves[i].from, moves[i].to)
            /\ moves[i].from = IF i = 1 THEN from ELSE moves[i - 1].to
    BY <2>2, <2>4 DEF moves
  <2> QED  BY <2>1, <2>5 DEF WalkFrom, moves
<1> QED  BY <1>1, <1>2

LEMMA AdmissionWalk == WalkFrom("DRAFT", MovesAlong("DRAFT", AdmissionPath))
<1>1. "DRAFT" \in States /\ AdmissionPath \in Seq(States)
  BY DEF AdmissionPath, States
<1>2. \A i \in 1..Len(AdmissionPath) :
          CanTransition(IF i = 1 THEN "DRAFT" ELSE AdmissionPath[i - 1],
                        AdmissionPath[i])
  BY AllowedMoves DEF AdmissionPath
<1> QED  BY <1>1, <1>2, MovesWalk

\* Tuples joined as the decisions join them.
LEMMA TupleConcat ==
    ASSUME NEW S, NEW a \in S, NEW b \in S, NEW c \in S, NEW s \in Seq(S)
    PROVE  /\ <<>> \o s = s
           /\ <<a>> \o <<b>> = <<a, b>>
           /\ <<a>> \o <<b, c>> = <<a, b, c>>
<1>1. <<>> \o s = s
  BY ConcatEmptySeq
<1>2. <<a>> \o <<b>> = <<a, b>>
  <2> DEFINE t == <<a>> \o <<b>>
  <2>1. /\ t \in Seq(S) /\ Len(t) = 2
        /\ t[1] = a /\ t[2] = b
    BY ConcatProperties, <<a>> \in Seq(S), <<b>> \in Seq(S),
       Len(<<a>>) = 1, Len(<<b>>) = 1
  <2>2. <<a, b>> \in Seq(S) /\ Len(<<a, b>>) = 2
    OBVIOUS
  <2> HIDE DEF t
  <2>3. \A i \in 1..Len(t) : t[i] = <<a, b>>[i]
    BY <2>1
  <2>4. t = <<a, b>>
    BY <2>1, <2>2, <2>3, SeqEqual
  <2> QED  BY <2>4 DEF t
<1>3. <<a>> \o <<b, c>> = <<a, b, c>>
  <2> DEFINE t == <<a>> \o <<b, c>>
  <2>1. /\ t \in Seq(S) /\ Len(t) = 3
        /\ t[1] = a /\ t[2] = b /\ t[3] = c
    BY ConcatProperties, <<a>> \in Seq(S), <<b, c>> \in Seq(S),
       Len(<<a>>) = 1, Len(<<b, c>>) = 2
  <2>2. <<a, b, c>> \in Seq(S) /\ Len(<<a, b, c>>) = 3
    OBVIOUS
  <2> HIDE DEF t
  <2>3. \A i \in 1..Len(t) : t[i] = <<a, b, c>>[i]
    BY <2>1
  <2>4. t = <<a, b, c>>
    BY <2>1, <2>2, <2>3, SeqEqual
  <2> QED  BY <2>4 DEF t
<1> QED  BY <1>1, <1>2, <1>3

LEMMA ReconciliationWalk ==
    ASSUME NEW from \in {"STEP_CONFIRMED", "RECONCILING"}, NEW verdict
    PROVE  WalkFrom(from, MovesAlong(from, ReconciliationPath(from, verdict)))
<1> DEFINE path == ReconciliationPath(from, verdict)
           last == IF verdict = "matched" THEN "COMPLETED" ELSE "ACTION_REQUIRED"
<1>1. path = IF from = "STEP_CONFIRMED" THEN <<"RECONCILING", last>> ELSE <<last>>
  <2>1. "RECONCILING" \in States /\ last \in States /\ <<last>> \in Seq(States)
    BY DEF States
  <2> HIDE DEF last
  <2>2. <<>> \o <<last>> = <<last>>
        /\ <<"RECONCILING">> \o <<last>> = <<"RECONCILING", last>>
    BY <2>1, TupleConcat
  <2> QED  BY <2>2 DEF ReconciliationPath, last
<1>2. \A i \in 1..Len(path) :
          CanTransition(IF i = 1 THEN from ELSE path[i - 1], path[i])
  BY <1>1, AllowedMoves
<1>3. from \in States
  BY DEF States
<1> QED  BY <1>2, <1>3, PathTypes, MovesWalk

LEMMA ConfirmationWalk ==
    ASSUME NEW from \in {"SUBMITTED", "CONFIRMING"}, NEW seen, NEW final
    PROVE  WalkFrom(from, MovesAlong(from, ConfirmationDecision(from, seen, final)))
<1> DEFINE path == ConfirmationDecision(from, seen, final)
<1>1. path \in {<<>>, <<"FAILED">>, <<"ACTION_REQUIRED">>, <<"REORGED">>,
                ConfirmedPath(from, seen.ahead, final)}
  BY DEF ConfirmationDecision
<1>2. ConfirmedPath(from, seen.ahead, final) \in
          IF from = "SUBMITTED"
          THEN {<<"CONFIRMING">>, <<"CONFIRMING", "STEP_CONFIRMED">>,
                <<"CONFIRMING", "STEP_CONFIRMED", "AWAITING_SIGNATURE">>}
          ELSE {<<>>, <<"STEP_CONFIRMED">>,
                <<"STEP_CONFIRMED", "AWAITING_SIGNATURE">>}
  <2>1. {"CONFIRMING", "STEP_CONFIRMED", "AWAITING_SIGNATURE"} \subseteq States
        /\ <<"STEP_CONFIRMED">> \in Seq(States)
        /\ <<"STEP_CONFIRMED", "AWAITING_SIGNATURE">> \in Seq(States)
    BY DEF States
  <2>2. /\ <<>> \o <<"STEP_CONFIRMED">> = <<"STEP_CONFIRMED">>
        /\ <<>> \o <<"STEP_CONFIRMED", "AWAITING_SIGNATURE">> =
              <<"STEP_CONFIRMED", "AWAITING_SIGNATURE">>
        /\ <<"CONFIRMING">> \o <<"STEP_CONFIRMED">> =
              <<"CONFIRMING", "STEP_CONFIRMED">>
        /\ <<"CONFIRMING">> \o <<"STEP_CONFIRMED", "AWAITING_SIGNATURE">> =
              <<"CONFIRMING", "STEP_CONFIRMED", "AWAITING_SIGNATURE">>
    BY <2>1, TupleConcat
  <2> QED  BY <2>2 DEF ConfirmedPath
<1>3. from \in States
  BY DEF States
<1> HIDE DEF path
<1>4. \A i \in 1..Len(path) :
          CanTransition(IF i = 1 THEN from ELSE path[i - 1], path[i])
  BY <1>1, <1>2, AllowedMoves
<1> QED  BY <1>3, <1>4, PathTypes, MovesWalk DEF path

\* Appending a walk that starts where the history ends.
LEMMA WalkConcat ==
    ASSUME NEW start, NEW stored \in Seq(Move), NEW moves \in Seq(Move),
           WalkFrom(start, stored),
           WalkFrom(IF stored = <<>> THEN start ELSE stored[Len(stored)].to, moves)
    PROVE  WalkFrom(start, stored \o moves)
<1> DEFINE n == Len(stored)
           all == stored \o moves
<1>1. /\ n \in Nat /\ Len(moves) \in Nat /\ Len(all) = n + Len(moves)
      /\ \A i \in 1..(n + Len(moves)) :
            all[i] = IF i <= n THEN stored[i] ELSE moves[i - n]
  BY LenProperties, ConcatProperties
<1>2. stored = <<>> <=> n = 0
  BY EmptySeq
<1> SUFFICES ASSUME NEW i \in 1..Len(all)
             PROVE  /\ CanTransition(all[i].from, all[i].to)
                    /\ all[i].from = IF i = 1 THEN start ELSE all[i - 1].to
  BY DEF WalkFrom
<1> HIDE DEF n, all
<1>3. CASE i <= n
  <2>1. i \in 1..n /\ (i # 1 => i - 1 \in 1..n)
    BY <1>1, <1>3
  <2>2. all[i] = stored[i] /\ (i # 1 => all[i - 1] = stored[i - 1])
    BY <1>1, <2>1
  <2> QED  BY <2>1, <2>2 DEF WalkFrom, n
<1>4. CASE i = n + 1
  <2>1. 1 \in 1..Len(moves) /\ all[i] = moves[1]
    BY <1>1, <1>4
  <2>2. i # 1 => all[i - 1] = stored[n]
    BY <1>1, <1>4
  <2>3. i = 1 <=> n = 0
    BY <1>1, <1>4
  <2> QED  BY <1>2, <2>1, <2>2, <2>3 DEF WalkFrom, n
<1>5. CASE i > n + 1
  <2>1. /\ i - n \in 1..Len(moves) /\ i - n # 1 /\ i # 1
        /\ i - n - 1 = (i - 1) - n
    BY <1>1, <1>5
  <2>2. all[i] = moves[i - n] /\ all[i - 1] = moves[i - n - 1]
    BY <1>1, <1>5
  <2> QED  BY <2>1, <2>2 DEF WalkFrom
<1> QED  BY <1>1, <1>3, <1>4, <1>5

\* Where the next transition starts.
End(w) == IF log[w] = <<>> THEN "DRAFT" ELSE log[w][Len(log[w])].to

\* A write that continues the history of one workflow.
LEMMA WriteContinues ==
    ASSUME TypeInv, HistorySafe, NEW w \in Workflows,
           NEW moves \in Seq(Move), moves # <<>>,
           WalkFrom(End(w), moves), Write(w, moves, Len(log[w]))
    PROVE  /\ state' = [state EXCEPT ![w] = moves[Len(moves)].to]
           /\ log' = [log EXCEPT ![w] = log[w] \o moves]
           /\ Len(log'[w]) > Len(log[w])
           /\ \A v \in Workflows : \A i \in 1..Len(log[v]) : log'[v][i] = log[v][i]
           /\ StateIsLastTransition'
           /\ \A v \in Workflows : WalkFrom("DRAFT", log[v])'
<1>1. log[w] \in Seq(Move)
  BY DEF TypeInv, TypeOK
<1>2. /\ InsertTransitions(log[w], moves, Len(log[w])) = log[w] \o moves
      /\ Len(log[w] \o moves) = Len(log[w]) + Len(moves)
      /\ log[w] \o moves # <<>>
      /\ (log[w] \o moves)[Len(log[w] \o moves)] = moves[Len(moves)]
      /\ \A i \in 1..Len(log[w]) : (log[w] \o moves)[i] = log[w][i]
  BY <1>1, InsertAppends
<1>3. state' = [state EXCEPT ![w] = moves[Len(moves)].to]
      /\ log' = [log EXCEPT ![w] = log[w] \o moves]
  BY <1>2 DEF Write
<1>4. /\ log'[w] = log[w] \o moves
      /\ state'[w] = moves[Len(moves)].to
      /\ \A v \in Workflows : v # w => state'[v] = state[v] /\ log'[v] = log[v]
  BY <1>3 DEF TypeInv, TypeOK
<1>5. Len(log'[w]) > Len(log[w])
  BY <1>1, <1>2, <1>4, LenProperties, EmptySeq
<1>6. \A v \in Workflows : \A i \in 1..Len(log[v]) : log'[v][i] = log[v][i]
  BY <1>2, <1>4
<1>7. moves[Len(moves)].to \in States
  <2>1. Len(moves) \in 1..Len(moves)
    BY LenProperties, EmptySeq
  <2>2. moves[Len(moves)] \in Move
    BY <2>1, ElementOfSeq
  <2> QED  BY <2>2 DEF Move
<1>8. StateIsLastTransition'
  <2>1. state'[w] # "NONE" /\ log'[w] # <<>>
        /\ state'[w] = log'[w][Len(log'[w])].to
    BY <1>2, <1>4, <1>7 DEF States
  <2> QED  BY <1>4, <2>1 DEF StateIsLastTransition, HistorySafe
<1>9. ASSUME NEW v \in Workflows PROVE WalkFrom("DRAFT", log'[v])
  <2>1. WalkFrom("DRAFT", log[w] \o moves)
    BY <1>1, WalkConcat DEF HistorySafe, End
  <2> QED  BY <1>4, <2>1 DEF HistorySafe
<1> QED  BY <1>3, <1>5, <1>6, <1>8, <1>9 DEF WalkFrom

\* A row in hand stays as safe as it was while histories only grow.
LEMMA RowKept ==
    ASSUME NEW r \in RowInHand, RowSafe(r), RowOK(r),
           \A v \in Workflows : \A i \in 1..Len(log[v]) : log'[v][i] = log[v][i],
           log \in [Workflows -> Seq(Move)],
           r.pc = "waiting" => CountHolds(r)'
    PROVE  RowSafe(r)'
<1>1. CASE r.pc = "idle"
  BY <1>1 DEF RowSafe
<1>2. CASE r.pc # "idle"
  <2>1. r.w \in Workflows /\ r.count \in Nat
    BY <1>2 DEF RowInHand, Idle
  <2>2. r.count > 0 /\ r.count <= Len(log[r.w]) /\ Len(log[r.w]) \in Nat
    BY <1>2, <2>1, LenProperties DEF RowSafe, RowOK
  <2>3. log'[r.w][r.count] = log[r.w][r.count]
    BY <2>1, <2>2
  <2> QED  BY <2>3 DEF RowSafe
<1> QED  BY <1>1, <1>2

\* Steps that leave the rows and the answers alone.
LEMMA WorkerStepSafe ==
    ASSUME TypeInv, HistorySafe, NEW p \in Workers, NEW r, RowSafe(r),
           worker' = [worker EXCEPT ![p] = r],
           UNCHANGED <<rows, answer, handler>>
    PROVE  HistorySafe'
<1>1. \A q \in Workers : RowSafe(worker[q])'
  BY DEF HistorySafe, TypeInv, TypeOK, RowSafe, CountHolds, rows
<1>2. UNCHANGED <<state, log, attempts, answer, handler>>
  BY DEF rows
<1> QED  BY <1>1, <1>2 DEF HistorySafe, StateIsLastTransition, OpenIsAwaited,
            Open, Recorded, RequestSafe, OneRequest

LEMMA RequestStepSafe ==
    ASSUME TypeInv, HistorySafe, NEW h \in Handlers, NEW r, RequestSafe(r),
           handler' = [handler EXCEPT ![h] = r], OneRequest',
           UNCHANGED <<rows, answer, worker>>
    PROVE  HistorySafe'
<1>1. UNCHANGED <<state, log, attempts, answer, worker>>
  BY DEF rows
<1>2. ASSUME NEW g \in Handlers PROVE RequestSafe(handler[g])'
  <2>1. RequestSafe(handler'[g])
    BY DEF HistorySafe, TypeInv, TypeOK
  <2> QED  BY <1>1, <2>1 DEF RequestSafe, Recorded
<1> QED  BY <1>1, <1>2 DEF HistorySafe, StateIsLastTransition, OpenIsAwaited,
            Open, Recorded, RowSafe, CountHolds

LEMMA IdleSafe == RowSafe(Idle) /\ RequestSafe(Idle)
BY DEF RowSafe, RequestSafe, Idle

LEMMA HistoryInit == ASSUME Init PROVE HistorySafe
<1>1. \A w \in Workflows : log[w] = <<>> /\ state[w] = "NONE" /\ Open(w) = {}
  BY DEF Init, Open
<1>2. \A w \in Workflows : WalkFrom("DRAFT", log[w])
  <2>1. \A i \in 1..Len(<<>>) : FALSE
    OBVIOUS
  <2> QED  BY <1>1, <2>1 DEF WalkFrom
<1>3. /\ \A h \in Handlers : handler[h] = Idle
      /\ \A p \in Workers : worker[p] = Idle
  BY DEF Init
<1> QED  BY <1>1, <1>2, <1>3, IdleSafe
         DEF HistorySafe, StateIsLastTransition, OpenIsAwaited, OneRequest

\* A request in flight for an open step, or for one recorded before.
LEMMA RequestIsOpen ==
    ASSUME TypeInv, HistorySafe, NEW h \in Handlers, handler[h].pc # "idle",
           ~Recorded(handler[h].w, handler[h].step)
    PROVE  /\ handler[h].step \in Open(handler[h].w)
           /\ state[handler[h].w] = "AWAITING_SIGNATURE"
           /\ handler[h].seen = "AWAITING_SIGNATURE"
           /\ handler[h].count = Len(log[handler[h].w])
<1>1. handler[h].w \in Workflows /\ handler[h].step \in Steps
  BY RequestFields
<1>2. answer[handler[h].w][handler[h].step] # "none"
  BY DEF TypeInv, RequestOK
<1>3. handler[h].step \in Open(handler[h].w)
  BY <1>1, <1>2 DEF Open
<1>4. state[handler[h].w] = "AWAITING_SIGNATURE"
  BY <1>1, <1>3 DEF HistorySafe, OpenIsAwaited
<1> QED  BY <1>3, <1>4 DEF HistorySafe, RequestSafe

LEMMA SafeStart ==
    ASSUME TypeInv, HistorySafe, NEW w \in Workflows, StartWorkflow(w)
    PROVE  HistorySafe'
<1> DEFINE moves == MovesAlong("DRAFT", AdmissionPath)
<1>1. state[w] = "NONE" /\ log[w] = <<>>
  BY DEF StartWorkflow, HistorySafe, StateIsLastTransition
<1>2. Write(w, moves, Len(log[w]))
  <2>1. Len(log[w]) = 0
    BY <1>1, EmptySeq
  <2> QED  BY <2>1 DEF StartWorkflow
<1>3. moves \in Seq(Move) /\ moves # <<>> /\ WalkFrom(End(w), moves)
  BY <1>1, AdmissionType, AdmissionWalk DEF End
<1> HIDE DEF moves
<1>4. /\ state' = [state EXCEPT ![w] = moves[Len(moves)].to]
      /\ log' = [log EXCEPT ![w] = log[w] \o moves]
      /\ \A v \in Workflows : \A i \in 1..Len(log[v]) : log'[v][i] = log[v][i]
      /\ StateIsLastTransition'
      /\ \A v \in Workflows : WalkFrom("DRAFT", log[v])'
  BY <1>2, <1>3, WriteContinues
<1>5. UNCHANGED <<attempts, answer, handler, worker>>
  BY DEF StartWorkflow
<1>6. Open(w) = {}
  BY <1>1 DEF HistorySafe, OpenIsAwaited
<1>7. /\ \A v \in Workflows : Open(v)' = Open(v)
      /\ \A v \in Workflows : v # w => state'[v] = state[v] /\ log'[v] = log[v]
  BY <1>4, <1>5 DEF Open, Recorded, TypeInv, TypeOK
<1>8. OpenIsAwaited'
  BY <1>6, <1>7 DEF OpenIsAwaited, HistorySafe
<1>9. ASSUME NEW h \in Handlers PROVE RequestSafe(handler[h])'
  <2>1. CASE handler[h].pc = "idle"
    BY <1>5, <2>1 DEF RequestSafe
  <2>2. CASE handler[h].pc # "idle" /\ handler[h].w = w
    <3>1. Recorded(w, handler[h].step)
      BY <1>1, <2>2, RequestIsOpen
    <3>2. Recorded(w, handler[h].step)' /\ handler[h].pc # "write"
      BY <1>5, <2>2, <3>1 DEF Recorded, RequestSafe, HistorySafe
    <3> QED  BY <1>5, <2>2, <3>2 DEF RequestSafe
  <2>3. CASE handler[h].pc # "idle" /\ handler[h].w # w
    <3>1. handler[h].w \in Workflows
      BY <2>3, RequestFields
    <3> QED  BY <1>5, <1>7, <2>3, <3>1 DEF RequestSafe, Recorded, HistorySafe
  <2> QED  BY <2>1, <2>2, <2>3
<1>10. OneRequest'
  BY <1>5 DEF OneRequest, HistorySafe
<1>11. ASSUME NEW p \in Workers PROVE RowSafe(worker[p])'
  <2>1. worker[p] \in RowInHand /\ RowSafe(worker[p]) /\ RowOK(worker[p])
    BY DEF TypeInv, TypeOK, HistorySafe
  <2>2. log \in [Workflows -> Seq(Move)] /\ worker' = worker
    BY <1>5 DEF TypeInv, TypeOK
  <2>3. worker[p].pc = "waiting" => CountHolds(worker[p])'
    <3>1. worker[p].pc = "waiting" =>
              worker[p].w \in Workflows /\ worker[p].count > 0
              /\ worker[p].count <= Len(log[worker[p].w]) /\ CountHolds(worker[p])
      BY <2>1, RowFields DEF RowSafe
    <3>2. Len(log[w]) = 0
      BY <1>1, EmptySeq
    <3> QED  BY <1>7, <2>2, <3>1, <3>2 DEF CountHolds
  <2> QED  BY <1>4, <2>1, <2>2, <2>3, RowKept DEF RowSafe
<1> QED  BY <1>4, <1>8, <1>9, <1>10, <1>11 DEF HistorySafe

LEMMA SafeWallet ==
    ASSUME TypeInv, HistorySafe, NEW w \in Workflows, NEW k \in Steps,
           NEW outcome \in Outcomes, WalletAnswers(w, k, outcome)
    PROVE  HistorySafe'
<1>1. UNCHANGED <<state, log, attempts, handler, worker>>
  BY DEF WalletAnswers, rows
<1>2. answer' = [answer EXCEPT ![w][k] = outcome]
      /\ state[w] = "AWAITING_SIGNATURE"
      /\ \A j \in Steps : answer[w][j] # "none" => Recorded(w, j)
  BY DEF WalletAnswers
<1>3. Open(w)' \subseteq {k}
      /\ \A v \in Workflows : v # w => Open(v)' = Open(v)
  BY <1>1, <1>2 DEF Open, Recorded, TypeInv, TypeOK
<1>4. OpenIsAwaited'
  BY <1>1, <1>2, <1>3 DEF OpenIsAwaited, HistorySafe
<1> QED  BY <1>1, <1>4 DEF HistorySafe, StateIsLastTransition, RequestSafe,
            Recorded, OneRequest, RowSafe, CountHolds

LEMMA SafeReadWorkflow ==
    ASSUME TypeInv, HistorySafe, SerialReports, NEW h \in Handlers,
           NEW w \in Workflows, NEW k \in Steps, ReadWorkflow(h, w, k)
    PROVE  HistorySafe'
<1> DEFINE r == [pc |-> "read", w |-> w, step |-> k,
                 seen |-> state[w], count |-> Len(log[w])]
<1>1. handler' = [handler EXCEPT ![h] = r]
      /\ UNCHANGED <<rows, answer, worker>>
      /\ \A g \in Handlers : handler[g] # Idle => handler[g].w # w
  BY DEF ReadWorkflow
<1>2. RequestSafe(r)
  BY DEF RequestSafe
<1>3. r.w = w
  OBVIOUS
<1> HIDE DEF r
<1>4. OneRequest'
  BY <1>1, <1>3 DEF OneRequest, HistorySafe, TypeInv, TypeOK
<1> QED  BY <1>1, <1>2, <1>4, RequestStepSafe

LEMMA SafeFindAttempt ==
    ASSUME TypeInv, HistorySafe, NEW h \in Handlers, FindAttempt(h)
    PROVE  HistorySafe'
<1>1. /\ handler[h] \in Request /\ handler[h].pc = "read"
      /\ UNCHANGED <<rows, answer, worker>>
  BY DEF TypeInv, TypeOK, FindAttempt
<1> DEFINE r == IF Recorded(handler[h].w, handler[h].step)
                    \/ ~Accepts(handler[h].seen,
                                answer[handler[h].w][handler[h].step])
                THEN Idle
                ELSE [handler[h] EXCEPT !.pc = "write"]
<1>2. handler' = [handler EXCEPT ![h] = r]
  BY DEF FindAttempt
<1>3. CASE r = Idle
  <2>1. OneRequest'
    BY <1>2, <1>3 DEF OneRequest, HistorySafe, TypeInv, TypeOK
  <2> QED  BY <1>1, <1>2, <1>3, <2>1, IdleSafe, RequestStepSafe
<1>4. CASE r # Idle
  <2>1. /\ ~Recorded(handler[h].w, handler[h].step)
        /\ r = [handler[h] EXCEPT !.pc = "write"]
    BY <1>4
  <2>2. /\ r.w = handler[h].w /\ r.step = handler[h].step
        /\ r.seen = handler[h].seen /\ r.count = handler[h].count
        /\ r.pc = "write"
    BY <1>1, <2>1 DEF Request, Idle
  <2> HIDE DEF r
  <2>3. RequestSafe(r)
    BY <1>1, <2>1, <2>2 DEF RequestSafe, HistorySafe
  <2>4. handler[h] # Idle
    BY <1>1 DEF Idle
  <2>5. OneRequest'
    BY <1>2, <2>2, <2>4 DEF OneRequest, HistorySafe, TypeInv, TypeOK
  <2> QED  BY <1>1, <1>2, <2>3, <2>5, RequestStepSafe
<1> QED  BY <1>3, <1>4

LEMMA SafeAbandon ==
    ASSUME TypeInv, HistorySafe, NEW h \in Handlers, AbandonRequest(h)
    PROVE  HistorySafe'
<1>1. handler' = [handler EXCEPT ![h] = Idle] /\ UNCHANGED <<rows, answer, worker>>
  BY DEF AbandonRequest
<1>2. OneRequest'
  BY <1>1 DEF OneRequest, HistorySafe, TypeInv, TypeOK
<1> QED  BY <1>1, <1>2, IdleSafe, RequestStepSafe

\* Nothing that was recorded is lost, and the attempt is there afterwards.
LEMMA AddAttemptKeeps ==
    ASSUME NEW T, NEW stored \in Seq(T), NEW attempt \in T
    PROVE  /\ \A i \in DOMAIN stored :
                 /\ i \in DOMAIN AddAttempt(stored, attempt)
                 /\ AddAttempt(stored, attempt)[i] = stored[i]
           /\ \E i \in DOMAIN AddAttempt(stored, attempt) :
                 AddAttempt(stored, attempt)[i] = attempt
<1>1. Len(stored) \in Nat /\ DOMAIN stored = 1..Len(stored)
  BY LenProperties
<1>2. CASE attempt.outcome = "BROADCAST" /\ attempt \in Range(stored)
  BY <1>2 DEF AddAttempt, Range
<1>3. CASE ~(attempt.outcome = "BROADCAST" /\ attempt \in Range(stored))
  <2>1. AddAttempt(stored, attempt) = Append(stored, attempt)
    BY <1>3 DEF AddAttempt
  <2>2. /\ Append(stored, attempt) \in Seq(T)
        /\ Len(Append(stored, attempt)) = Len(stored) + 1
        /\ \A i \in 1..Len(stored) : Append(stored, attempt)[i] = stored[i]
        /\ Append(stored, attempt)[Len(stored) + 1] = attempt
    BY AppendProperties
  <2>3. DOMAIN Append(stored, attempt) = 1..(Len(stored) + 1)
    BY <2>2, LenProperties
  <2> QED  BY <1>1, <2>1, <2>2, <2>3
<1> QED  BY <1>2, <1>3

\* The one write of the API, for the step, workflow and outcome of a request.
LEMMA RecordWrites ==
    ASSUME TypeInv, HistorySafe, NEW h \in Handlers, RecordAttempt(h),
           NEW w \in Workflows, w = handler[h].w,
           NEW step \in Steps, step = handler[h].step,
           NEW outcome \in Outcomes, outcome = answer[w][step],
           NEW move, move = [from |-> "AWAITING_SIGNATURE", to |-> TargetOf(outcome)],
           NEW attempt, attempt = [step |-> step, outcome |-> outcome]
    PROVE  /\ step \in Open(w) /\ state[w] = "AWAITING_SIGNATURE"
           /\ move \in Move /\ WalkFrom(End(w), <<move>>)
           /\ Write(w, <<move>>, Len(log[w]))
           /\ attempts' = [attempts EXCEPT ![w] = AddAttempt(attempts[w], attempt)]
           /\ handler' = [handler EXCEPT ![h] = Idle]
           /\ UNCHANGED <<answer, worker>>
           /\ handler[h] # Idle
<1>1. handler[h].pc = "write" /\ handler[h].pc # "idle" /\ ~Recorded(w, step)
  BY DEF RecordAttempt, HistorySafe, RequestSafe
<1>2. /\ step \in Open(w) /\ state[w] = "AWAITING_SIGNATURE"
      /\ handler[h].seen = "AWAITING_SIGNATURE"
      /\ handler[h].count = Len(log[w])
  BY <1>1, RequestIsOpen
<1>3. /\ move.from = "AWAITING_SIGNATURE"
      /\ move.to \in {"SUBMITTED", "BROADCAST_UNKNOWN"}
  BY DEF TargetOf
<1>4. /\ handler' = [handler EXCEPT ![h] = Idle]
      /\ attempts' = [attempts EXCEPT ![w] = AddAttempt(attempts[w], attempt)]
      /\ Write(w, <<move>>, Len(log[w]))
      /\ UNCHANGED <<answer, worker>>
  BY <1>2, <1>3 DEF RecordAttempt
<1>5. End(w) = "AWAITING_SIGNATURE"
  BY <1>2 DEF End, HistorySafe, StateIsLastTransition
<1>6. move \in Move
  BY <1>3 DEF Move, States
<1>7. WalkFrom(End(w), <<move>>)
  <2>1. CanTransition(move.from, move.to)
    BY <1>3, AllowedMoves
  <2> QED  BY <1>3, <1>5, <2>1 DEF WalkFrom
<1> QED  BY <1>1, <1>2, <1>4, <1>6, <1>7 DEF Idle

LEMMA RecordedAfter ==
    ASSUME TypeInv, NEW w \in Workflows, NEW attempt \in [step : Steps, outcome : Outcomes],
           attempts' = [attempts EXCEPT ![w] = AddAttempt(attempts[w], attempt)]
    PROVE  /\ Recorded(w, attempt.step)'
           /\ \A k \in Steps : Recorded(w, k) => Recorded(w, k)'
<1>1. attempts'[w] = AddAttempt(attempts[w], attempt)
      /\ attempts[w] \in Seq([step : Steps, outcome : Outcomes])
  BY DEF TypeInv, TypeOK
<1>2. /\ \A i \in DOMAIN attempts[w] :
            i \in DOMAIN attempts'[w] /\ attempts'[w][i] = attempts[w][i]
      /\ \E i \in DOMAIN attempts'[w] : attempts'[w][i] = attempt
  <2> DEFINE T == [step : Steps, outcome : Outcomes]
             stored == attempts[w]
             longer == AddAttempt(stored, attempt)
  <2>1. stored \in Seq(T) /\ attempt \in T
    BY <1>1
  <2> HIDE DEF T, stored
  <2>2. /\ \A i \in DOMAIN stored : i \in DOMAIN longer /\ longer[i] = stored[i]
        /\ \E i \in DOMAIN longer : longer[i] = attempt
    BY <2>1, AddAttemptKeeps
  <2>3. attempts'[w] = longer
    BY <1>1 DEF stored
  <2> HIDE DEF longer
  <2> QED  BY <2>2, <2>3 DEF stored
<1>3. \E i \in DOMAIN attempts'[w] : attempts'[w][i].step = attempt.step
  BY <1>2
<1>4. ASSUME NEW k \in Steps, \E i \in DOMAIN attempts[w] : attempts[w][i].step = k
      PROVE  \E i \in DOMAIN attempts'[w] : attempts'[w][i].step = k
  BY <1>2, <1>4
<1> QED  BY <1>3, <1>4 DEF Recorded

LEMMA SafeRecordAttempt ==
    ASSUME TypeInv, HistorySafe, NEW h \in Handlers, RecordAttempt(h)
    PROVE  /\ HistorySafe'
           /\ \E w \in Workflows, moves \in Seq(Move) :
                 /\ moves # <<>> /\ WalkFrom(End(w), moves)
                 /\ Write(w, moves, Len(log[w]))
                 /\ state[w] # "NONE"
<1>1. PICK w \in Workflows : w = handler[h].w
  BY RequestFields DEF RecordAttempt
<1>2. PICK step \in Steps : step = handler[h].step
  BY RequestFields DEF RecordAttempt
<1>3. PICK outcome \in Outcomes : outcome = answer[w][step]
  BY <1>1, <1>2, RequestFields DEF RecordAttempt
<1>4. PICK move : move = [from |-> "AWAITING_SIGNATURE", to |-> TargetOf(outcome)]
  OBVIOUS
<1>5. PICK attempt : attempt = [step |-> step, outcome |-> outcome]
  OBVIOUS
<1>6. /\ step \in Open(w) /\ state[w] = "AWAITING_SIGNATURE"
      /\ move \in Move /\ WalkFrom(End(w), <<move>>)
      /\ Write(w, <<move>>, Len(log[w]))
      /\ attempts' = [attempts EXCEPT ![w] = AddAttempt(attempts[w], attempt)]
      /\ handler' = [handler EXCEPT ![h] = Idle]
      /\ UNCHANGED <<answer, worker>>
      /\ handler[h] # Idle
  BY <1>1, <1>2, <1>3, <1>4, <1>5, RecordWrites
<1>7. <<move>> \in Seq(Move) /\ <<move>> # <<>>
  BY <1>6
<1>8. /\ state' = [state EXCEPT ![w] = <<move>>[Len(<<move>>)].to]
      /\ log' = [log EXCEPT ![w] = log[w] \o <<move>>]
      /\ \A v \in Workflows : \A i \in 1..Len(log[v]) : log'[v][i] = log[v][i]
      /\ StateIsLastTransition'
      /\ \A v \in Workflows : WalkFrom("DRAFT", log[v])'
  BY <1>6, <1>7, WriteContinues
<1>9. \A v \in Workflows : v # w => /\ state'[v] = state[v] /\ log'[v] = log[v]
                                    /\ attempts'[v] = attempts[v]
  BY <1>6, <1>8 DEF TypeInv, TypeOK
<1>10. Recorded(w, step)' /\ \A k \in Steps : Recorded(w, k) => Recorded(w, k)'
  <2>1. attempt \in [step : Steps, outcome : Outcomes] /\ attempt.step = step
    BY <1>5
  <2>2. Recorded(w, attempt.step)' /\ \A k \in Steps : Recorded(w, k) => Recorded(w, k)'
    BY <1>6, <2>1, RecordedAfter
  <2> QED  BY <2>1, <2>2
<1>11. Open(w)' = {}
  <2>1. \A k \in Open(w) : k = step
    BY <1>6 DEF HistorySafe, OpenIsAwaited
  <2> QED  BY <1>6, <1>10, <2>1 DEF Open
<1>12. \A v \in Workflows : v # w => Open(v)' = Open(v)
  BY <1>6, <1>9 DEF Open, Recorded
<1>13. OpenIsAwaited'
  BY <1>9, <1>11, <1>12 DEF OpenIsAwaited, HistorySafe
<1>14. ASSUME NEW g \in Handlers PROVE RequestSafe(handler[g])'
  <2>1. CASE handler'[g] = Idle
    BY <2>1 DEF RequestSafe, Idle
  <2>2. CASE handler'[g] # Idle
    <3>1. g # h /\ handler'[g] = handler[g]
      BY <1>6, <2>2 DEF TypeInv, TypeOK
    <3>2. handler[g].w \in Workflows /\ handler[g].w # w
      <4>1. handler[g] \in Request \ {Idle}
        BY <2>2, <3>1 DEF TypeInv, TypeOK
      <4>2. handler[g].w \in Workflows
        BY <4>1 DEF Request
      <4> QED  BY <1>1, <1>6, <2>2, <3>1, <4>2 DEF HistorySafe, OneRequest
    <3>3. RequestSafe(handler[g])
      BY DEF HistorySafe
    <3> QED  BY <1>9, <3>1, <3>2, <3>3 DEF RequestSafe, Recorded
  <2> QED  BY <2>1, <2>2
<1>15. OneRequest'
  BY <1>6 DEF OneRequest, HistorySafe, TypeInv, TypeOK
<1>16. ASSUME NEW p \in Workers PROVE RowSafe(worker[p])'
  <2>1. worker[p] \in RowInHand /\ RowSafe(worker[p]) /\ RowOK(worker[p])
    BY DEF TypeInv, TypeOK, HistorySafe
  <2>2. log \in [Workflows -> Seq(Move)] /\ worker' = worker
    BY <1>6 DEF TypeInv, TypeOK
  <2>3. worker[p].pc = "waiting" => CountHolds(worker[p])'
    <3>1. worker[p].pc = "waiting" =>
              worker[p].w \in Workflows /\ CountHolds(worker[p])
              /\ log[worker[p].w][worker[p].count].to # "AWAITING_SIGNATURE"
      BY <2>1, RowFields DEF RowSafe
    <3>2. log[w][Len(log[w])].to = "AWAITING_SIGNATURE"
      BY <1>6 DEF HistorySafe, StateIsLastTransition
    <3> QED  BY <1>9, <2>2, <3>1, <3>2 DEF CountHolds
  <2> QED  BY <1>8, <2>1, <2>2, <2>3, RowKept DEF RowSafe
<1>17. HistorySafe'
  BY <1>8, <1>13, <1>14, <1>15, <1>16 DEF HistorySafe
<1> QED  BY <1>6, <1>7, <1>17

\* A listed row is current: its state is where the history ends.
LEMMA ListedIsEnd ==
    ASSUME TypeInv, HistorySafe, NEW w \in Workflows, state[w] \in States
    PROVE  /\ Len(log[w]) \in Nat \ {0}
           /\ log[w][Len(log[w])].to = state[w]
           /\ End(w) = state[w]
<1>1. log[w] # <<>> /\ state[w] = log[w][Len(log[w])].to /\ log[w] \in Seq(Move)
  BY DEF HistorySafe, StateIsLastTransition, States, TypeInv, TypeOK
<1> QED  BY <1>1, EmptySeq DEF End

LEMMA SafeListConfirming ==
    ASSUME TypeInv, HistorySafe, NEW p \in Workers, NEW w \in Workflows,
           ListConfirming(p, w)
    PROVE  HistorySafe'
<1>1. PICK i \in DOMAIN attempts[w] :
          worker' = [worker EXCEPT ![p] =
              [pc |-> "evidence", w |-> w, state |-> state[w],
               count |-> Len(log[w]), step |-> attempts[w][i].step]]
  BY DEF ListConfirming
<1> DEFINE r == [pc |-> "evidence", w |-> w, state |-> state[w],
                 count |-> Len(log[w]), step |-> attempts[w][i].step]
<1>2. state[w] \in {"SUBMITTED", "CONFIRMING"}
  BY DEF ListConfirming, Window, AwaitingConfirmation
<1>3. Len(log[w]) > 0 /\ log[w][Len(log[w])].to = state[w]
  BY <1>2, ListedIsEnd DEF States
<1>4. RowSafe(r)
  BY <1>2, <1>3 DEF RowSafe
<1>5. worker' = [worker EXCEPT ![p] = r] /\ UNCHANGED <<rows, answer, handler>>
  BY <1>1 DEF ListConfirming
<1> HIDE DEF r
<1> QED  BY <1>4, <1>5, WorkerStepSafe

LEMMA SafeListReconciling ==
    ASSUME TypeInv, HistorySafe, NEW p \in Workers, NEW w \in Workflows,
           ListReconciling(p, w)
    PROVE  HistorySafe'
<1> DEFINE r == [pc |-> "effects", w |-> w, state |-> state[w],
                 count |-> Len(log[w])]
<1>1. state[w] \in {"STEP_CONFIRMED", "RECONCILING"}
  BY DEF ListReconciling, Window, AwaitingReconciliation
<1>2. Len(log[w]) > 0 /\ log[w][Len(log[w])].to = state[w]
  BY <1>1, ListedIsEnd DEF States
<1>3. RowSafe(r)
  BY <1>1, <1>2 DEF RowSafe
<1>4. worker' = [worker EXCEPT ![p] = r] /\ UNCHANGED <<rows, answer, handler>>
  BY DEF ListReconciling
<1> HIDE DEF r
<1> QED  BY <1>3, <1>4, WorkerStepSafe

\* A row is decided along a walk from the state it was listed in.
LEMMA SafeDecide ==
    ASSUME TypeInv, HistorySafe, NEW p \in Workers, NEW path, Decide(p, path),
           worker[p].pc \in {"evidence", "effects"},
           WalkFrom(worker[p].state, MovesAlong(worker[p].state, path)),
           UNCHANGED <<rows, answer, handler>>
    PROVE  HistorySafe'
<1> DEFINE moves == MovesAlong(worker[p].state, path)
           r == [pc |-> "claim", w |-> worker[p].w, count |-> worker[p].count,
                 moves |-> moves]
<1>1. CASE path = <<>>
  BY <1>1, IdleSafe, WorkerStepSafe DEF Decide
<1>2. CASE path # <<>>
  <2>1. worker' = [worker EXCEPT ![p] = r]
    BY <1>2 DEF Decide
  <2>2. /\ worker[p].count > 0
        /\ log[worker[p].w][worker[p].count].to = worker[p].state
        /\ worker[p].state # "AWAITING_SIGNATURE"
    BY DEF HistorySafe, RowSafe
  <2> HIDE DEF moves
  <2>3. RowSafe(r)
    BY <2>2 DEF RowSafe, moves
  <2> HIDE DEF r
  <2> QED  BY <2>1, <2>3, WorkerStepSafe
<1> QED  BY <1>1, <1>2

LEMMA SafeReadEvidence ==
    ASSUME TypeInv, HistorySafe, NEW p \in Workers, ReadEvidence(p)
    PROVE  HistorySafe'
<1> DEFINE path == ConfirmationDecision(worker[p].state,
                       tx[worker[p].w][worker[p].step], worker[p].step = NSteps)
<1>1. worker[p].pc = "evidence" /\ Decide(p, path)
      /\ UNCHANGED <<rows, answer, handler>>
  BY DEF ReadEvidence
<1>2. worker[p].state \in {"SUBMITTED", "CONFIRMING"}
  BY <1>1 DEF HistorySafe, RowSafe
<1>3. WalkFrom(worker[p].state, MovesAlong(worker[p].state, path))
  BY <1>2, ConfirmationWalk
<1> HIDE DEF path
<1> QED  BY <1>1, <1>3, SafeDecide

LEMMA SafeReadEffects ==
    ASSUME TypeInv, HistorySafe, NEW p \in Workers, ReadEffects(p)
    PROVE  HistorySafe'
<1> DEFINE effects == {k \in Steps : activity[worker[p].w][k] = "attributed"}
           verdict ==
               ReconciliationDecision(QuotesOutput, effects, Credit, Minimum)
           path == IF verdict = "wait" THEN <<>>
                   ELSE ReconciliationPath(worker[p].state, verdict)
<1>1. worker[p].pc = "effects" /\ Decide(p, path)
      /\ UNCHANGED <<rows, answer, handler>>
  BY DEF ReadEffects
<1>2. worker[p].state \in {"STEP_CONFIRMED", "RECONCILING"}
  BY <1>1 DEF HistorySafe, RowSafe
<1>3. WalkFrom(worker[p].state, MovesAlong(worker[p].state, path))
  <2> HIDE DEF verdict
  <2>1. CASE verdict = "wait"
    <3>1. worker[p].state \in States /\ <<>> \in Seq(States) /\ Len(<<>>) = 0
      BY <1>2, EmptySeq DEF States
    <3>2. \A i \in 1..Len(<<>>) : FALSE
      BY <3>1
    <3>3. \A from \in States : WalkFrom(from, MovesAlong(from, <<>>))
      BY <3>1, <3>2, MovesWalk
    <3> QED  BY <2>1, <3>1, <3>3
  <2>2. CASE verdict # "wait"
    BY <1>2, <2>2, ReconciliationWalk
  <2> QED  BY <2>1, <2>2
<1> HIDE DEF path
<1> QED  BY <1>1, <1>3, SafeDecide

LEMMA SafeDropRow ==
    ASSUME TypeInv, HistorySafe, NEW p \in Workers, DropRow(p)
    PROVE  HistorySafe'
BY IdleSafe, WorkerStepSafe DEF DropRow

LEMMA SafeWaitForRow ==
    ASSUME TypeInv, HistorySafe, NEW p \in Workers, WaitForRow(p)
    PROVE  HistorySafe'
<1> DEFINE r == [pc |-> "waiting", w |-> worker[p].w, count |-> worker[p].count,
                 moves |-> worker[p].moves, counted |-> Len(log[worker[p].w])]
<1>1. /\ worker[p].pc = "claim" /\ ClaimWaits
      /\ worker' = [worker EXCEPT ![p] = r]
      /\ UNCHANGED <<rows, answer, handler>>
  BY DEF WaitForRow, TypeInv, TypeOK
<1>2. RowSafe(r)
  <2>1. /\ worker[p].count > 0
        /\ log[worker[p].w][worker[p].count].to # "AWAITING_SIGNATURE"
        /\ WalkFrom(log[worker[p].w][worker[p].count].to, worker[p].moves)
    BY <1>1 DEF HistorySafe, RowSafe
  <2> QED  BY <1>1, <2>1 DEF RowSafe, CountHolds
<1> HIDE DEF r
<1> QED  BY <1>1, <1>2, WorkerStepSafe

\* A claim waits for a row only where no other worker advances workflows.
ClaimsAreAlone == ClaimWaits => \A p, q \in Workers : p = q

\* A claim that matches: the row in hand is current, and nothing is open.
LEMMA SafeAdvance ==
    ASSUME ClaimsAreAlone, TypeInv, HistorySafe, NEW p \in Workers, Advance(p)
    PROVE  /\ HistorySafe'
           /\ \/ UNCHANGED rows
              \/ \E w \in Workflows, moves \in Seq(Move) :
                    /\ moves # <<>> /\ WalkFrom(End(w), moves)
                    /\ Write(w, moves, Len(log[w]))
                    /\ state[w] # "NONE"
<1>1. PICK w \in Workflows : w = worker[p].w
  BY RowFields DEF Advance
<1>2. PICK moves \in Seq(Move) : moves = worker[p].moves
  BY RowFields DEF Advance
<1>3. /\ worker[p].pc \in {"claim", "waiting"} /\ moves # <<>>
      /\ worker[p].count > 0 /\ worker[p].count <= Len(log[w])
      /\ log[w][worker[p].count].to # "AWAITING_SIGNATURE"
      /\ WalkFrom(log[w][worker[p].count].to, moves)
  BY <1>1, <1>2, RowFields DEF Advance, HistorySafe, RowSafe
<1>4. worker' = [worker EXCEPT ![p] = Idle] /\ UNCHANGED <<answer, handler>>
  BY DEF Advance
<1>5. CASE UNCHANGED rows
  BY <1>4, <1>5, IdleSafe, WorkerStepSafe
<1>6. CASE ~UNCHANGED rows
  <2>1. /\ Len(log[w]) = worker[p].count
        /\ Write(w, moves, Len(log[w]))
        /\ UNCHANGED attempts
    <3>1. Claims(worker[p], IF worker[p].pc = "claim" THEN Len(log[w])
                            ELSE worker[p].counted)
          /\ Write(w, moves, worker[p].count) /\ UNCHANGED attempts
      BY <1>1, <1>2, <1>6 DEF Advance
    <3>2. Len(log[w]) = worker[p].count
      BY <1>1, <1>3, <3>1 DEF Claims, CountHolds, RowSafe, HistorySafe
    <3> QED  BY <3>1, <3>2
  <2>2. log[w] # <<>> /\ log[w] \in Seq(Move)
    BY <1>3, <2>1, EmptySeq DEF TypeInv, TypeOK
  <2>3. /\ End(w) = log[w][worker[p].count].to
        /\ state[w] = End(w) /\ state[w] # "NONE"
    BY <2>1, <2>2 DEF End, HistorySafe, StateIsLastTransition
  <2>4. WalkFrom(End(w), moves)
    BY <1>3, <2>3
  <2>5. /\ state' = [state EXCEPT ![w] = moves[Len(moves)].to]
        /\ log' = [log EXCEPT ![w] = log[w] \o moves]
        /\ \A v \in Workflows : \A i \in 1..Len(log[v]) : log'[v][i] = log[v][i]
        /\ StateIsLastTransition'
        /\ \A v \in Workflows : WalkFrom("DRAFT", log[v])'
    BY <1>3, <2>1, <2>4, WriteContinues
  <2>6. /\ \A v \in Workflows : v # w => state'[v] = state[v] /\ log'[v] = log[v]
        /\ \A v \in Workflows : Open(v)' = Open(v)
        /\ \A v, k : Recorded(v, k)' <=> Recorded(v, k)
    BY <1>4, <2>1, <2>5 DEF Open, Recorded, TypeInv, TypeOK
  <2>7. Open(w) = {}
    BY <1>3, <2>3 DEF HistorySafe, OpenIsAwaited
  <2>8. OpenIsAwaited'
    BY <2>6, <2>7 DEF OpenIsAwaited, HistorySafe
  <2>9. ASSUME NEW h \in Handlers PROVE RequestSafe(handler[h])'
    <3>1. CASE handler[h].pc = "idle"
      BY <1>4, <3>1 DEF RequestSafe
    <3>2. CASE handler[h].pc # "idle" /\ handler[h].w = w
      <4>1. Recorded(w, handler[h].step)
        BY <2>7, <3>2, RequestIsOpen
      <4>2. handler[h].pc # "write"
        BY <3>2, <4>1 DEF RequestSafe, HistorySafe
      <4> QED  BY <1>4, <2>6, <3>2, <4>1, <4>2 DEF RequestSafe
    <3>3. CASE handler[h].pc # "idle" /\ handler[h].w # w
      <4>1. handler[h].w \in Workflows
        BY <3>3, RequestFields
      <4> QED  BY <1>4, <2>6, <3>3, <4>1 DEF RequestSafe, HistorySafe
    <3> QED  BY <3>1, <3>2, <3>3
  <2>10. OneRequest'
    BY <1>4 DEF OneRequest, HistorySafe
  <2>11. ASSUME NEW q \in Workers PROVE RowSafe(worker[q])'
    <3>1. CASE q = p
      BY <1>4, <3>1 DEF TypeInv, TypeOK, RowSafe, Idle
    <3>2. CASE q # p
      <4>1. worker[q] \in RowInHand /\ RowSafe(worker[q]) /\ RowOK(worker[q])
            /\ worker'[q] = worker[q] /\ log \in [Workflows -> Seq(Move)]
            /\ worker[q].pc # "waiting"
        BY <1>4, <3>2 DEF TypeInv, TypeOK, HistorySafe, RowSafe, ClaimsAreAlone
      <4> QED  BY <2>5, <4>1, RowKept DEF RowSafe
    <3> QED  BY <3>1, <3>2
  <2>12. HistorySafe'
    BY <2>5, <2>8, <2>9, <2>10, <2>11 DEF HistorySafe
  <2> QED  BY <1>3, <2>1, <2>3, <2>4, <2>12
<1> QED  BY <1>5, <1>6

\* The chain, ingestion and stuttering leave rows, answers and processes alone.
LEMMA SafeElsewhere ==
    ASSUME HistorySafe, UNCHANGED <<rows, answer, handler, worker>>
    PROVE  HistorySafe'
BY DEF rows, HistorySafe, StateIsLastTransition, WalkFrom, OpenIsAwaited, Open,
       Recorded, RequestSafe, OneRequest, RowSafe, CountHolds

LEMMA ChainLeavesRows ==
    ASSUME NEW w \in Workflows, NEW k \in Steps, ChainNext(w, k)
    PROVE  UNCHANGED <<rows, answer, handler, worker>>
BY DEF ChainNext, Mine, Drop, Deepen, Orphan, Return, IngestEvent, Rewind

LEMMA HistoryStep ==
    ASSUME SerialReports, ClaimsAreAlone, TypeInv, HistorySafe, [Next]_vars
    PROVE  HistorySafe'
<1>1. ASSUME NEW w \in Workflows, ClientNext(w) PROVE HistorySafe'
  BY <1>1, SafeStart, SafeWallet, SafeReadWorkflow DEF ClientNext
<1>2. ASSUME NEW h \in Handlers, HandlerNext(h) PROVE HistorySafe'
  BY <1>2, SafeFindAttempt, SafeRecordAttempt, SafeAbandon DEF HandlerNext
<1>3. ASSUME NEW p \in Workers, WorkerNext(p) PROVE HistorySafe'
  BY <1>3, SafeListConfirming, SafeListReconciling, SafeReadEvidence,
     SafeReadEffects, SafeWaitForRow, SafeAdvance, SafeDropRow DEF WorkerNext
<1>4. ASSUME NEW w \in Workflows, NEW k \in Steps, ChainNext(w, k)
      PROVE  HistorySafe'
  BY <1>4, ChainLeavesRows, SafeElsewhere
<1>5. CASE UNCHANGED vars
  BY <1>5, SafeElsewhere DEF vars
<1> QED  BY <1>1, <1>2, <1>3, <1>4, <1>5 DEF Next

\* Where one report of a workflow is served at a time and no claim waits for a
\* row lock beside another worker, the state a reader is shown is where the
\* stored history ends, for every plan, number of requests and number of workers
\* (recordAttempt and advanceWorkflowFromChain of packages/database).
THEOREM StateIsItsHistory ==
    ASSUME SerialReports, ClaimsAreAlone
    PROVE  Spec => []StateIsLastTransition
<1>1. Init => TypeInv /\ HistorySafe
  BY TypeInit, HistoryInit
<1>2. TypeInv /\ HistorySafe /\ [Next]_vars => TypeInv' /\ HistorySafe'
  BY TypeStep, HistoryStep
<1>3. HistorySafe => StateIsLastTransition
  BY DEF HistorySafe
<1> QED  BY <1>1, <1>2, <1>3, PTL DEF Spec

\* The only steps that touch the rows: an admission, or a write that continues
\* the history of an admitted workflow.
LEMMA RowsStep ==
    ASSUME ClaimsAreAlone, TypeInv, HistorySafe, [Next]_vars
    PROVE  \/ UNCHANGED rows
           \/ \E w \in Workflows : StartWorkflow(w)
           \/ \E w \in Workflows, moves \in Seq(Move) :
                 /\ moves # <<>> /\ WalkFrom(End(w), moves)
                 /\ Write(w, moves, Len(log[w]))
                 /\ state[w] # "NONE"
<1>1. ASSUME NEW w \in Workflows, ClientNext(w)
      PROVE  UNCHANGED rows \/ StartWorkflow(w)
  BY <1>1 DEF ClientNext, WalletAnswers, ReadWorkflow
<1>2. ASSUME NEW h \in Handlers, HandlerNext(h), ~RecordAttempt(h)
      PROVE  UNCHANGED rows
  BY <1>2 DEF HandlerNext, FindAttempt, AbandonRequest
<1>3. ASSUME NEW p \in Workers, WorkerNext(p), ~Advance(p)
      PROVE  UNCHANGED rows
  BY <1>3 DEF WorkerNext, ListConfirming, ListReconciling, ReadEvidence,
              ReadEffects, WaitForRow, DropRow
<1> QED  BY <1>1, <1>2, <1>3, SafeRecordAttempt, SafeAdvance, ChainLeavesRows
         DEF Next, vars

LEMMA StepKeepsHistory ==
    ASSUME SerialReports, ClaimsAreAlone, TypeInv, HistorySafe, [Next]_vars,
           NEW v \in Workflows
    PROVE  History(v)!Next \/ UNCHANGED History(v)!vars
<1>1. CASE UNCHANGED rows
  BY <1>1 DEF rows, History!vars
<1>2. ASSUME NEW w \in Workflows, StartWorkflow(w)
      PROVE  History(v)!Next \/ UNCHANGED History(v)!vars
  <2> DEFINE moves == MovesAlong("DRAFT", AdmissionPath)
  <2>1. state[w] = "NONE" /\ log[w] = <<>>
    BY <1>2 DEF StartWorkflow, HistorySafe, StateIsLastTransition
  <2>2. Write(w, moves, Len(log[w]))
    <3>1. Len(log[w]) = 0
      BY <2>1, EmptySeq
    <3> QED  BY <1>2, <3>1 DEF StartWorkflow
  <2>3. moves \in Seq(Move) /\ moves # <<>> /\ WalkFrom(End(w), moves)
        /\ moves[Len(moves)].to = "AWAITING_SIGNATURE" /\ <<>> \o moves = moves
    BY <2>1, AdmissionType, AdmissionWalk, ConcatEmptySeq DEF End
  <2> HIDE DEF moves
  <2>4. /\ state' = [state EXCEPT ![w] = moves[Len(moves)].to]
        /\ log' = [log EXCEPT ![w] = log[w] \o moves]
    BY <2>2, <2>3, WriteContinues
  <2>5. CASE v = w
    <3>1. state'[v] = "AWAITING_SIGNATURE" /\ log'[v] = moves
      BY <2>1, <2>3, <2>4, <2>5 DEF TypeInv, TypeOK
    <3>2. History(v)!MovesAlong("DRAFT", History(v)!AdmissionPath) = moves
      BY DEF moves, MovesAlong, AdmissionPath, History!MovesAlong,
             History!AdmissionPath
    <3> QED  BY <2>1, <2>5, <3>1, <3>2 DEF History!Next, History!Admit
  <2>6. CASE v # w
    BY <2>4, <2>6 DEF History!vars, TypeInv, TypeOK
  <2> QED  BY <2>5, <2>6
<1>3. ASSUME NEW w \in Workflows, NEW moves \in Seq(Move), moves # <<>>,
             WalkFrom(End(w), moves), Write(w, moves, Len(log[w])),
             state[w] # "NONE"
      PROVE  History(v)!Next \/ UNCHANGED History(v)!vars
  <2>1. /\ state' = [state EXCEPT ![w] = moves[Len(moves)].to]
        /\ log' = [log EXCEPT ![w] = log[w] \o moves]
        /\ Len(log'[w]) > Len(log[w])
        /\ \A u \in Workflows : \A i \in 1..Len(log[u]) : log'[u][i] = log[u][i]
        /\ StateIsLastTransition'
        /\ \A u \in Workflows : WalkFrom("DRAFT", log[u])'
    BY <1>3, WriteContinues
  <2>2. CASE v = w
    <3>1. log[w] \in Seq(Move) /\ log'[w] \in Seq(Move)
          /\ state'[w] \in States \cup {"NONE"}
      BY TypeStep DEF TypeInv, TypeOK
    <3>2. log'[w] # <<>>
      BY <2>1, <3>1, EmptySeq, LenProperties
    <3>3. state'[w] = log'[w][Len(log'[w])].to
      BY <2>1, <3>2 DEF StateIsLastTransition
    <3>4. /\ DOMAIN log[w] = 1..Len(log[w])
          /\ DOMAIN log'[w] = 1..Len(log'[w])
      BY <3>1, LenProperties
    <3>5. \A i \in DOMAIN log[w] : log'[w][i] = log[w][i]
      BY <2>1, <3>4
    <3>6. History(w)!Walk(log'[w])
      BY <2>1, <3>4 DEF WalkFrom, History!Walk, History!CanTransition,
                        History!ALLOWED, History!States, CanTransition,
                        ALLOWED, States
    <3> QED  BY <1>3, <2>1, <2>2, <3>1, <3>3, <3>5, <3>6
             DEF History!Next, History!Extend, History!Move, History!States,
                 Move, States
  <2>3. CASE v # w
    BY <2>1, <2>3 DEF History!vars, TypeInv, TypeOK
  <2> QED  BY <2>2, <2>3
<1> QED  BY <1>1, <1>2, <1>3, RowsStep

\* Under the same conditions every workflow's rows implement WorkflowHistory:
\* they are only ever seen as one history that grows by moves of the table
\* (packages/core/src/workflow.ts transition(), which the writers go through).
THEOREM HistoryImplemented ==
    ASSUME SerialReports, ClaimsAreAlone
    PROVE  Spec => HistoryIsKept
<1>1. Init => TypeInv /\ HistorySafe
  BY TypeInit, HistoryInit
<1>2. TypeInv /\ HistorySafe /\ [Next]_vars => TypeInv' /\ HistorySafe'
  BY TypeStep, HistoryStep
<1>3. Init => \A w \in Workflows : History(w)!Init
  BY DEF Init, History!Init
<1>4. TypeInv /\ HistorySafe /\ [Next]_vars =>
          [\A w \in Workflows : History(w)!Next \/ UNCHANGED History(w)!vars]_vars
  BY StepKeepsHistory
<1> QED  BY <1>1, <1>2, <1>3, <1>4, PTL DEF Spec, HistoryIsKept

-----------------------------------------------------------------------------
(* What the worker may conclude.  So far rows are one history; here the    *)
(* history is tied to the chain.  The difficulty is that what the worker   *)
(* writes was decided on a reading that is over by then.  The invariant    *)
(* says it is still true while the row in hand is current, and the claim   *)
(* writes nothing when it is not.                                          *)

\* Every attempt was broadcast and has succeeded under the checkpoint.
Settled(w) ==
    \A i \in DOMAIN attempts[w] :
        /\ attempts[w][i].outcome = "BROADCAST"
        /\ <<w, attempts[w][i].step>> \in confirmed

\* The same, but for the newest attempt, which is still on its way.
OneUnsettled(w) ==
    /\ attempts[w] # <<>>
    /\ \A i \in DOMAIN attempts[w] :
          /\ attempts[w][i].outcome = "BROADCAST"
          /\ i # Len(attempts[w]) => <<w, attempts[w][i].step>> \in confirmed

AllConfirmed(w) == \A k \in Steps : <<w, k>> \in confirmed

CreditCovers(w) == EverCredited(w) > 0 /\ EverCredited(w) >= Minimum

\* What has happened before a workflow is shown in state s.
Earned(w, s) ==
    /\ s \in {"NONE", "AWAITING_SIGNATURE"} => Settled(w)
    /\ s \in {"SUBMITTED", "CONFIRMING"} => OneUnsettled(w)
    /\ s \in {"STEP_CONFIRMED", "COMPLETED"} => AllConfirmed(w)
    /\ s = "COMPLETED" => CreditCovers(w)
    /\ s # "RECONCILING"

\* The checkpoint is only ahead of a success that is remembered.
SuccessIsRemembered ==
    \A w \in Workflows, k \in Steps :
        (tx[w][k].ahead /\ tx[w][k].status = "success") => <<w, k>> \in confirmed

\* The wallet is asked for a step when those before it are recorded, and only
\* an answer is recorded.
AnsweredInOrder ==
    \A w \in Workflows, k \in Steps :
        /\ answer[w][k] # "none" => \A j \in 1..(k - 1) : Recorded(w, j)
        /\ Recorded(w, k) => answer[w][k] # "none"

IsCurrent(r) == r.count = Len(log[r.w])

\* A row in hand was listed in a state the worker moves, and what it will
\* write is earned as long as the row is current.
RowEarned(r) ==
    /\ r.pc = "effects" => r.state = "STEP_CONFIRMED"
    /\ r.pc \in {"claim", "waiting"} =>
          /\ log[r.w][r.count].to \in {"SUBMITTED", "CONFIRMING", "STEP_CONFIRMED"}
          /\ IsCurrent(r) => Earned(r.w, r.moves[Len(r.moves)].to)
    /\ (r.pc = "evidence" /\ IsCurrent(r)) =>
          r.step = attempts[r.w][Len(attempts[r.w])].step

SettlementSafe ==
    /\ \A w \in Workflows : Earned(w, state[w])
    /\ SuccessIsRemembered
    /\ AnsweredInOrder
    /\ \A p \in Workers : RowEarned(worker[p])

-----------------------------------------------------------------------------
(* What has been earned stays earned.                                      *)

\* Ingestion never takes back that a step was credited.
CreditKept ==
    \A w \in Workflows, k \in Steps :
        activity[w][k] \in {"attributed", "rewound"} =>
            activity'[w][k] \in {"attributed", "rewound"}

\* Observed is the sum Sums_proofs is about.
LEMMA ObservedIsSum == \A S, c : Observed(S, c) = SumOf(S, c)
BY DEF Observed, SumOf

\* The sum a workflow was completed on can only have grown.
LEMMA CreditGrows ==
    ASSUME NEW w \in Workflows, CreditKept, CreditCovers(w)
    PROVE  CreditCovers(w)'
<1> DEFINE now == {k \in Steps : activity[w][k] \in {"attributed", "rewound"}}
           next == {k \in Steps : activity'[w][k] \in {"attributed", "rewound"}}
<1>1. now \in SUBSET Steps /\ next \in SUBSET Steps /\ now \subseteq next
  BY DEF CreditKept
<1>2. IsFiniteSet(Steps) /\ \A k \in Steps : Credit[k] \in Nat
  <2>1. NSteps \in Int /\ Credit \in [Steps -> Nat]
    BY ConstantsAssumption
  <2>2. IsFiniteSet(1..NSteps)
    BY <2>1, FS_Interval
  <2> QED  BY <2>1, <2>2 DEF Steps
<1>3. EverCredited(w) = Observed(now, Credit)
      /\ EverCredited(w)' = Observed(next, Credit)
  BY DEF EverCredited
<1> HIDE DEF now, next
<1>4. /\ Observed(now, Credit) \in Nat /\ Observed(next, Credit) \in Nat
      /\ Observed(now, Credit) <= Observed(next, Credit)
  BY <1>1, <1>2, SumGrows, ObservedIsSum
<1>5. Minimum \in Nat
  BY ConstantsAssumption
<1> QED  BY <1>3, <1>4, <1>5 DEF CreditCovers

\* A step that leaves a workflow's attempts alone leaves it what it earned.
LEMMA EarnedKept ==
    ASSUME NEW w \in Workflows, NEW s, Earned(w, s), attempts'[w] = attempts[w],
           confirmed \subseteq confirmed', CreditKept
    PROVE  Earned(w, s)'
<1>1. Settled(w) => Settled(w)'
  BY DEF Settled
<1>2. OneUnsettled(w) => OneUnsettled(w)'
  BY DEF OneUnsettled
<1>3. AllConfirmed(w) => AllConfirmed(w)'
  BY DEF AllConfirmed
<1> QED  BY <1>1, <1>2, <1>3, CreditGrows DEF Earned

LEMMA SameCredit == ASSUME UNCHANGED activity PROVE CreditKept
BY DEF CreditKept

\* A row in hand, while the tables stay and the chain goes on.
LEMMA RowEarnedKept ==
    ASSUME NEW r \in RowInHand, RowEarned(r), UNCHANGED <<log, attempts>>,
           confirmed \subseteq confirmed', CreditKept
    PROVE  RowEarned(r)'
<1>1. r.pc # "idle" => r.w \in Workflows
  BY DEF RowInHand, Idle
<1>2. r.pc \in {"claim", "waiting"} =>
          (Earned(r.w, r.moves[Len(r.moves)].to) =>
              Earned(r.w, r.moves[Len(r.moves)].to)')
  BY <1>1, EarnedKept
<1> QED  BY <1>2 DEF RowEarned, IsCurrent

\* A step that leaves the workflow tables alone.
LEMMA TablesStay ==
    ASSUME SettlementSafe, UNCHANGED rows,
           confirmed \subseteq confirmed', CreditKept,
           SuccessIsRemembered', AnsweredInOrder',
           \A p \in Workers : RowEarned(worker'[p]) /\ worker'[p] \in RowInHand
    PROVE  SettlementSafe'
<1>1. UNCHANGED <<state, log, attempts>>
  BY DEF rows
<1>2. ASSUME NEW w \in Workflows PROVE Earned(w, state[w])'
  <2>1. Earned(w, state[w])
    BY DEF SettlementSafe
  <2>2. PICK s : s = state[w] /\ s = state'[w]
    BY <1>1
  <2>3. Earned(w, s)'
    BY <1>1, <2>1, <2>2, EarnedKept
  <2> QED  BY <2>2, <2>3 DEF Earned
<1>3. ASSUME NEW p \in Workers PROVE RowEarned(worker[p])'
  <2>1. PICK r \in RowInHand : r = worker'[p]
    OBVIOUS
  <2>2. RowEarned(r)'
    BY <1>1, <2>1, RowEarnedKept
  <2> QED  BY <2>1, <2>2 DEF RowEarned, IsCurrent
<1> QED  BY <1>2, <1>3 DEF SettlementSafe

\* A worker's step that writes nothing.
LEMMA WorkerStepEarned ==
    ASSUME TypeInv, SettlementSafe, NEW p \in Workers, NEW r \in RowInHand,
           RowEarned(r), worker' = [worker EXCEPT ![p] = r],
           UNCHANGED <<rows, activity, answer, chain, handler>>
    PROVE  SettlementSafe'
<1>1. \A q \in Workers : RowEarned(worker'[q]) /\ worker'[q] \in RowInHand
  BY DEF SettlementSafe, TypeInv, TypeOK
<1>2. CreditKept
  BY SameCredit
<1>3. SuccessIsRemembered' /\ confirmed \subseteq confirmed'
  BY DEF SettlementSafe, SuccessIsRemembered, chain
<1>4. AnsweredInOrder'
  BY DEF SettlementSafe, AnsweredInOrder, Recorded, rows
<1> QED  BY <1>1, <1>2, <1>3, <1>4, TablesStay

LEMMA IdleEarned == RowEarned(Idle)
BY DEF RowEarned, Idle

LEMMA SettlementInit == ASSUME Init PROVE SettlementSafe
<1>1. \A w \in Workflows : attempts[w] = <<>> /\ state[w] = "NONE"
  BY DEF Init
<1>2. \A i \in DOMAIN <<>> : FALSE
  OBVIOUS
<1>3. \A w \in Workflows : Settled(w) /\ \A k : ~Recorded(w, k)
  BY <1>1, <1>2 DEF Settled, Recorded
<1>4. \A w \in Workflows : Earned(w, state[w])
  BY <1>1, <1>3 DEF Earned
<1>5. SuccessIsRemembered
  BY DEF Init, SuccessIsRemembered, Absent, Evidence
<1>6. AnsweredInOrder
  BY <1>3 DEF Init, AnsweredInOrder
<1>7. \A p \in Workers : RowEarned(worker[p])
  BY IdleEarned DEF Init
<1> QED  BY <1>4, <1>5, <1>6, <1>7 DEF SettlementSafe

-----------------------------------------------------------------------------
(* The worker lists and decides.                                           *)

\* The newest broadcast of a workflow that waits for the chain is its newest
\* attempt: every answer before it is settled.
LEMMA EarnedListConfirming ==
    ASSUME TypeInv, SettlementSafe, NEW p \in Workers, NEW w \in Workflows,
           ListConfirming(p, w)
    PROVE  SettlementSafe'
<1>1. PICK i \in DOMAIN attempts[w] :
          /\ IsNewestBroadcast(w, i)
          /\ worker' = [worker EXCEPT ![p] =
                [pc |-> "evidence", w |-> w, state |-> state[w],
                 count |-> Len(log[w]), step |-> attempts[w][i].step]]
  BY DEF ListConfirming
<1> DEFINE r == [pc |-> "evidence", w |-> w, state |-> state[w],
                 count |-> Len(log[w]), step |-> attempts[w][i].step]
<1>2. state[w] \in {"SUBMITTED", "CONFIRMING"}
  BY DEF ListConfirming, Window, AwaitingConfirmation
<1>3. attempts[w] \in Seq([step : Steps, outcome : Outcomes])
  BY DEF TypeInv, TypeOK
<1>4. /\ DOMAIN attempts[w] = 1..Len(attempts[w])
      /\ Len(attempts[w]) \in Nat
  BY <1>3, LenProperties
<1>5. OneUnsettled(w)
  BY <1>2 DEF SettlementSafe, Earned
<1>6. i = Len(attempts[w])
  <2>1. Len(attempts[w]) \in DOMAIN attempts[w]
    BY <1>1, <1>4
  <2>2. Len(attempts[w]) \in BroadcastAttempts(w)
    BY <1>5, <2>1 DEF OneUnsettled, BroadcastAttempts
  <2> QED  BY <1>1, <1>4, <2>2 DEF IsNewestBroadcast
<1>7. attempts[w][i] \in [step : Steps, outcome : Outcomes]
  BY <1>1, <1>3, <1>4, ElementOfSeq
<1>8. RowEarned(r)
  BY <1>6 DEF RowEarned
<1>9. r \in RowInHand
  <2>1. Len(log[w]) \in Nat /\ attempts[w][i].step \in Steps /\ state[w] \in States
    BY <1>2, <1>7, LenProperties DEF TypeInv, TypeOK, States
  <2> QED  BY <2>1 DEF RowInHand
<1>10. worker' = [worker EXCEPT ![p] = r]
       /\ UNCHANGED <<rows, activity, answer, chain, handler>>
  BY <1>1 DEF ListConfirming
<1> HIDE DEF r
<1> QED  BY <1>8, <1>9, <1>10, WorkerStepEarned

LEMMA EarnedListReconciling ==
    ASSUME TypeInv, SettlementSafe, NEW p \in Workers, NEW w \in Workflows,
           ListReconciling(p, w)
    PROVE  SettlementSafe'
<1> DEFINE r == [pc |-> "effects", w |-> w, state |-> state[w],
                 count |-> Len(log[w])]
<1>1. state[w] = "STEP_CONFIRMED"
  BY DEF ListReconciling, Window, AwaitingReconciliation, SettlementSafe, Earned
<1>2. RowEarned(r)
  BY <1>1 DEF RowEarned
<1>3. r \in RowInHand
  BY <1>1, LenProperties DEF RowInHand, TypeInv, TypeOK, States
<1>4. worker' = [worker EXCEPT ![p] = r]
      /\ UNCHANGED <<rows, activity, answer, chain, handler>>
  BY DEF ListReconciling
<1> HIDE DEF r
<1> QED  BY <1>2, <1>3, <1>4, WorkerStepEarned

\* What a path that the evidence decided ends in.
LEMMA ConfirmationEnd ==
    ASSUME NEW from \in {"SUBMITTED", "CONFIRMING"}, NEW seen \in TransactionEvidence,
           NEW final \in BOOLEAN, NEW path,
           path = ConfirmationDecision(from, seen, final),
           path # <<>>, NEW last, last = path[Len(path)]
    PROVE  \/ last \in {"FAILED", "ACTION_REQUIRED", "REORGED", "CONFIRMING"}
           \/ /\ seen.status = "success" /\ seen.ahead
              /\ last = IF final THEN "STEP_CONFIRMED" ELSE "AWAITING_SIGNATURE"
<1>1. \/ path \in {<<"FAILED">>, <<"ACTION_REQUIRED">>, <<"REORGED">>}
      \/ seen.status = "success" /\ path = ConfirmedPath(from, seen.ahead, final)
  BY DEF ConfirmationDecision, TransactionEvidence, Statuses
<1>2. ConfirmedPath(from, seen.ahead, final) \in
          IF ~seen.ahead THEN {<<"CONFIRMING">>, <<>>}
          ELSE IF final THEN {<<"CONFIRMING", "STEP_CONFIRMED">>,
                              <<"STEP_CONFIRMED">>}
          ELSE {<<"CONFIRMING", "STEP_CONFIRMED", "AWAITING_SIGNATURE">>,
                <<"STEP_CONFIRMED", "AWAITING_SIGNATURE">>}
  <2>1. {"CONFIRMING", "STEP_CONFIRMED", "AWAITING_SIGNATURE"} \subseteq States
        /\ <<"STEP_CONFIRMED">> \in Seq(States)
        /\ <<"STEP_CONFIRMED", "AWAITING_SIGNATURE">> \in Seq(States)
    BY DEF States
  <2>2. /\ <<>> \o <<"STEP_CONFIRMED">> = <<"STEP_CONFIRMED">>
        /\ <<>> \o <<"STEP_CONFIRMED", "AWAITING_SIGNATURE">> =
              <<"STEP_CONFIRMED", "AWAITING_SIGNATURE">>
        /\ <<"CONFIRMING">> \o <<"STEP_CONFIRMED">> =
              <<"CONFIRMING", "STEP_CONFIRMED">>
        /\ <<"CONFIRMING">> \o <<"STEP_CONFIRMED", "AWAITING_SIGNATURE">> =
              <<"CONFIRMING", "STEP_CONFIRMED", "AWAITING_SIGNATURE">>
    BY <2>1, TupleConcat
  <2> QED  BY <2>2 DEF ConfirmedPath
<1>3. CASE path \in {<<"FAILED">>, <<"ACTION_REQUIRED">>, <<"REORGED">>}
  BY <1>3
<1>4. CASE seen.status = "success" /\ path = ConfirmedPath(from, seen.ahead, final)
  <2>1. CASE ~seen.ahead
    BY <1>2, <1>4, <2>1
  <2>2. CASE seen.ahead /\ final
    <3>1. path = <<"CONFIRMING", "STEP_CONFIRMED">> \/ path = <<"STEP_CONFIRMED">>
      BY <1>2, <1>4, <2>2
    <3>2. last = "STEP_CONFIRMED"
      BY <3>1
    <3> QED  BY <1>4, <2>2, <3>2
  <2>3. CASE seen.ahead /\ ~final
    <3>1. \/ path = <<"CONFIRMING", "STEP_CONFIRMED", "AWAITING_SIGNATURE">>
          \/ path = <<"STEP_CONFIRMED", "AWAITING_SIGNATURE">>
      BY <1>2, <1>4, <2>3
    <3>2. last = "AWAITING_SIGNATURE"
      BY <3>1
    <3> QED  BY <1>4, <2>3, <3>2
  <2> QED  BY <2>1, <2>2, <2>3
<1> QED  BY <1>1, <1>3, <1>4

LEMMA ReconciliationEnd ==
    ASSUME NEW from, NEW verdict, NEW path, path = ReconciliationPath(from, verdict)
    PROVE  path[Len(path)] =
              IF verdict = "matched" THEN "COMPLETED" ELSE "ACTION_REQUIRED"
<1> DEFINE last == IF verdict = "matched" THEN "COMPLETED" ELSE "ACTION_REQUIRED"
<1>1. "RECONCILING" \in States /\ last \in States /\ <<last>> \in Seq(States)
  BY DEF States
<1>2. path \in {<<"RECONCILING", last>>, <<last>>}
  <2> HIDE DEF last
  <2>1. <<>> \o <<last>> = <<last>>
        /\ <<"RECONCILING">> \o <<last>> = <<"RECONCILING", last>>
    BY <1>1, TupleConcat
  <2> QED  BY <2>1 DEF ReconciliationPath, last
<1> QED  BY <1>2

LEMMA EarnedDecide ==
    ASSUME TypeInv, HistorySafe, SettlementSafe, NEW p \in Workers,
           worker[p].pc \in {"evidence", "effects"},
           worker[p].state \in {"SUBMITTED", "CONFIRMING", "STEP_CONFIRMED"},
           NEW path \in Seq(States), Decide(p, path),
           (path # <<>> /\ IsCurrent(worker[p])) =>
               Earned(worker[p].w, path[Len(path)]),
           UNCHANGED <<rows, activity, answer, chain, handler>>
    PROVE  SettlementSafe'
<1> DEFINE moves == MovesAlong(worker[p].state, path)
           r == [pc |-> "claim", w |-> worker[p].w, count |-> worker[p].count,
                 moves |-> moves]
<1>1. CASE path = <<>>
  BY <1>1, IdleRow, IdleEarned, WorkerStepEarned DEF Decide
<1>2. CASE path # <<>>
  <2>1. worker[p].state \in States
    BY DEF States
  <2>2. /\ moves \in Seq(Move) /\ moves # <<>>
        /\ moves[Len(moves)].to = path[Len(path)]
    BY <1>2, <2>1, MovesAlongType
  <2>3. /\ worker[p].w \in Workflows /\ worker[p].count \in Nat
        /\ log[worker[p].w][worker[p].count].to = worker[p].state
    BY RowFields DEF HistorySafe, RowSafe
  <2>4. worker' = [worker EXCEPT ![p] = r]
    BY <1>2 DEF Decide
  <2> HIDE DEF moves
  <2>5. r \in RowInHand
    BY <2>2, <2>3 DEF RowInHand
  <2>6. RowEarned(r)
    BY <1>2, <2>2, <2>3 DEF RowEarned, IsCurrent
  <2> HIDE DEF r
  <2> QED  BY <2>4, <2>5, <2>6, WorkerStepEarned
<1> QED  BY <1>1, <1>2

\* A current row still shows the state it was listed in.
LEMMA CurrentRow ==
    ASSUME TypeInv, HistorySafe, NEW p \in Workers, worker[p].pc # "idle",
           IsCurrent(worker[p])
    PROVE  state[worker[p].w] = log[worker[p].w][worker[p].count].to
<1>1. worker[p].w \in Workflows /\ worker[p].count > 0
      /\ worker[p].count = Len(log[worker[p].w])
  BY RowFields DEF HistorySafe, RowSafe, IsCurrent
<1>2. log[worker[p].w] # <<>>
  BY <1>1, EmptySeq DEF TypeInv, TypeOK
<1> QED  BY <1>1, <1>2 DEF HistorySafe, StateIsLastTransition

\* The success of the last open step settles the workflow, and when it is the
\* plan's last step, every step of the plan has succeeded.
LEMMA LastSuccess ==
    ASSUME TypeInv, SettlementSafe, NEW w \in Workflows, OneUnsettled(w),
           NEW k \in Steps, k = attempts[w][Len(attempts[w])].step,
           <<w, k>> \in confirmed
    PROVE  Settled(w) /\ (k = NSteps => AllConfirmed(w))
<1>1. Settled(w)
  BY DEF OneUnsettled, Settled
<1>2. ASSUME k = NSteps, NEW j \in Steps PROVE <<w, j>> \in confirmed
  <2>1. attempts[w] \in Seq([step : Steps, outcome : Outcomes]) /\ attempts[w] # <<>>
    BY DEF TypeInv, TypeOK, OneUnsettled
  <2>2. Len(attempts[w]) \in DOMAIN attempts[w]
    BY <2>1, EmptySeq, LenProperties
  <2>3. answer[w][k] # "none"
    BY <2>2 DEF Recorded, SettlementSafe, AnsweredInOrder
  <2>4. j = k \/ j \in 1..(k - 1)
    BY <1>2, ConstantsAssumption DEF Steps
  <2>5. Recorded(w, j)
    BY <2>2, <2>3, <2>4 DEF Recorded, SettlementSafe, AnsweredInOrder
  <2> QED  BY <1>1, <2>5 DEF Recorded, Settled
<1> QED  BY <1>1, <1>2 DEF AllConfirmed

LEMMA EarnedReadEvidence ==
    ASSUME TypeInv, HistorySafe, SettlementSafe, NEW p \in Workers, ReadEvidence(p)
    PROVE  SettlementSafe'
<1> DEFINE w == worker[p].w
           k == worker[p].step
           path == ConfirmationDecision(worker[p].state, tx[w][k], k = NSteps)
<1>1. /\ worker[p].pc = "evidence" /\ Decide(p, path)
      /\ UNCHANGED <<rows, activity, answer, chain, handler>>
  BY DEF ReadEvidence
<1>2. /\ worker[p].state \in {"SUBMITTED", "CONFIRMING"}
      /\ log[w][worker[p].count].to = worker[p].state
  BY <1>1 DEF HistorySafe, RowSafe
<1>3. w \in Workflows /\ k \in Steps
  <2>1. worker[p] \in RowInHand
    BY DEF TypeInv, TypeOK
  <2> QED  BY <1>1, <2>1 DEF RowInHand, Idle
<1>4. tx[w][k] \in TransactionEvidence
  BY <1>3 DEF TypeInv, TypeOK
<1>5. path \in Seq(States)
  BY <1>2, PathTypes DEF States
<1>6. ASSUME path # <<>>, IsCurrent(worker[p])
      PROVE  Earned(w, path[Len(path)])
  <2>1. OneUnsettled(w)
    <3>1. state[w] = worker[p].state
      BY <1>1, <1>2, <1>6, CurrentRow
    <3> QED  BY <1>2, <1>3, <3>1 DEF SettlementSafe, Earned
  <2>2. k = attempts[w][Len(attempts[w])].step
    BY <1>1, <1>6 DEF SettlementSafe, RowEarned
  <2>3. PICK last : last = path[Len(path)]
    OBVIOUS
  <2>4. \/ last \in {"FAILED", "ACTION_REQUIRED", "REORGED", "CONFIRMING"}
        \/ /\ tx[w][k].status = "success" /\ tx[w][k].ahead
           /\ last = IF k = NSteps THEN "STEP_CONFIRMED" ELSE "AWAITING_SIGNATURE"
    <3>1. PICK from : from = worker[p].state
      OBVIOUS
    <3>2. PICK seen : seen = tx[w][k]
      OBVIOUS
    <3>3. PICK final \in BOOLEAN : final = (k = NSteps)
      OBVIOUS
    <3>4. path = ConfirmationDecision(from, seen, final)
      BY <3>1, <3>2, <3>3
    <3> HIDE DEF path, w, k
    <3>5. from \in {"SUBMITTED", "CONFIRMING"} /\ seen \in TransactionEvidence
      BY <1>2, <1>4, <3>1, <3>2
    <3>6. \/ last \in {"FAILED", "ACTION_REQUIRED", "REORGED", "CONFIRMING"}
          \/ /\ seen.status = "success" /\ seen.ahead
             /\ last = IF final THEN "STEP_CONFIRMED" ELSE "AWAITING_SIGNATURE"
      BY <1>6, <2>3, <3>4, <3>5, ConfirmationEnd
    <3> QED  BY <3>2, <3>3, <3>6
  <2> HIDE DEF path, w, k
  <2>5. CASE last \in {"FAILED", "ACTION_REQUIRED", "REORGED", "CONFIRMING"}
    BY <2>1, <2>3, <2>5 DEF Earned
  <2>6. CASE /\ tx[w][k].status = "success" /\ tx[w][k].ahead
             /\ last = IF k = NSteps THEN "STEP_CONFIRMED" ELSE "AWAITING_SIGNATURE"
    <3>1. <<w, k>> \in confirmed
      BY <1>3, <2>6 DEF SettlementSafe, SuccessIsRemembered
    <3>2. Settled(w) /\ (k = NSteps => AllConfirmed(w))
      BY <1>3, <2>1, <2>2, <3>1, LastSuccess
    <3> QED  BY <2>3, <2>6, <3>2 DEF Earned
  <2> QED  BY <2>4, <2>5, <2>6
<1> HIDE DEF path
<1>7. worker[p].state \in {"SUBMITTED", "CONFIRMING", "STEP_CONFIRMED"}
  BY <1>2
<1> QED  BY <1>1, <1>5, <1>6, <1>7, EarnedDecide

\* A verdict of "matched" is reached on credit that is there.
LEMMA MatchedIsCovered ==
    ASSUME NEW w \in Workflows, NEW effects,
           effects = {k \in Steps : activity[w][k] = "attributed"},
           ReconciliationDecision(QuotesOutput, effects, Credit, Minimum) = "matched"
    PROVE  CreditCovers(w)
<1> DEFINE received == {k \in effects : Credit[k] > 0}
           ever == {k \in Steps : activity[w][k] \in {"attributed", "rewound"}}
<1>1. /\ received # {}
      /\ ~ (Observed(received, Credit) < Minimum)
  BY DEF ReconciliationDecision
<1>2. received \in SUBSET Steps /\ ever \in SUBSET Steps /\ received \subseteq ever
  OBVIOUS
<1>3. IsFiniteSet(Steps) /\ (\A k \in Steps : Credit[k] \in Nat) /\ Minimum \in Nat
  <2>1. NSteps \in Int /\ Credit \in [Steps -> Nat] /\ Minimum \in Nat
    BY ConstantsAssumption
  <2>2. IsFiniteSet(1..NSteps)
    BY <2>1, FS_Interval
  <2> QED  BY <2>1, <2>2 DEF Steps
<1>4. PICK k \in received : Credit[k] > 0
  BY <1>1
<1>5. EverCredited(w) = Observed(ever, Credit)
  BY DEF EverCredited
<1> HIDE DEF received, ever
<1>6. /\ Observed(ever, Credit) \in Nat /\ Observed(received, Credit) \in Nat
      /\ Observed(received, Credit) <= Observed(ever, Credit)
      /\ Credit[k] <= Observed(ever, Credit)
  BY <1>2, <1>3, <1>4, SumGrows, ObservedIsSum
<1>7. Credit[k] \in Nat
  BY <1>2, <1>3, <1>4
<1> QED  BY <1>1, <1>3, <1>4, <1>5, <1>6, <1>7 DEF CreditCovers

LEMMA EarnedReadEffects ==
    ASSUME TypeInv, HistorySafe, SettlementSafe, NEW p \in Workers, ReadEffects(p)
    PROVE  SettlementSafe'
<1> DEFINE w == worker[p].w
           effects == {k \in Steps : activity[w][k] = "attributed"}
           verdict ==
               ReconciliationDecision(QuotesOutput, effects, Credit, Minimum)
           path == IF verdict = "wait" THEN <<>>
                   ELSE ReconciliationPath(worker[p].state, verdict)
<1>1. /\ worker[p].pc = "effects" /\ Decide(p, path)
      /\ UNCHANGED <<rows, activity, answer, chain, handler>>
  BY DEF ReadEffects
<1>2. worker[p].state = "STEP_CONFIRMED" /\ w \in Workflows
      /\ log[w][worker[p].count].to = worker[p].state
  BY <1>1, RowFields DEF SettlementSafe, RowEarned, HistorySafe, RowSafe
<1>3. path \in Seq(States)
  <2> HIDE DEF verdict
  <2> QED  BY <1>1, RowFields, PathTypes, EmptySeq
<1>4. ASSUME path # <<>>, IsCurrent(worker[p])
      PROVE  Earned(w, path[Len(path)])
  <2>1. AllConfirmed(w)
    <3>1. state[w] = "STEP_CONFIRMED"
      BY <1>1, <1>2, <1>4, CurrentRow
    <3> QED  BY <1>2, <3>1 DEF SettlementSafe, Earned
  <2>2. verdict = "matched" => CreditCovers(w)
    BY <1>2, MatchedIsCovered
  <2>3. path[Len(path)] =
            IF verdict = "matched" THEN "COMPLETED" ELSE "ACTION_REQUIRED"
    <3> HIDE DEF verdict
    <3> QED  BY <1>4, ReconciliationEnd
  <2> HIDE DEF verdict, path, w
  <2> QED  BY <2>1, <2>2, <2>3 DEF Earned
<1> HIDE DEF path
<1> QED  BY <1>1, <1>2, <1>3, <1>4, EarnedDecide

LEMMA EarnedWaitForRow ==
    ASSUME TypeInv, SettlementSafe, NEW p \in Workers, WaitForRow(p)
    PROVE  SettlementSafe'
<1> DEFINE r == [pc |-> "waiting", w |-> worker[p].w, count |-> worker[p].count,
                 moves |-> worker[p].moves, counted |-> Len(log[worker[p].w])]
<1>1. /\ worker[p].pc = "claim"
      /\ worker' = [worker EXCEPT ![p] = r]
      /\ UNCHANGED <<rows, activity, answer, chain, handler>>
  BY DEF WaitForRow, TypeInv, TypeOK
<1>2. r \in RowInHand
  BY <1>1, RowFields, LenProperties DEF RowInHand, TypeInv, TypeOK
<1>3. RowEarned(r)
  BY <1>1 DEF SettlementSafe, RowEarned, IsCurrent
<1> HIDE DEF r
<1> QED  BY <1>1, <1>2, <1>3, WorkerStepEarned

LEMMA EarnedDropRow ==
    ASSUME TypeInv, SettlementSafe, NEW p \in Workers, DropRow(p)
    PROVE  SettlementSafe'
BY IdleRow, IdleEarned, WorkerStepEarned DEF DropRow

-----------------------------------------------------------------------------
(* The writes: an admission, the API's and the worker's.                   *)

\* A write that continues one workflow's history with what was earned.  Every
\* other row in hand for that workflow stops being current.
LEMMA EarnedWrite ==
    ASSUME TypeInv, TypeInv', HistorySafe, SettlementSafe, NEW w \in Workflows,
           NEW moves \in Seq(Move), moves # <<>>, WalkFrom(End(w), moves),
           Write(w, moves, Len(log[w])),
           Earned(w, moves[Len(moves)].to)',
           \A v \in Workflows : v # w => attempts'[v] = attempts[v],
           UNCHANGED <<activity, tx, confirmed>>, AnsweredInOrder',
           \A p \in Workers : worker'[p] \in {worker[p], Idle}
    PROVE  SettlementSafe'
<1>1. /\ state' = [state EXCEPT ![w] = moves[Len(moves)].to]
      /\ log' = [log EXCEPT ![w] = log[w] \o moves]
      /\ Len(log'[w]) > Len(log[w])
      /\ \A v \in Workflows : \A i \in 1..Len(log[v]) : log'[v][i] = log[v][i]
  BY WriteContinues
<1>2. /\ state'[w] = moves[Len(moves)].to
      /\ \A v \in Workflows : v # w => state'[v] = state[v] /\ log'[v] = log[v]
  BY <1>1 DEF TypeInv, TypeOK
<1>3. CreditKept /\ confirmed \subseteq confirmed'
  BY SameCredit
<1>4. ASSUME NEW v \in Workflows, NEW s, v # w, Earned(v, s)
      PROVE  Earned(v, s)'
  BY <1>3, <1>4, EarnedKept
<1>5. ASSUME NEW v \in Workflows PROVE Earned(v, state[v])'
  <2>1. CASE v = w
    BY <1>2, <2>1 DEF Earned
  <2>2. CASE v # w
    <3>1. PICK s : s = state[v] /\ s = state'[v]
      BY <1>2, <2>2
    <3>2. Earned(v, s)'
      BY <1>4, <2>2, <3>1 DEF SettlementSafe
    <3> QED  BY <3>1, <3>2 DEF Earned
  <2> QED  BY <2>1, <2>2
<1>6. SuccessIsRemembered'
  BY DEF SettlementSafe, SuccessIsRemembered
<1>7. ASSUME NEW p \in Workers PROVE RowEarned(worker[p])'
  <2>1. CASE worker'[p] = Idle
    BY <2>1, IdleEarned DEF RowEarned, Idle
  <2>2. CASE worker'[p] = worker[p] /\ worker[p].pc # "idle"
    <3> DEFINE r == worker[p]
    <3>1. /\ r.w \in Workflows /\ r.count \in Nat /\ r.count > 0
          /\ r.count <= Len(log[r.w]) /\ Len(log[r.w]) \in Nat
          /\ Len(log'[r.w]) \in Nat
      BY <2>2, RowFields, LenProperties DEF HistorySafe, RowSafe, TypeInv, TypeOK
    <3>2. log'[r.w][r.count] = log[r.w][r.count]
      BY <1>1, <3>1
    <3>3. RowEarned(r)
      BY DEF SettlementSafe
    <3>4. PICK q : q = worker[p] /\ q = worker'[p]
      BY <2>2
    <3>5. CASE r.w = w
      <4>1. ~IsCurrent(q)'
        BY <1>1, <3>1, <3>4, <3>5 DEF IsCurrent
      <4>2. RowEarned(q)'
        BY <3>2, <3>3, <3>4, <4>1 DEF RowEarned
      <4> QED  BY <3>4, <4>2 DEF RowEarned, IsCurrent
    <3>6. CASE r.w # w
      <4>1. /\ log'[q.w] = log[q.w] /\ attempts'[q.w] = attempts[q.w]
            /\ q.w \in Workflows /\ q.w # w
        BY <1>2, <3>1, <3>4, <3>6
      <4>2. IsCurrent(q)' <=> IsCurrent(q)
        BY <4>1 DEF IsCurrent
      <4>3. PICK s : s = q.moves[Len(q.moves)].to
        OBVIOUS
      <4>4. Earned(q.w, s) => Earned(q.w, s)'
        BY <1>4, <4>1
      <4>5. Earned(q.w, q.moves[Len(q.moves)].to)
                => Earned(q.w, q.moves[Len(q.moves)].to)'
        BY <4>3, <4>4
      <4>6. RowEarned(q)'
        BY <3>3, <3>4, <4>1, <4>2, <4>5 DEF RowEarned
      <4> QED  BY <3>4, <4>6 DEF RowEarned, IsCurrent
    <3> QED  BY <3>5, <3>6
  <2>3. CASE worker'[p] = worker[p] /\ worker[p].pc = "idle"
    BY <2>3 DEF RowEarned
  <2> QED  BY <2>1, <2>2, <2>3
<1> QED  BY <1>5, <1>6, <1>7 DEF SettlementSafe

LEMMA SameAnswers ==
    ASSUME SettlementSafe, UNCHANGED <<answer, attempts>>
    PROVE  AnsweredInOrder'
BY DEF SettlementSafe, AnsweredInOrder, Recorded

LEMMA EarnedStart ==
    ASSUME TypeInv, TypeInv', HistorySafe, SettlementSafe, NEW w \in Workflows,
           StartWorkflow(w)
    PROVE  SettlementSafe'
<1> DEFINE moves == MovesAlong("DRAFT", AdmissionPath)
<1>1. /\ state[w] = "NONE" /\ log[w] = <<>>
      /\ UNCHANGED <<attempts, activity, answer, tx, confirmed, worker>>
  BY DEF StartWorkflow, HistorySafe, StateIsLastTransition, chain
<1>2. Write(w, moves, Len(log[w]))
  <2>1. Len(log[w]) = 0
    BY <1>1, EmptySeq
  <2> QED  BY <2>1 DEF StartWorkflow
<1>3. /\ moves \in Seq(Move) /\ moves # <<>> /\ WalkFrom(End(w), moves)
      /\ moves[Len(moves)].to = "AWAITING_SIGNATURE"
  BY <1>1, AdmissionType, AdmissionWalk DEF End
<1> HIDE DEF moves
<1>4. Earned(w, "AWAITING_SIGNATURE")
  BY <1>1 DEF SettlementSafe, Earned
<1>5. Earned(w, "AWAITING_SIGNATURE")'
  BY <1>1, <1>4, EarnedKept, SameCredit
<1>6. Earned(w, moves[Len(moves)].to)'
  BY <1>3, <1>5
<1>7. AnsweredInOrder'
  BY <1>1, SameAnswers
<1> QED  BY <1>1, <1>2, <1>3, <1>6, <1>7, EarnedWrite

\* An answer that was broadcast leaves one attempt unsettled.
LEMMA EarnedRecordAttempt ==
    ASSUME TypeInv, TypeInv', HistorySafe, SettlementSafe, NEW h \in Handlers,
           RecordAttempt(h)
    PROVE  SettlementSafe'
<1>1. PICK w \in Workflows : w = handler[h].w
  BY RequestFields DEF RecordAttempt
<1>2. PICK step \in Steps : step = handler[h].step
  BY RequestFields DEF RecordAttempt
<1>3. PICK outcome \in Outcomes : outcome = answer[w][step]
  BY <1>1, <1>2, RequestFields DEF RecordAttempt
<1>4. PICK move : move = [from |-> "AWAITING_SIGNATURE", to |-> TargetOf(outcome)]
  OBVIOUS
<1>5. PICK attempt : attempt = [step |-> step, outcome |-> outcome]
  OBVIOUS
<1>6. /\ step \in Open(w) /\ state[w] = "AWAITING_SIGNATURE"
      /\ move \in Move /\ WalkFrom(End(w), <<move>>)
      /\ Write(w, <<move>>, Len(log[w]))
      /\ attempts' = [attempts EXCEPT ![w] = AddAttempt(attempts[w], attempt)]
      /\ UNCHANGED <<answer, worker>>
  BY <1>1, <1>2, <1>3, <1>4, <1>5, RecordWrites
<1>7. UNCHANGED <<activity, tx, confirmed>>
  BY DEF RecordAttempt, chain
<1>8. attempts[w] \in Seq([step : Steps, outcome : Outcomes])
      /\ attempt \in [step : Steps, outcome : Outcomes]
  BY <1>5 DEF TypeInv, TypeOK
<1>9. attempts'[w] = Append(attempts[w], attempt)
  <2>1. attempt \notin Range(attempts[w])
    BY <1>5, <1>6 DEF Open, Recorded, Range
  <2> QED  BY <1>6, <2>1 DEF AddAttempt, TypeInv, TypeOK
<1>10. /\ Len(attempts'[w]) = Len(attempts[w]) + 1 /\ Len(attempts[w]) \in Nat
       /\ DOMAIN attempts'[w] = 1..(Len(attempts[w]) + 1)
       /\ DOMAIN attempts[w] = 1..Len(attempts[w])
       /\ \A i \in 1..Len(attempts[w]) : attempts'[w][i] = attempts[w][i]
       /\ attempts'[w][Len(attempts[w]) + 1] = attempt
  BY <1>8, <1>9, AppendProperties, LenProperties
<1>11. Settled(w)
  BY <1>6 DEF SettlementSafe, Earned
<1>12. Earned(w, move.to)'
  <2>1. CASE outcome = "BROADCAST"
    <3>1. move.to = "SUBMITTED" /\ attempt.outcome = "BROADCAST"
      BY <1>4, <1>5, <2>1 DEF TargetOf
    <3>2. attempts'[w] # <<>>
      BY <1>10, EmptySeq
    <3>3. ASSUME NEW i \in DOMAIN attempts'[w]
          PROVE  /\ attempts'[w][i].outcome = "BROADCAST"
                 /\ i # Len(attempts'[w]) =>
                       <<w, attempts'[w][i].step>> \in confirmed'
      <4>1. CASE i = Len(attempts[w]) + 1
        BY <1>10, <3>1, <4>1
      <4>2. CASE i \in 1..Len(attempts[w])
        BY <1>7, <1>10, <1>11, <4>2 DEF Settled
      <4> QED  BY <1>10, <4>1, <4>2
    <3>4. OneUnsettled(w)'
      BY <3>2, <3>3 DEF OneUnsettled
    <3> QED  BY <3>1, <3>4 DEF Earned
  <2>2. CASE outcome # "BROADCAST"
    BY <1>4, <2>2 DEF TargetOf, Earned
  <2> QED  BY <2>1, <2>2
<1>13. AnsweredInOrder'
  <2>1. attempt.step = step
    BY <1>5
  <2>2. \A k \in Steps : Recorded(w, k)' => (Recorded(w, k) \/ k = step)
    BY <1>10, <2>1 DEF Recorded
  <2>3. \A k \in Steps : Recorded(w, k) => Recorded(w, k)'
    BY <1>6, <1>8, RecordedAfter
  <2>4. \A v \in Workflows : v # w => attempts'[v] = attempts[v]
    BY <1>6 DEF TypeInv, TypeOK
  <2>5. answer[w][step] # "none"
    BY <1>6 DEF Open
  <2>6. \A k \in Steps : 1..(k - 1) \subseteq Steps
    BY ConstantsAssumption DEF Steps
  <2>7. ASSUME NEW v \in Workflows, NEW k \in Steps
        PROVE  /\ answer'[v][k] # "none" => \A j \in 1..(k - 1) : Recorded(v, j)'
               /\ Recorded(v, k)' => answer'[v][k] # "none"
    <3>1. CASE v = w
      BY <1>6, <2>2, <2>3, <2>5, <2>6, <3>1 DEF SettlementSafe, AnsweredInOrder
    <3>2. CASE v # w
      BY <1>6, <2>4, <3>2 DEF SettlementSafe, AnsweredInOrder, Recorded
    <3> QED  BY <3>1, <3>2
  <2> QED  BY <2>7 DEF AnsweredInOrder, Recorded
<1>14. /\ <<move>> \in Seq(Move) /\ <<move>> # <<>>
       /\ <<move>>[Len(<<move>>)].to = move.to
  BY <1>6
<1>15. \A v \in Workflows : v # w => attempts'[v] = attempts[v]
  BY <1>6 DEF TypeInv, TypeOK
<1>16. PICK moves \in Seq(Move) : moves = <<move>>
  BY <1>14
<1> QED  BY <1>6, <1>7, <1>12, <1>13, <1>14, <1>15, <1>16, EarnedWrite

\* A claim that matches holds a current row, in a state the worker moves.
LEMMA AdvanceWrites ==
    ASSUME TypeInv, HistorySafe, SettlementSafe, NEW p \in Workers, Advance(p),
           ~UNCHANGED rows, NEW w, w = worker[p].w,
           NEW moves, moves = worker[p].moves
    PROVE  /\ w \in Workflows /\ moves \in Seq(Move) /\ moves # <<>>
           /\ Write(w, moves, Len(log[w])) /\ WalkFrom(End(w), moves)
           /\ Earned(w, moves[Len(moves)].to)
           /\ state[w] \in {"SUBMITTED", "CONFIRMING", "STEP_CONFIRMED"}
           /\ UNCHANGED attempts
<1>1. /\ w \in Workflows /\ moves \in Seq(Move) /\ moves # <<>>
      /\ worker[p].pc \in {"claim", "waiting"} /\ worker[p].pc # "idle"
  BY RowFields DEF Advance
<1>2. /\ Claims(worker[p], IF worker[p].pc = "claim" THEN Len(log[w])
                           ELSE worker[p].counted)
      /\ Write(w, moves, worker[p].count) /\ UNCHANGED attempts
  BY DEF Advance
<1>3. IsCurrent(worker[p]) /\ worker[p].count = Len(log[w])
  BY <1>1, <1>2 DEF Claims, CountHolds, RowSafe, HistorySafe, IsCurrent
<1>4. /\ state[w] = log[w][worker[p].count].to
      /\ WalkFrom(log[w][worker[p].count].to, moves)
      /\ worker[p].count > 0
  BY <1>1, <1>3, CurrentRow DEF HistorySafe, RowSafe
<1>5. End(w) = log[w][worker[p].count].to
  <2>1. log[w] # <<>>
    BY <1>1, <1>3, <1>4, EmptySeq DEF TypeInv, TypeOK
  <2> QED  BY <1>3, <2>1 DEF End
<1>6. /\ log[w][worker[p].count].to \in {"SUBMITTED", "CONFIRMING", "STEP_CONFIRMED"}
      /\ Earned(w, moves[Len(moves)].to)
  BY <1>1, <1>3 DEF SettlementSafe, RowEarned
<1> QED  BY <1>1, <1>2, <1>3, <1>4, <1>5, <1>6

LEMMA EarnedAdvance ==
    ASSUME TypeInv, TypeInv', HistorySafe, SettlementSafe, NEW p \in Workers,
           Advance(p)
    PROVE  SettlementSafe'
<1>1. /\ worker' = [worker EXCEPT ![p] = Idle]
      /\ UNCHANGED <<activity, answer, chain, handler>>
  BY DEF Advance
<1>2. CASE UNCHANGED rows
  BY <1>1, <1>2, IdleRow, IdleEarned, WorkerStepEarned
<1>3. CASE ~UNCHANGED rows
  <2>1. PICK w : w = worker[p].w
    OBVIOUS
  <2>2. PICK moves : moves = worker[p].moves
    OBVIOUS
  <2>3. /\ w \in Workflows /\ moves \in Seq(Move) /\ moves # <<>>
        /\ Write(w, moves, Len(log[w])) /\ WalkFrom(End(w), moves)
        /\ Earned(w, moves[Len(moves)].to)
        /\ UNCHANGED attempts
    BY <1>3, <2>1, <2>2, AdvanceWrites
  <2>4. PICK s : s = moves[Len(moves)].to
    OBVIOUS
  <2>5. Earned(w, s)'
    BY <1>1, <2>3, <2>4, EarnedKept, SameCredit DEF chain
  <2>6. Earned(w, moves[Len(moves)].to)'
    BY <2>4, <2>5
  <2>7. AnsweredInOrder'
    BY <1>1, <2>3, SameAnswers
  <2>8. \A q \in Workers : worker'[q] \in {worker[q], Idle}
    BY <1>1 DEF TypeInv, TypeOK
  <2>9. UNCHANGED <<activity, tx, confirmed>>
    BY <1>1 DEF chain
  <2> QED  BY <2>3, <2>6, <2>7, <2>8, <2>9, EarnedWrite
<1> QED  BY <1>2, <1>3

-----------------------------------------------------------------------------
(* The client, and the chain with what ingestion stores of it.             *)

LEMMA EarnedWallet ==
    ASSUME TypeInv, SettlementSafe, NEW w \in Workflows, NEW k \in Steps,
           NEW outcome \in Outcomes, WalletAnswers(w, k, outcome)
    PROVE  SettlementSafe'
<1>1. UNCHANGED <<rows, activity, confirmed, worker, attempts>>
  BY DEF WalletAnswers, rows
<1>2. /\ answer' = [answer EXCEPT ![w][k] = outcome]
      /\ \A j \in 1..(k - 1) : Recorded(w, j)
      /\ \E seen \in {Absent, Pending} : tx' = [tx EXCEPT ![w][k] = seen]
  BY DEF WalletAnswers
<1>3. outcome # "none"
  BY ConstantsAssumption
<1>4. \A v \in Workflows, j \in Steps :
          answer'[v][j] = IF v = w /\ j = k THEN outcome ELSE answer[v][j]
  BY <1>2 DEF TypeInv, TypeOK
<1>5. AnsweredInOrder'
  BY <1>1, <1>2, <1>3, <1>4 DEF SettlementSafe, AnsweredInOrder, Recorded
<1>6. SuccessIsRemembered'
  BY <1>1, <1>2 DEF SettlementSafe, SuccessIsRemembered, Absent, Pending,
                    Evidence, TypeInv, TypeOK
<1>7. \A p \in Workers : RowEarned(worker'[p]) /\ worker'[p] \in RowInHand
  BY <1>1 DEF SettlementSafe, TypeInv, TypeOK
<1> QED  BY <1>1, <1>5, <1>6, <1>7, SameCredit, TablesStay

\* A request that writes nothing, and stuttering.
LEMMA EarnedElsewhere ==
    ASSUME TypeInv, SettlementSafe, UNCHANGED <<rows, activity, answer, chain, worker>>
    PROVE  SettlementSafe'
<1>1. UNCHANGED <<rows, activity, confirmed, worker, attempts>>
  BY DEF rows, chain
<1>2. AnsweredInOrder' /\ SuccessIsRemembered'
  BY DEF SettlementSafe, AnsweredInOrder, Recorded, SuccessIsRemembered, rows, chain
<1>3. \A p \in Workers : RowEarned(worker'[p]) /\ worker'[p] \in RowInHand
  BY <1>1 DEF SettlementSafe, TypeInv, TypeOK
<1> QED  BY <1>1, <1>2, <1>3, SameCredit, TablesStay

\* What the chain does to one transaction's evidence and to its credit.
LEMMA ChainMoves ==
    ASSUME TypeInv, SettlementSafe, NEW w \in Workflows, NEW k \in Steps,
           ChainNext(w, k)
    PROVE  /\ confirmed \subseteq confirmed'
           /\ CreditKept
           /\ SuccessIsRemembered'
           /\ UNCHANGED <<rows, answer, worker>>
<1>1. tx[w][k] \in TransactionEvidence /\ tx \in [Workflows -> [Steps -> TransactionEvidence]]
      /\ activity \in [Workflows -> [Steps ->
             {"none", "attributed", "unattributed", "rewound", "lost"}]]
  BY DEF TypeInv, TypeOK
<1>2. ASSUME NEW seen, SetTx(w, k, seen), confirmed \subseteq confirmed',
             (seen.ahead /\ seen.status = "success") => <<w, k>> \in confirmed'
      PROVE  SuccessIsRemembered'
  <2>1. \A v \in Workflows, j \in Steps :
            tx'[v][j] = IF v = w /\ j = k THEN seen ELSE tx[v][j]
    BY <1>1, <1>2 DEF SetTx
  <2> QED  BY <1>2, <2>1 DEF SettlementSafe, SuccessIsRemembered
<1>3. ASSUME UNCHANGED <<activity, confirmed>>, NEW seen, SetTx(w, k, seen),
             ~seen.ahead
      PROVE  /\ confirmed \subseteq confirmed' /\ CreditKept
             /\ SuccessIsRemembered'
  BY <1>2, <1>3, SameCredit
<1>4. ASSUME NEW status \in {"success", "aborted"}, Mine(w, k, status)
      PROVE  /\ confirmed \subseteq confirmed' /\ CreditKept
             /\ SuccessIsRemembered'
  BY <1>3, <1>4 DEF Mine, Evidence
<1>5. CASE Drop(w, k)
  <2>1. /\ UNCHANGED <<activity, confirmed>>
        /\ SetTx(w, k, Evidence("dropped", FALSE, FALSE, FALSE))
        /\ ~Evidence("dropped", FALSE, FALSE, FALSE).ahead
    BY <1>5 DEF Drop, Evidence
  <2> QED  BY <1>3, <2>1, ChainLeavesRows
<1>6. CASE Orphan(w, k)
  <2>1. /\ UNCHANGED <<activity, confirmed>>
        /\ SetTx(w, k, Evidence(tx[w][k].status, TRUE, FALSE, FALSE))
        /\ ~Evidence(tx[w][k].status, TRUE, FALSE, FALSE).ahead
    BY <1>6 DEF Orphan, Evidence
  <2> QED  BY <1>3, <2>1, ChainLeavesRows
<1>7. CASE Return(w, k)
  <2>1. /\ UNCHANGED <<activity, confirmed>>
        /\ SetTx(w, k, Pending) /\ ~Pending.ahead
    BY <1>7 DEF Return, Pending, Evidence
  <2> QED  BY <1>3, <2>1, ChainLeavesRows
<1>8. CASE Deepen(w, k)
  <2> DEFINE seen == [tx[w][k] EXCEPT !.ahead = TRUE]
  <2>1. /\ SetTx(w, k, seen) /\ UNCHANGED activity
        /\ confirmed' = IF tx[w][k].status = "success"
                        THEN confirmed \cup {<<w, k>>} ELSE confirmed
    BY <1>8 DEF Deepen
  <2>2. seen.status = tx[w][k].status
    BY <1>1 DEF TransactionEvidence
  <2> HIDE DEF seen
  <2> QED  BY <1>2, <2>1, <2>2, SameCredit, ChainLeavesRows
<1>9. CASE IngestEvent(w, k) \/ Rewind(w, k)
  <2>1. /\ UNCHANGED <<tx, confirmed>>
        /\ \A v \in Workflows, j \in Steps :
              (v # w \/ j # k) => activity'[v][j] = activity[v][j]
    BY <1>1, <1>9 DEF IngestEvent, Rewind, chain
  <2>2. activity[w][k] \in {"attributed", "rewound"} =>
            activity'[w][k] \in {"attributed", "rewound"}
    BY <1>1, <1>9 DEF IngestEvent, Rewind
  <2>3. CreditKept
    BY <2>1, <2>2 DEF CreditKept
  <2>4. SuccessIsRemembered'
    BY <2>1 DEF SettlementSafe, SuccessIsRemembered
  <2> QED  BY <2>1, <2>3, <2>4, ChainLeavesRows
<1> QED  BY <1>4, <1>5, <1>6, <1>7, <1>8, <1>9, ChainLeavesRows DEF ChainNext

LEMMA EarnedChain ==
    ASSUME TypeInv, SettlementSafe, NEW w \in Workflows, NEW k \in Steps,
           ChainNext(w, k)
    PROVE  SettlementSafe'
<1>1. /\ confirmed \subseteq confirmed' /\ CreditKept /\ SuccessIsRemembered'
      /\ UNCHANGED <<rows, answer, worker>>
  BY ChainMoves
<1>2. AnsweredInOrder'
  BY <1>1, SameAnswers DEF rows
<1>3. \A p \in Workers : RowEarned(worker'[p]) /\ worker'[p] \in RowInHand
  BY <1>1 DEF SettlementSafe, TypeInv, TypeOK
<1> QED  BY <1>1, <1>2, <1>3, TablesStay

-----------------------------------------------------------------------------
LEMMA SettlementStep ==
    ASSUME TypeInv, HistorySafe, SettlementSafe, [Next]_vars
    PROVE  SettlementSafe'
<1>1. TypeInv'
  BY TypeStep
<1>2. ASSUME NEW w \in Workflows, ClientNext(w) PROVE SettlementSafe'
  <2>1. ASSUME NEW k \in Steps, NEW h \in Handlers, ReadWorkflow(h, w, k)
        PROVE  SettlementSafe'
    BY <2>1, EarnedElsewhere DEF ReadWorkflow
  <2> QED  BY <1>1, <1>2, <2>1, EarnedStart, EarnedWallet DEF ClientNext
<1>3. ASSUME NEW h \in Handlers, HandlerNext(h) PROVE SettlementSafe'
  <2>1. CASE FindAttempt(h) \/ AbandonRequest(h)
    BY <2>1, EarnedElsewhere DEF FindAttempt, AbandonRequest
  <2> QED  BY <1>1, <1>3, <2>1, EarnedRecordAttempt DEF HandlerNext
<1>4. ASSUME NEW p \in Workers, WorkerNext(p) PROVE SettlementSafe'
  BY <1>1, <1>4, EarnedListConfirming, EarnedListReconciling, EarnedReadEvidence,
     EarnedReadEffects, EarnedWaitForRow, EarnedAdvance, EarnedDropRow
     DEF WorkerNext
<1>5. CASE UNCHANGED vars
  BY <1>5, EarnedElsewhere DEF vars
<1> QED  BY <1>2, <1>3, <1>4, <1>5, EarnedChain DEF Next

\* The three facts every theorem below is read off.
LEMMA SettlementInvariant ==
    ASSUME SerialReports, ClaimsAreAlone
    PROVE  Spec => [](TypeInv /\ HistorySafe /\ SettlementSafe)
<1>1. Init => TypeInv /\ HistorySafe /\ SettlementSafe
  BY TypeInit, HistoryInit, SettlementInit
<1>2. TypeInv /\ HistorySafe /\ SettlementSafe /\ [Next]_vars =>
          TypeInv' /\ HistorySafe' /\ SettlementSafe'
  BY TypeStep, HistoryStep, SettlementStep
<1> QED  BY <1>1, <1>2, PTL DEF Spec

\* No second signature is asked for beside an open one: while the workflow
\* awaits a signature, every step that was answered was broadcast and has
\* succeeded under the checkpoint (confirmationDecision, recordSignature).
THEOREM NoOpenWriteBesideARequest ==
    ASSUME SerialReports, ClaimsAreAlone
    PROVE  Spec => []NoWriteReopenedWhileUncertain
<1>1. SettlementSafe => NoWriteReopenedWhileUncertain
  BY DEF SettlementSafe, Earned, Settled, NoWriteReopenedWhileUncertain
<1> QED  BY <1>1, SettlementInvariant, PTL

\* A workflow is shown completed only when every step of its plan succeeded
\* under the checkpoint and ingestion attributed no less than the signed
\* minimum to it, for every plan and every credit (reconciliationDecision).
THEOREM CompletedIsEarned ==
    ASSUME SerialReports, ClaimsAreAlone
    PROVE  Spec => []CompletedOnEvidence
<1>1. SettlementSafe => CompletedOnEvidence
  BY DEF SettlementSafe, Earned, AllConfirmed, CreditCovers, CompletedOnEvidence
<1> QED  BY <1>1, SettlementInvariant, PTL

\* The worker's claim moves a workflow only out of the states it lists, with any
\* number of workers: never one that has ended or waits for a signature
\* (advanceWorkflowFromChain).
THEOREM WorkerMovesListedStates ==
    ASSUME SerialReports, ClaimsAreAlone
    PROVE  Spec => WorkerMovesOnlyWhatItRead
<1> DEFINE Moves ==
        \A p \in Workers, w \in Workflows :
            (Advance(p) /\ state'[w] # state[w]) =>
                state[w] \in {"SUBMITTED", "CONFIRMING", "STEP_CONFIRMED"}
<1>1. ASSUME TypeInv, HistorySafe, SettlementSafe PROVE Moves
  <2> SUFFICES ASSUME NEW p \in Workers, NEW w \in Workflows, Advance(p),
                      state'[w] # state[w]
               PROVE  state[w] \in {"SUBMITTED", "CONFIRMING", "STEP_CONFIRMED"}
    OBVIOUS
  <2>1. PICK v : v = worker[p].w
    OBVIOUS
  <2>2. PICK moves : moves = worker[p].moves
    OBVIOUS
  <2>3. ~UNCHANGED rows
    BY DEF rows
  <2>4. /\ v \in Workflows /\ Write(v, moves, Len(log[v]))
        /\ state[v] \in {"SUBMITTED", "CONFIRMING", "STEP_CONFIRMED"}
    BY <1>1, <2>1, <2>2, <2>3, AdvanceWrites
  <2>5. w = v
    BY <1>1, <2>4 DEF Write, TypeInv, TypeOK
  <2> QED  BY <2>4, <2>5
<1>2. TypeInv /\ HistorySafe /\ SettlementSafe => [Moves]_vars
  BY <1>1
<1>3. ([][Moves]_vars) => WorkerMovesOnlyWhatItRead
  BY PTL DEF WorkerMovesOnlyWhatItRead
<1> HIDE DEF Moves
<1> QED  BY <1>2, <1>3, SettlementInvariant, PTL

=============================================================================
