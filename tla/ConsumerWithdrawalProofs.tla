---------------------- MODULE ConsumerWithdrawalProofs ----------------------
(***************************************************************************)
(* Proofs about the withdrawal flow: the web routes, the worker, the       *)
(* dispatch service and the chain never pay a withdrawal twice, refund one *)
(* that may have been paid, or call one paid that was not.                 *)
(***************************************************************************)
EXTENDS ConsumerWithdrawalFlow, ConsumerEscrowProofs, TLAPS

-----------------------------------------------------------------------------
(* The inductive invariant.                                                *)

\* What a row's columns say about its past.  The prepared message of a row
\* is never taken back, so it separates the rows the web tier may have sent
\* from the rows the worker may have handed to the dispatch service.
RowOK(w) ==
  /\ withdrawal[w].status \in {"none", "queued", "dispatching"} => withdrawal[w].message = NoSignature
  /\ withdrawal[w].status \in {"none", "queued", "prepared", "dispatching"} =>
       withdrawal[w].signature = NoSignature
  /\ withdrawal[w].status = "prepared" => withdrawal[w].message \in Signatures
  /\ withdrawal[w].status \in {"submitted", "finalized"} => withdrawal[w].signature \in Signatures
  /\ service[w] # "none" =>
       /\ withdrawal[w].message = NoSignature
       /\ withdrawal[w].status \in {"dispatching", "submitted", "finalized", "failed_review"}
  /\ \A m \in Signatures : <<w, m>> \in broadcasts => withdrawal[w].message \in Signatures

\* A signature is recorded on one row.
SignaturesDiffer ==
  \A v, w \in Withdrawals :
    v # w /\ withdrawal[v].signature \in Signatures => withdrawal[v].signature # withdrawal[w].signature

\* What a finalized row rests on.
Paid(w) ==
  withdrawal[w].status = "finalized" => chain[withdrawal[w].signature].state = "landed"

\* The queue holds the submitted rows, each once.
QueueOK ==
  /\ \A i \in 1..Len(queue) : withdrawal[queue[i]].status = "submitted"
  /\ \A i, j \in 1..Len(queue) : queue[i] = queue[j] => i = j
  /\ \A w \in Withdrawals : withdrawal[w].status = "submitted" => \E i \in 1..Len(queue) : queue[i] = w

\* A run of the submit route past its read names a row that was prepared.
RunOK(r) ==
  submit[r].pc # "idle" =>
    /\ submit[r].row \in Withdrawals /\ submit[r].message \in Signatures
    /\ withdrawal[submit[r].row].message \in Signatures

\* The row the tick has claimed is still the tick's own.
ClaimOK ==
  /\ worker.pc \in {"idle", "finalizing"} => worker.row = 0
  /\ worker.pc \in {"claimed", "calling", "answered", "review"} =>
       worker.row \in Withdrawals /\ withdrawal[worker.row].status = "dispatching"
  /\ worker.pc = "answered" => worker.signature \in Signatures

WithdrawalInv ==
  /\ TypeInv /\ WithdrawalTypeOK
  /\ \A w \in Withdrawals : RowOK(w) /\ Paid(w)
  /\ SignaturesDiffer /\ QueueOK /\ ClaimOK
  /\ \A r \in Submits : RunOK(r)
  /\ DriftHalts /\ ReviewHalts


-----------------------------------------------------------------------------
(* What each part of the invariant needs of a step.                        *)

\* Signatures recorded on rows stay there.
SignaturesKept ==
  \A w \in Withdrawals :
    withdrawal[w].signature \in Signatures => withdrawal'[w].signature = withdrawal[w].signature

\* A halt is never undone.
HaltKept == circuit.status = "halted" => circuit'.status = "halted"

\* A transaction that has landed does not change.
LandedKept == \A m \in Signatures : chain[m].state = "landed" => chain'[m] = chain[m]

\* A broadcast is accounted for as long as signatures and halts are kept.
LEMMA DriftKept ==
  ASSUME WithdrawalTypeOK, DriftHalts, SignaturesKept, HaltKept, UNCHANGED <<submit, broadcasts>>
  PROVE  DriftHalts'
<1> SUFFICES ASSUME NEW b \in broadcasts
             PROVE  (\/ Recorded(b[2])
                     \/ InFlight(b[2])
                     \/ circuit.status = "halted"
                     \/ \E r \in Submits : submit[r].message = b[2] /\ submit[r].pc = "lost")'
  BY DEF DriftHalts
<1>1. b[2] \in Signatures
  BY DEF WithdrawalTypeOK
<1>2. Recorded(b[2]) => Recorded(b[2])'
  BY <1>1 DEF Recorded, SignaturesKept
<1>3. InFlight(b[2]) => InFlight(b[2])'
  BY DEF InFlight
<1> QED BY <1>2, <1>3 DEF DriftHalts, HaltKept

\* A run of the route still names a row that was prepared.
LEMMA RunsKept ==
  ASSUME \A r \in Submits : RunOK(r), UNCHANGED submit,
         \A w \in Withdrawals : withdrawal[w].message \in Signatures => withdrawal'[w].message \in Signatures
  PROVE  \A r \in Submits : RunOK(r)'
BY DEF RunOK

\* A step that changes no row preserves what is said about the rows.
LEMMA RowsStay ==
  ASSUME WithdrawalInv, TypeInv', WithdrawalTypeOK', UNCHANGED <<withdrawal, destination, queue>>,
         \A w \in Withdrawals : service'[w] = service[w] \/ withdrawal[w].status = "dispatching",
         LandedKept,
         \A w \in Withdrawals, m \in Signatures :
           <<w, m>> \in broadcasts' => <<w, m>> \in broadcasts \/ withdrawal[w].message \in Signatures,
         \A r \in Submits : RunOK(r)', DriftHalts', ClaimOK', ReviewHalts'
  PROVE  WithdrawalInv'
<1>1. ASSUME NEW w \in Withdrawals PROVE RowOK(w)' /\ Paid(w)'
  <2>1. RowOK(w) /\ Paid(w)
    BY DEF WithdrawalInv
  <2>2. RowOK(w)'
    BY <2>1 DEF RowOK
  <2>3. CASE withdrawal[w].status = "finalized"
    <3>1. withdrawal[w].signature \in Signatures /\ chain[withdrawal[w].signature].state = "landed"
      BY <2>1, <2>3 DEF RowOK, Paid
    <3>2. chain'[withdrawal[w].signature] = chain[withdrawal[w].signature]
      BY <3>1 DEF LandedKept
    <3> QED BY <2>2, <3>1, <3>2 DEF Paid
  <2>4. CASE withdrawal[w].status # "finalized"
    BY <2>2, <2>4 DEF Paid
  <2> QED BY <2>3, <2>4
<1>2. SignaturesDiffer' /\ QueueOK'
  BY DEF WithdrawalInv, SignaturesDiffer, QueueOK
<1> QED BY <1>1, <1>2 DEF WithdrawalInv

\* A step that changes one row preserves what is said about the others.
LEMMA OneRowMoves ==
  ASSUME WithdrawalInv, TypeInv', WithdrawalTypeOK', NEW w \in Withdrawals,
         \A v \in Withdrawals : v # w => withdrawal'[v] = withdrawal[v] /\ destination'[v] = destination[v],
         UNCHANGED <<service, broadcasts>>, LandedKept,
         \/ withdrawal'[w].signature = withdrawal[w].signature
         \/ withdrawal'[w].signature \notin Signatures
         \/ SignatureUnused(withdrawal'[w].signature),
         RowOK(w)', Paid(w)', QueueOK', ClaimOK', \A r \in Submits : RunOK(r)', DriftHalts', ReviewHalts'
  PROVE  WithdrawalInv'
<1>1. ASSUME NEW v \in Withdrawals PROVE RowOK(v)' /\ Paid(v)'
  <2>1. CASE v = w
    BY <2>1
  <2>2. CASE v # w
    <3>1. RowOK(v) /\ Paid(v) /\ withdrawal'[v] = withdrawal[v] /\ destination'[v] = destination[v]
      BY <2>2 DEF WithdrawalInv
    <3>2. RowOK(v)'
      BY <3>1 DEF RowOK
    <3>3. CASE withdrawal[v].status = "finalized"
      <4>1. withdrawal[v].signature \in Signatures /\ chain[withdrawal[v].signature].state = "landed"
        BY <3>1, <3>3 DEF RowOK, Paid
      <4>2. chain'[withdrawal[v].signature] = chain[withdrawal[v].signature]
        BY <4>1 DEF LandedKept
      <4> QED BY <3>1, <3>2, <4>1, <4>2 DEF Paid
    <3>4. CASE withdrawal[v].status # "finalized"
      BY <3>1, <3>2, <3>4 DEF Paid
    <3> QED BY <3>3, <3>4
  <2> QED BY <2>1, <2>2
<1>2. SignaturesDiffer'
  <2>1. \A v \in Withdrawals : v # w /\ withdrawal'[w].signature \in Signatures =>
          withdrawal[v].signature # withdrawal'[w].signature
    BY DEF WithdrawalInv, SignaturesDiffer, SignatureUnused
  <2> QED BY <2>1 DEF WithdrawalInv, SignaturesDiffer
<1> QED BY <1>1, <1>2 DEF WithdrawalInv


-----------------------------------------------------------------------------
(* Every step of the flow runs one statement of the database, or none.     *)

\* The rows that the route and the tick name are rows of the table.
LEMMA NamedRows ==
  ASSUME WithdrawalInv
  PROVE  /\ \A r \in Submits : submit[r].pc # "idle" =>
              submit[r].row \in Withdrawals /\ submit[r].message \in Signatures
         /\ worker.pc \in {"claimed", "calling", "answered", "review"} => worker.row \in Withdrawals
         /\ worker.pc = "answered" => worker.signature \in Signatures
         /\ worker.rows # <<>> => Head(worker.rows) \in Row /\ Tail(worker.rows) \in Seq(Row)
<1>1. worker.rows \in Seq(Row)
  BY DEF WithdrawalInv, WithdrawalTypeOK, Tick
<1>2. worker.rows # <<>> => Head(worker.rows) \in Row /\ Tail(worker.rows) \in Seq(Row)
  BY <1>1
<1> QED BY <1>2 DEF WithdrawalInv, RunOK, ClaimOK

\* A step of a consumer.
LEMMA ConsumerStatement ==
  ASSUME WithdrawalInv, ConsumerSteps
  PROVE  [Next]_vars
<1>1. CASE Fund
  BY <1>1 DEF Fund, Next
<1>2. CASE \E a \in Accounts, wl \in Wallets : putConsumerWalletBinding(a, wl)
  BY <1>2 DEF putConsumerWalletBinding, databaseVars, vars
<1>3. CASE \E w \in Withdrawals, a \in Accounts, n \in Transfers : RequestWithdrawal(w, a, n)
  BY <1>3 DEF RequestWithdrawal, Next, WithdrawalStep
<1>4. CASE \E w \in Withdrawals, m \in Signatures : PrepareWithdrawal(w, m)
  BY <1>4 DEF PrepareWithdrawal, Next, WithdrawalStep
<1>5. CASE \E w \in Withdrawals : PreparationExpires(w) \/ CancelWithdrawal(w)
  BY <1>5 DEF PreparationExpires, CancelWithdrawal, Next, WithdrawalStep
<1> QED BY <1>1, <1>2, <1>3, <1>4, <1>5 DEF ConsumerSteps

\* A step of the submit route.
LEMMA SubmitStatement ==
  ASSUME WithdrawalInv, NEW r \in Submits, SubmitSteps(r)
  PROVE  [Next]_vars
<1>1. CASE SubmitStores(r)
  <2>1. submit[r].row \in Withdrawals /\ submit[r].message \in Signatures
    BY <1>1, NamedRows DEF SubmitStores
  <2> QED BY <1>1, <2>1 DEF SubmitStores, Next, WithdrawalStep
<1>2. CASE ~SubmitStores(r)
  BY <1>2 DEF SubmitSteps, SubmitReads, SubmitBroadcasts, SubmitRefused, SubmitDrifts, SubmitConflicts,
     DriftReadsCircuit, DriftHaltsCircuit, SubmitLost, databaseVars, vars
<1> QED BY <1>1, <1>2

\* A step of the worker.
LEMMA WorkerStatement ==
  ASSUME WithdrawalInv, WorkerSteps
  PROVE  [Next]_vars
<1>1. CASE RowFinalized \/ RowReviewed
  <2>1. Head(worker.rows).row \in Withdrawals
    BY <1>1, NamedRows DEF RowFinalized, RowReviewed, Row
  <2>2. FinalizeWithdrawal(Head(worker.rows).row, "finalized")
          \/ FinalizeWithdrawal(Head(worker.rows).row, "failed_review")
    BY <1>1 DEF RowFinalized, RowReviewed
  <2> QED BY <2>1, <2>2 DEF Next, WithdrawalStep
<1>2. CASE \E w \in Withdrawals : ClaimQueued(w)
  BY <1>2 DEF ClaimQueued, Next, WithdrawalStep
<1>3. CASE RecordDispatch
  <2>1. worker.row \in Withdrawals /\ worker.signature \in Signatures
    BY <1>3, NamedRows DEF RecordDispatch
  <2> QED BY <1>3, <2>1 DEF RecordDispatch, Next, WithdrawalStep
<1>4. CASE ReviewClaimed
  <2>1. worker.row \in Withdrawals
    BY <1>4, NamedRows DEF ReviewClaimed
  <2> QED BY <1>4, <2>1 DEF ReviewClaimed, Next, WithdrawalStep
<1>5. CASE tick \/ RowPending \/ ReviewHaltsCircuit \/ TickEnds \/ CallDispatch \/ DispatchFails
  BY <1>5 DEF tick, RowPending, ReviewHaltsCircuit, TickEnds, CallDispatch, DispatchFails,
     databaseVars, vars
<1> QED BY <1>1, <1>2, <1>3, <1>4, <1>5 DEF WorkerSteps

\* Any step of the flow is a step of the database, which stays typed.
LEMMA FlowStatement ==
  ASSUME WithdrawalInv, [WithdrawalNext]_withdrawalVars
  PROVE  [Next]_vars /\ TypeInv'
<1>1. [Next]_vars
  <2>1. CASE ConsumerSteps
    BY <2>1, ConsumerStatement
  <2>2. CASE \E r \in Submits : SubmitSteps(r)
    BY <2>2, SubmitStatement
  <2>3. CASE WorkerSteps
    BY <2>3, WorkerStatement
  <2>4. CASE TickFails
    BY <2>4 DEF TickFails, databaseVars, vars
  <2>5. CASE \E w \in Withdrawals, sig \in Signatures : DispatchPays(w, sig)
    BY <2>5 DEF DispatchPays, databaseVars, vars
  <2>6. CASE \E m \in Signatures, outcome \in {"landed", "failed"} : TransactionLands(m, outcome)
    BY <2>6 DEF TransactionLands, databaseVars, vars
  <2>7. CASE UNCHANGED withdrawalVars
    BY <2>7 DEF withdrawalVars, databaseVars, vars
  <2> QED BY <2>1, <2>2, <2>3, <2>4, <2>5, <2>6, <2>7 DEF WithdrawalNext
<1> QED BY <1>1, StepTyped DEF WithdrawalInv


-----------------------------------------------------------------------------
(* The consumer's steps.                                                   *)

\* The tick stands where it stood when neither it nor its row has moved.
LEMMA TickKept ==
  ASSUME WithdrawalInv, UNCHANGED worker,
         worker.pc \in {"claimed", "calling", "answered", "review"} =>
           withdrawal'[worker.row].status = withdrawal[worker.row].status
  PROVE  ClaimOK'
BY DEF WithdrawalInv, ClaimOK

\* No new review, no failure, and a halt that is kept.
LEMMA ReviewsKept ==
  ASSUME WithdrawalInv, HaltKept, failures' = 0 => failures = 0,
         worker.pc = "halting" => worker'.pc = "halting",
         \A w \in Withdrawals :
           withdrawal'[w].status = "failed_review" => withdrawal[w].status = "failed_review"
  PROVE  ReviewHalts'
BY DEF WithdrawalInv, ReviewHalts, HaltKept

\* The queue of submitted rows, when another row moves.
LEMMA QueueKept ==
  ASSUME QueueOK, queue \in Seq(Withdrawals), UNCHANGED queue, NEW w \in Withdrawals,
         \A v \in Withdrawals : v # w => withdrawal'[v] = withdrawal[v],
         withdrawal[w].status # "submitted", withdrawal'[w].status # "submitted"
  PROVE  QueueOK'
<1>1. \A i \in 1..Len(queue) : queue[i] \in Withdrawals /\ queue[i] # w
  BY DEF QueueOK
<1>2. \A i \in 1..Len(queue) : withdrawal'[queue[i]].status = "submitted"
  BY <1>1 DEF QueueOK
<1> QED BY <1>1, <1>2 DEF QueueOK

\* A step that leaves the rows, the route, the tick and the circuit alone.
LEMMA OutsideStep ==
  ASSUME WithdrawalInv, TypeInv', WithdrawalTypeOK', LandedKept,
         \A w \in Withdrawals : service'[w] = service[w] \/ withdrawal[w].status = "dispatching",
         UNCHANGED <<withdrawal, destination, queue, submit, broadcasts, circuit, worker, failures>>
  PROVE  WithdrawalInv'
<1>1. HaltKept /\ SignaturesKept /\ WithdrawalTypeOK /\ DriftHalts /\ \A r \in Submits : RunOK(r)
  BY DEF HaltKept, SignaturesKept, WithdrawalInv
<1>2. \A r \in Submits : RunOK(r)'
  BY <1>1, RunsKept
<1>3. DriftHalts' /\ ClaimOK' /\ ReviewHalts'
  BY <1>1, DriftKept, TickKept, ReviewsKept
<1> QED BY <1>2, <1>3, RowsStay

\* Funding an account or binding a wallet.
LEMMA FundOrBindStep ==
  ASSUME WithdrawalInv, TypeInv',
         Fund \/ \E a \in Accounts, wl \in Wallets : putConsumerWalletBinding(a, wl)
  PROVE  WithdrawalInv'
<1>1. CASE Fund
  <2>1. UNCHANGED <<circuit, flowVars, withdrawal>>
    BY <1>1 DEF Fund, DepositStep, createConsumerDepositIntent, DepositIntentExpires,
       confirmConsumerDeposit, createConsumerBalanceAdjustment
  <2>2. WithdrawalTypeOK' /\ LandedKept
    BY <2>1 DEF flowVars, WithdrawalInv, WithdrawalTypeOK, LandedKept
  <2> QED BY <2>1, <2>2, OutsideStep DEF flowVars
<1>2. ASSUME NEW a \in Accounts, NEW wl \in Wallets, putConsumerWalletBinding(a, wl)
      PROVE  WithdrawalInv'
  <2>1. /\ UNCHANGED <<circuit, withdrawal, destination, queue, submit, worker, service, chain,
                       broadcasts, failures>>
        /\ bindings < MaxBindings /\ bindings' = bindings + 1
        /\ wallet' = [wallet EXCEPT ![a] = wl]
    BY <1>2 DEF putConsumerWalletBinding, databaseVars
  <2>2. WithdrawalTypeOK
    BY DEF WithdrawalInv
  <2>3. wallet' \in [Accounts -> Wallets \cup {NoWallet}] /\ bindings' \in 0..MaxBindings
    BY <2>1, <2>2, FlowCountsAssumption DEF WithdrawalTypeOK
  <2>4. WithdrawalTypeOK' /\ LandedKept
    BY <2>1, <2>2, <2>3 DEF WithdrawalTypeOK, LandedKept
  <2> QED BY <2>1, <2>4, OutsideStep
<1> QED BY <1>1, <1>2

\* A new row: it is queued, and nothing has been said of it.
LEMMA RequestStep ==
  ASSUME WithdrawalInv, TypeInv', NEW w \in Withdrawals, NEW a \in Accounts, NEW n \in Transfers,
         RequestWithdrawal(w, a, n)
  PROVE  WithdrawalInv'
<1>1. /\ UNCHANGED <<circuit, wallet, queue, submit, worker, service, chain, broadcasts, failures, bindings>>
      /\ destination' = [destination EXCEPT ![w] = wallet[a]]
      /\ withdrawal[w].status = "none"
      /\ withdrawal' = [withdrawal EXCEPT ![w] =
           [status |-> "queued", account |-> a, amount |-> n, fresh |-> FALSE,
            message |-> NoSignature, signature |-> NoSignature]]
  BY DEF RequestWithdrawal, createConsumerWithdrawal
<1>2. WithdrawalTypeOK /\ withdrawal \in [Withdrawals -> Withdrawal] /\ RowOK(w)
  BY DEF WithdrawalInv, TypeInv, TypeOK
<1>3. /\ withdrawal'[w].status = "queued"
      /\ withdrawal'[w].message = NoSignature /\ withdrawal'[w].signature = NoSignature
      /\ \A v \in Withdrawals : v # w => withdrawal'[v] = withdrawal[v] /\ destination'[v] = destination[v]
  BY <1>1, <1>2 DEF WithdrawalTypeOK
<1>4. WithdrawalTypeOK'
  <2>1. destination' \in [Withdrawals -> Wallets \cup {NoWallet}]
    BY <1>1, <1>2 DEF WithdrawalTypeOK
  <2> QED BY <1>1, <1>2, <2>1 DEF WithdrawalTypeOK
<1>5. RowOK(w)' /\ Paid(w)'
  BY <1>1, <1>2, <1>3 DEF RowOK, Paid
<1>6. QueueOK'
  BY <1>1, <1>2, <1>3, QueueKept DEF WithdrawalInv, WithdrawalTypeOK
<1>7. ClaimOK' /\ ReviewHalts'
  <2>1. worker.pc \in {"claimed", "calling", "answered", "review"} => worker.row # w /\ worker.row \in Withdrawals
    BY <1>1 DEF WithdrawalInv, ClaimOK
  <2> QED BY <1>1, <1>3, <2>1, TickKept, ReviewsKept DEF HaltKept
<1>8. DriftHalts' /\ \A r \in Submits : RunOK(r)'
  <2>1. SignaturesKept /\ HaltKept /\ withdrawal[w].message \notin Signatures
    BY <1>1, <1>2, <1>3, RowsAssumption DEF SignaturesKept, HaltKept, RowOK
  <2>2. \A v \in Withdrawals : withdrawal[v].message \in Signatures => withdrawal'[v].message \in Signatures
    BY <1>3, <2>1
  <2>3. \A r \in Submits : RunOK(r)
    BY DEF WithdrawalInv
  <2>4. \A r \in Submits : RunOK(r)'
    BY <1>1, <2>2, <2>3, RunsKept
  <2> QED BY <1>1, <1>2, <2>1, <2>4, DriftKept DEF WithdrawalInv
<1>9. LandedKept /\ withdrawal'[w].signature \notin Signatures
  BY <1>1, <1>3, RowsAssumption DEF LandedKept
<1> QED BY <1>1, <1>3, <1>4, <1>5, <1>6, <1>7, <1>8, <1>9, OneRowMoves


\* A row that waits to be sent is prepared, expires, is cancelled or claimed.
LEMMA WaitingRowMoves ==
  ASSUME WithdrawalInv, TypeInv', WithdrawalTypeOK', NEW w \in Withdrawals,
         \A v \in Withdrawals : v # w => withdrawal'[v] = withdrawal[v],
         withdrawal[w].status \in {"queued", "prepared"},
         withdrawal'[w].status \in {"prepared", "cancelled", "dispatching"},
         withdrawal'[w].signature = withdrawal[w].signature,
         withdrawal'[w].status = "prepared" => withdrawal'[w].message \in Signatures,
         withdrawal'[w].status # "prepared" => withdrawal'[w].message = withdrawal[w].message,
         withdrawal'[w].status = "dispatching" => withdrawal[w].status = "queued",
         UNCHANGED <<circuit, destination, queue, submit, service, broadcasts, failures>>,
         worker.pc = "halting" => worker'.pc = "halting", LandedKept, ClaimOK'
  PROVE  WithdrawalInv'
<1>1. RowOK(w) /\ WithdrawalTypeOK /\ DriftHalts /\ QueueOK /\ \A r \in Submits : RunOK(r)
  BY DEF WithdrawalInv
<1>2. RowOK(w)' /\ Paid(w)'
  BY <1>1, RowsAssumption DEF RowOK, Paid
<1>3. QueueOK'
  BY <1>1, QueueKept DEF WithdrawalTypeOK
<1>4. HaltKept /\ SignaturesKept
  BY DEF HaltKept, SignaturesKept
<1>5. ReviewHalts' /\ DriftHalts'
  BY <1>1, <1>4, ReviewsKept, DriftKept
<1>6. \A v \in Withdrawals : withdrawal[v].message \in Signatures => withdrawal'[v].message \in Signatures
  BY <1>1 DEF RowOK
<1>7. \A r \in Submits : RunOK(r)'
  BY <1>1, <1>6, RunsKept
<1> QED BY <1>2, <1>3, <1>5, <1>7, OneRowMoves

\* The treasury signs a transaction for a row.
LEMMA PrepareStep ==
  ASSUME WithdrawalInv, TypeInv', NEW w \in Withdrawals, NEW m \in Signatures, PrepareWithdrawal(w, m)
  PROVE  WithdrawalInv'
<1>1. /\ UNCHANGED <<circuit, wallet, destination, queue, submit, worker, service, broadcasts, failures, bindings>>
      /\ chain[m].state = "unused" \/ Content(m) = Pays(w)
      /\ chain' = [chain EXCEPT ![m] =
           [state |-> IF chain[m].state = "unused" THEN "signed" ELSE chain[m].state,
            to |-> destination[w], amount |-> withdrawal[w].amount]]
      /\ withdrawal[w].status \in {"queued", "prepared"}
      /\ withdrawal' = [withdrawal EXCEPT ![w].status = "prepared", ![w].message = m, ![w].fresh = TRUE]
  BY DEF PrepareWithdrawal, prepareConsumerWithdrawal, Bound, Pays, NewSignature
<1>2. WithdrawalTypeOK /\ withdrawal \in [Withdrawals -> Withdrawal] /\ withdrawal[w].amount \in Nat
  BY DEF WithdrawalInv, TypeInv, TypeOK, Withdrawal
<1>3. /\ withdrawal'[w].status = "prepared" /\ withdrawal'[w].message = m
      /\ withdrawal'[w].signature = withdrawal[w].signature
      /\ \A v \in Withdrawals : v # w => withdrawal'[v] = withdrawal[v]
  BY <1>1, <1>2 DEF Withdrawal
<1>4. /\ chain \in [Signatures -> Transaction] /\ chain[m] \in Transaction
      /\ destination[w] \in Wallets \cup {NoWallet}
  BY <1>2 DEF WithdrawalTypeOK
<1>5. chain' \in [Signatures -> Transaction]
  <2> DEFINE t == [state |-> IF chain[m].state = "unused" THEN "signed" ELSE chain[m].state,
                   to |-> destination[w], amount |-> withdrawal[w].amount]
  <2>1. t \in Transaction
    BY <1>2, <1>4 DEF Transaction
  <2> QED BY <1>1, <1>4, <2>1
<1>6. LandedKept
  <2> SUFFICES ASSUME NEW x \in Signatures, chain[x].state = "landed"
               PROVE  chain'[x] = chain[x]
    BY DEF LandedKept
  <2>1. CASE x # m
    BY <1>1, <1>4, <2>1
  <2>2. CASE x = m
    <3>1. chain[m].to = destination[w] /\ chain[m].amount = withdrawal[w].amount
      BY <1>1, <2>2 DEF Content, Pays
    <3>2. chain'[m] = [state |-> chain[m].state, to |-> chain[m].to, amount |-> chain[m].amount]
      BY <1>1, <1>4, <2>2, <3>1
    <3> QED BY <1>4, <2>2, <3>2 DEF Transaction
  <2> QED BY <2>1, <2>2
<1>7. WithdrawalTypeOK'
  BY <1>1, <1>2, <1>5 DEF WithdrawalTypeOK
<1>8. ClaimOK'
  <2>1. worker.pc \in {"claimed", "calling", "answered", "review"} => worker.row # w /\ worker.row \in Withdrawals
    BY <1>1 DEF WithdrawalInv, ClaimOK
  <2> QED BY <1>1, <1>3, <2>1, TickKept
<1> QED BY <1>1, <1>3, <1>6, <1>7, <1>8, WaitingRowMoves

\* A prepared transaction expires, or the consumer cancels the row.
LEMMA ExpireOrCancelStep ==
  ASSUME WithdrawalInv, TypeInv', NEW w \in Withdrawals, PreparationExpires(w) \/ CancelWithdrawal(w)
  PROVE  WithdrawalInv'
<1>1. withdrawal \in [Withdrawals -> Withdrawal] /\ WithdrawalTypeOK /\ RowOK(w)
  BY DEF WithdrawalInv, TypeInv, TypeOK
<1>2. UNCHANGED <<circuit, flowVars>>
  BY DEF PreparationExpires, CancelWithdrawal
<1>3. \/ /\ withdrawal[w].status = "prepared"
         /\ withdrawal' = [withdrawal EXCEPT ![w].fresh = FALSE]
      \/ /\ withdrawal[w].status \in {"queued", "prepared"}
         /\ withdrawal' = [withdrawal EXCEPT ![w].status = "cancelled"]
  BY DEF PreparationExpires, CancelWithdrawal, PreparedWithdrawalExpires, cancelConsumerWithdrawal
<1>4. /\ withdrawal[w].status \in {"queued", "prepared"}
      /\ \/ withdrawal'[w].status = "prepared" /\ withdrawal[w].status = "prepared"
         \/ withdrawal'[w].status = "cancelled"
      /\ withdrawal'[w].signature = withdrawal[w].signature
      /\ withdrawal'[w].message = withdrawal[w].message
      /\ \A v \in Withdrawals : v # w => withdrawal'[v] = withdrawal[v]
  BY <1>1, <1>3 DEF Withdrawal
<1>5. WithdrawalTypeOK' /\ LandedKept
  BY <1>1, <1>2 DEF flowVars, WithdrawalTypeOK, LandedKept
<1>6. ClaimOK'
  <2>1. worker.pc \in {"claimed", "calling", "answered", "review"} => worker.row # w /\ worker.row \in Withdrawals
    BY <1>4 DEF WithdrawalInv, ClaimOK
  <2> QED BY <1>2, <1>4, <2>1, TickKept DEF flowVars
<1>7. withdrawal'[w].status = "prepared" => withdrawal'[w].message \in Signatures
  BY <1>1, <1>4 DEF RowOK
<1> QED BY <1>2, <1>4, <1>5, <1>6, <1>7, WaitingRowMoves DEF flowVars


-----------------------------------------------------------------------------
(* The submit route.                                                       *)

\* The broadcasts stay accounted for when one run moves: it goes on with its
\* transaction, or the transaction is recorded, or trading is halted.
LEMMA RouteDrift ==
  ASSUME WithdrawalInv, NEW r \in Submits, SignaturesKept, HaltKept,
         \A q \in Submits : q # r => submit'[q] = submit[q],
         submit[r].pc \in {"sent", "drift", "merging", "lost"} =>
           \/ /\ submit'[r].message = submit[r].message
              /\ submit'[r].pc \in {"sent", "drift", "merging", "lost"}
           \/ \E w \in Withdrawals : withdrawal'[w].signature = submit[r].message
           \/ circuit'.status = "halted",
         \A b \in broadcasts' : b \in broadcasts \/ (b[2] = submit'[r].message /\ submit'[r].pc = "sent")
  PROVE  DriftHalts'
<1> SUFFICES ASSUME NEW b \in broadcasts'
             PROVE  (\/ Recorded(b[2])
                     \/ InFlight(b[2])
                     \/ circuit.status = "halted"
                     \/ \E q \in Submits : submit[q].message = b[2] /\ submit[q].pc = "lost")'
  BY DEF DriftHalts
<1>1. CASE b[2] = submit'[r].message /\ submit'[r].pc = "sent"
  BY <1>1 DEF InFlight
<1>2. CASE b \in broadcasts
  <2>1. b[2] \in Signatures
    BY <1>2 DEF WithdrawalInv, WithdrawalTypeOK
  <2>2. \/ Recorded(b[2]) \/ circuit.status = "halted"
        \/ \E q \in Submits : submit[q].message = b[2] /\ submit[q].pc \in {"sent", "drift", "merging", "lost"}
    BY <1>2 DEF WithdrawalInv, DriftHalts, InFlight
  <2>3. CASE Recorded(b[2]) \/ circuit.status = "halted"
    BY <2>1, <2>3 DEF Recorded, SignaturesKept, HaltKept
  <2>4. ASSUME NEW q \in Submits, submit[q].message = b[2],
               submit[q].pc \in {"sent", "drift", "merging", "lost"}, q # r
        PROVE  InFlight(b[2])' \/ \E p \in Submits : submit'[p].message = b[2] /\ submit'[p].pc = "lost"
    BY <2>4 DEF InFlight
  <2>5. CASE submit[r].message = b[2] /\ submit[r].pc \in {"sent", "drift", "merging", "lost"}
    BY <2>5 DEF InFlight, Recorded
  <2> QED BY <2>2, <2>3, <2>4, <2>5
<1> QED BY <1>1, <1>2

\* The route moves without storing anything.
LEMMA RouteKeeps ==
  ASSUME WithdrawalInv, TypeInv', WithdrawalTypeOK', NEW r \in Submits, LandedKept, HaltKept,
         UNCHANGED <<withdrawal, destination, queue, worker, service, failures>>,
         \A q \in Submits : q # r => submit'[q] = submit[q], RunOK(r)',
         \A b \in broadcasts' : b \in broadcasts \/ b = <<submit[r].row, submit[r].message>>,
         submit[r].pc # "idle" \/ UNCHANGED broadcasts, DriftHalts'
  PROVE  WithdrawalInv'
<1>1. \A q \in Submits : RunOK(q)'
  BY DEF WithdrawalInv, RunOK
<1>2. ClaimOK' /\ ReviewHalts'
  BY TickKept, ReviewsKept
<1>3. \A w \in Withdrawals, m \in Signatures :
        <<w, m>> \in broadcasts' => <<w, m>> \in broadcasts \/ withdrawal[w].message \in Signatures
  BY DEF WithdrawalInv, RunOK
<1> QED BY <1>1, <1>2, <1>3, RowsStay

\* A run is typed after its place is changed.
LEMMA RunTyped ==
  ASSUME WithdrawalTypeOK, NEW r \in Submits,
         NEW pc \in {"idle", "read", "sent", "drift", "merging", "done", "lost"}, GotoSubmit(r, pc)
  PROVE  /\ submit' \in [Submits -> Submit]
         /\ submit'[r].pc = pc /\ submit'[r].row = submit[r].row /\ submit'[r].message = submit[r].message
         /\ \A q \in Submits : q # r => submit'[q] = submit[q]
<1>1. submit \in [Submits -> Submit] /\ submit' = [submit EXCEPT ![r].pc = pc]
  BY DEF WithdrawalTypeOK, GotoSubmit
<1>2. [submit[r] EXCEPT !.pc = pc] \in Submit
  BY <1>1 DEF Submit
<1> QED BY <1>1, <1>2 DEF Submit

\* A run that gives up or finds its row changed.
LEMMA RouteGoesOn ==
  ASSUME WithdrawalInv, TypeInv', NEW r \in Submits,
         SubmitRefused(r) \/ SubmitDrifts(r) \/ SubmitConflicts(r) \/ SubmitLost(r)
  PROVE  WithdrawalInv'
<1>1. UNCHANGED <<circuit, wallet, withdrawal, destination, queue, worker, service, chain,
                  broadcasts, failures, bindings>>
  BY DEF SubmitRefused, SubmitDrifts, SubmitConflicts, SubmitLost, databaseVars
<1>2. PICK pc \in {"done", "drift", "lost"} :
        /\ GotoSubmit(r, pc) /\ submit[r].pc \in {"read", "sent", "drift", "merging"}
        /\ pc = "done" => submit[r].pc = "read" \/ ~SignatureUnused(submit[r].message)
  BY DEF SubmitRefused, SubmitDrifts, SubmitConflicts, SubmitLost
<1>3. WithdrawalTypeOK /\ RunOK(r)
  BY DEF WithdrawalInv
<1>4. /\ submit' \in [Submits -> Submit]
      /\ submit'[r].pc = pc /\ submit'[r].row = submit[r].row /\ submit'[r].message = submit[r].message
      /\ \A q \in Submits : q # r => submit'[q] = submit[q]
  BY <1>2, <1>3, RunTyped
<1>5. WithdrawalTypeOK' /\ LandedKept /\ HaltKept /\ SignaturesKept
  BY <1>1, <1>3, <1>4 DEF WithdrawalTypeOK, LandedKept, HaltKept, SignaturesKept
<1>6. RunOK(r)'
  BY <1>1, <1>2, <1>3, <1>4 DEF RunOK
<1>7. pc = "done" /\ submit[r].pc # "read" =>
        \E w \in Withdrawals : withdrawal'[w].signature = submit[r].message
  BY <1>1, <1>2 DEF SignatureUnused
<1>8. DriftHalts'
  BY <1>1, <1>2, <1>4, <1>5, <1>7, RouteDrift
<1> QED BY <1>1, <1>4, <1>5, <1>6, <1>8, RouteKeeps

\* The route reads the row.
LEMMA ReadStep ==
  ASSUME WithdrawalInv, TypeInv', NEW r \in Submits, NEW w \in Withdrawals, SubmitReads(r, w)
  PROVE  WithdrawalInv'
<1>1. /\ UNCHANGED <<circuit, wallet, withdrawal, destination, queue, worker, service, chain,
                     broadcasts, failures, bindings>>
      /\ submit[r].pc = "idle" /\ withdrawal[w].status = "prepared"
      /\ submit' = [submit EXCEPT ![r] =
           [submit[r] EXCEPT !.pc = "read", !.row = w, !.message = withdrawal[w].message]]
  BY DEF SubmitReads, databaseVars
<1>2. WithdrawalTypeOK /\ withdrawal[w].message \in Signatures /\ submit \in [Submits -> Submit]
  BY <1>1 DEF WithdrawalInv, RowOK, WithdrawalTypeOK
<1>3. w \in 0..NWithdrawals
  BY CountsAssumption DEF Withdrawals
<1>4. [submit[r] EXCEPT !.pc = "read", !.row = w, !.message = withdrawal[w].message] \in Submit
  BY <1>2, <1>3 DEF Submit
<1>5. /\ submit' \in [Submits -> Submit]
      /\ submit'[r].pc = "read" /\ submit'[r].row = w /\ submit'[r].message = withdrawal[w].message
      /\ \A q \in Submits : q # r => submit'[q] = submit[q]
  BY <1>1, <1>2, <1>4 DEF Submit
<1>6. WithdrawalTypeOK' /\ LandedKept /\ HaltKept /\ SignaturesKept
  BY <1>1, <1>2, <1>5 DEF WithdrawalTypeOK, LandedKept, HaltKept, SignaturesKept
<1>7. RunOK(r)'
  BY <1>1, <1>2, <1>5 DEF RunOK
<1>8. DriftHalts'
  BY <1>1, <1>5, <1>6, RouteDrift
<1> QED BY <1>1, <1>5, <1>6, <1>7, <1>8, RouteKeeps


\* The route broadcasts the transaction.
LEMMA BroadcastStep ==
  ASSUME WithdrawalInv, TypeInv', NEW r \in Submits, SubmitBroadcasts(r)
  PROVE  WithdrawalInv'
<1> DEFINE m == submit[r].message
<1>1. /\ UNCHANGED <<circuit, wallet, withdrawal, destination, queue, worker, service, failures, bindings>>
      /\ submit[r].pc = "read" /\ GotoSubmit(r, "sent")
      /\ chain' = [chain EXCEPT ![m].state = IF chain[m].state = "signed" THEN "sent" ELSE chain[m].state]
      /\ broadcasts' = broadcasts \cup {<<submit[r].row, m>>}
  BY DEF SubmitBroadcasts, databaseVars
<1>2. WithdrawalTypeOK /\ RunOK(r) /\ submit[r].row \in Withdrawals /\ m \in Signatures
  BY <1>1 DEF WithdrawalInv, RunOK
<1> HIDE DEF m
<1>3. /\ submit' \in [Submits -> Submit]
      /\ submit'[r].pc = "sent" /\ submit'[r].row = submit[r].row /\ submit'[r].message = submit[r].message
      /\ \A q \in Submits : q # r => submit'[q] = submit[q]
  BY <1>1, <1>2, RunTyped
<1>4. chain \in [Signatures -> Transaction] /\ chain[m] \in Transaction
  BY <1>2 DEF WithdrawalTypeOK
<1>5. chain' \in [Signatures -> Transaction]
  <2>1. [chain[m] EXCEPT !.state = IF chain[m].state = "signed" THEN "sent" ELSE chain[m].state] \in Transaction
    BY <1>4 DEF Transaction
  <2> QED BY <1>1, <1>2, <1>4, <2>1
<1>6. LandedKept
  BY <1>1, <1>2, <1>4 DEF LandedKept, Transaction
<1>7. broadcasts' \subseteq Withdrawals \X Signatures
  BY <1>1, <1>2 DEF WithdrawalTypeOK
<1>8. WithdrawalTypeOK'
  BY <1>1, <1>2, <1>3, <1>5, <1>7 DEF WithdrawalTypeOK
<1>9. HaltKept /\ SignaturesKept /\ RunOK(r)'
  BY <1>1, <1>2, <1>3 DEF HaltKept, SignaturesKept, RunOK
<1>10. DriftHalts'
  BY <1>1, <1>3, <1>9, RouteDrift DEF m
<1> QED BY <1>1, <1>3, <1>6, <1>8, <1>9, <1>10, RouteKeeps DEF m

\* The route reads the circuit, and writes back what it read with its reason.
LEMMA DriftStep ==
  ASSUME WithdrawalInv, TypeInv', NEW r \in Submits, DriftReadsCircuit(r) \/ DriftHaltsCircuit(r)
  PROVE  WithdrawalInv'
<1>1. /\ UNCHANGED <<wallet, withdrawal, destination, queue, worker, service, chain, broadcasts,
                     failures, bindings>>
      /\ submit[r].pc # "idle"
  BY DEF DriftReadsCircuit, DriftHaltsCircuit, databaseVars
<1>2. /\ WithdrawalTypeOK /\ RunOK(r) /\ submit \in [Submits -> Submit] /\ submit[r] \in Submit
      /\ circuit \in CircuitState /\ submit[r].circuit \in CircuitState
  BY DEF WithdrawalInv, WithdrawalTypeOK, Submit
<1>3. CASE DriftReadsCircuit(r)
  <2>1. submit' = [submit EXCEPT ![r].pc = "merging", ![r].circuit = circuit] /\ UNCHANGED circuit
    BY <1>3 DEF DriftReadsCircuit
  <2>2. [submit[r] EXCEPT !.pc = "merging", !.circuit = circuit] \in Submit
    BY <1>2 DEF Submit
  <2>3. /\ submit' \in [Submits -> Submit]
        /\ submit'[r].pc = "merging" /\ submit'[r].row = submit[r].row /\ submit'[r].message = submit[r].message
        /\ \A q \in Submits : q # r => submit'[q] = submit[q]
    BY <1>2, <2>1, <2>2 DEF Submit
  <2>4. WithdrawalTypeOK' /\ LandedKept /\ HaltKept /\ SignaturesKept /\ RunOK(r)'
    BY <1>1, <1>2, <2>1, <2>3 DEF WithdrawalTypeOK, LandedKept, HaltKept, SignaturesKept, RunOK
  <2>5. DriftHalts'
    BY <1>1, <2>3, <2>4, RouteDrift
  <2> QED BY <1>1, <2>3, <2>4, <2>5, RouteKeeps
<1>4. CASE DriftHaltsCircuit(r)
  <2>1. /\ circuit' = haltedState(submit[r].circuit, {"reconciliation_drift"})
        /\ GotoSubmit(r, "done")
    BY <1>4 DEF DriftHaltsCircuit, putCircuit
  <2>2. circuit' \in CircuitState /\ circuit'.status = "halted"
    BY <1>2, <2>1 DEF haltedState, CircuitState, Reasons
  <2>3. /\ submit' \in [Submits -> Submit]
        /\ submit'[r].pc = "done" /\ submit'[r].row = submit[r].row /\ submit'[r].message = submit[r].message
        /\ \A q \in Submits : q # r => submit'[q] = submit[q]
    BY <1>2, <2>1, RunTyped
  <2>4. WithdrawalTypeOK' /\ LandedKept /\ HaltKept /\ SignaturesKept /\ RunOK(r)'
    BY <1>1, <1>2, <2>2, <2>3 DEF WithdrawalTypeOK, LandedKept, HaltKept, SignaturesKept, RunOK
  <2>5. DriftHalts'
    BY <1>1, <2>2, <2>3, <2>4, RouteDrift
  <2> QED BY <1>1, <2>3, <2>4, <2>5, RouteKeeps
<1> QED BY <1>3, <1>4

\* A row is submitted: it joins the queue and takes a signature of its own.
LEMMA QueueGrows ==
  ASSUME QueueOK, queue \in Seq(Withdrawals), NEW w \in Withdrawals, queue' = Append(queue, w),
         \A v \in Withdrawals : v # w => withdrawal'[v] = withdrawal[v],
         withdrawal[w].status # "submitted", withdrawal'[w].status = "submitted"
  PROVE  QueueOK' /\ queue' \in Seq(Withdrawals)
<1>1. /\ queue' \in Seq(Withdrawals) /\ Len(queue') = Len(queue) + 1 /\ Len(queue) \in Nat
      /\ \A i \in 1..Len(queue) : queue'[i] = queue[i] /\ queue[i] \in Withdrawals
      /\ queue'[Len(queue) + 1] = w
  OBVIOUS
<1>2. \A i \in 1..Len(queue) : queue[i] # w
  BY DEF QueueOK
<1>3. \A i \in 1..Len(queue') : i \in 1..Len(queue) \/ i = Len(queue) + 1
  BY <1>1
<1>4. \A i \in 1..Len(queue') : withdrawal'[queue'[i]].status = "submitted"
  BY <1>1, <1>2, <1>3 DEF QueueOK
<1>5. \A i, j \in 1..Len(queue') : queue'[i] = queue'[j] => i = j
  BY <1>1, <1>2, <1>3 DEF QueueOK
<1>6. ASSUME NEW v \in Withdrawals, withdrawal'[v].status = "submitted"
      PROVE  \E i \in 1..Len(queue') : queue'[i] = v
  <2>1. CASE v = w
    <3>1. Len(queue) + 1 \in 1..Len(queue')
      BY <1>1
    <3> QED BY <1>1, <2>1, <3>1
  <2>2. CASE v # w
    <3>1. PICK i \in 1..Len(queue) : queue[i] = v
      BY <1>6, <2>2 DEF QueueOK
    <3>2. i \in 1..Len(queue')
      BY <1>1
    <3> QED BY <1>1, <3>1, <3>2
  <2> QED BY <2>1, <2>2
<1> QED BY <1>1, <1>4, <1>5, <1>6 DEF QueueOK

\* The route stores the signature it has broadcast.
LEMMA StoreStep ==
  ASSUME WithdrawalInv, TypeInv', NEW r \in Submits, SubmitStores(r)
  PROVE  WithdrawalInv'
<1>0. PICK w \in Withdrawals, m \in Signatures : w = submit[r].row /\ m = submit[r].message
  BY NamedRows DEF SubmitStores
<1>1. /\ UNCHANGED <<circuit, wallet, destination, worker, service, chain, broadcasts, failures, bindings>>
      /\ submit[r].pc = "sent" /\ GotoSubmit(r, "done") /\ queue' = Append(queue, w)
      /\ withdrawal[w].status = "prepared" /\ withdrawal[w].message = m /\ SignatureUnused(m)
      /\ withdrawal' = [withdrawal EXCEPT ![w].status = "submitted", ![w].signature = m]
  BY <1>0 DEF SubmitStores, submitPreparedConsumerWithdrawal
<1>2. /\ WithdrawalTypeOK
      /\ withdrawal \in [Withdrawals -> Withdrawal] /\ QueueOK /\ queue \in Seq(Withdrawals)
  BY DEF WithdrawalInv, TypeInv, TypeOK, WithdrawalTypeOK
<1>3. RowOK(w)
  BY DEF WithdrawalInv
<1>4. /\ submit' \in [Submits -> Submit]
      /\ submit'[r].pc = "done" /\ submit'[r].row = w /\ submit'[r].message = m
      /\ \A q \in Submits : q # r => submit'[q] = submit[q]
  BY <1>0, <1>1, <1>2, RunTyped
<1>5. /\ withdrawal'[w].status = "submitted" /\ withdrawal'[w].signature = m /\ withdrawal'[w].message = m
      /\ \A v \in Withdrawals : v # w => withdrawal'[v] = withdrawal[v]
  BY <1>1, <1>2 DEF Withdrawal
<1>6. QueueOK' /\ queue' \in Seq(Withdrawals)
  BY <1>1, <1>2, <1>5, QueueGrows
<1>7. WithdrawalTypeOK' /\ LandedKept /\ HaltKept
  BY <1>1, <1>2, <1>4, <1>6 DEF WithdrawalTypeOK, LandedKept, HaltKept
<1>8. RowOK(w)' /\ Paid(w)'
  BY <1>1, <1>2, <1>3, <1>5 DEF RowOK, Paid
<1>9. ClaimOK' /\ ReviewHalts'
  <2>1. worker.pc \in {"claimed", "calling", "answered", "review"} => worker.row # w /\ worker.row \in Withdrawals
    BY <1>1 DEF WithdrawalInv, ClaimOK
  <2> QED BY <1>1, <1>5, <1>7, <2>1, TickKept, ReviewsKept
<1>10. SignaturesKept
  BY <1>1, <1>3, <1>5, RowsAssumption DEF SignaturesKept, RowOK
<1>11. DriftHalts'
  <2>1. withdrawal'[w].signature = submit[r].message
    BY <1>0, <1>5
  <2> QED BY <1>1, <1>2, <1>4, <1>7, <1>10, <2>1, RouteDrift
<1>12. ASSUME NEW q \in Submits PROVE RunOK(q)'
  <2>1. RunOK(q)
    BY DEF WithdrawalInv
  <2>2. \A v \in Withdrawals : withdrawal[v].message \in Signatures => withdrawal'[v].message \in Signatures
    BY <1>2, <1>5
  <2>3. CASE q = r
    BY <1>2, <1>4, <1>5, <2>3 DEF RunOK
  <2>4. CASE q # r
    BY <1>4, <2>1, <2>2, <2>4 DEF RunOK
  <2> QED BY <2>3, <2>4
<1>13. SignatureUnused(withdrawal'[w].signature)
  BY <1>1, <1>5
<1> QED BY <1>1, <1>2, <1>5, <1>6, <1>7, <1>8, <1>9, <1>11, <1>12, <1>13, OneRowMoves

\* Any step of the submit route.
LEMMA SubmitStep ==
  ASSUME WithdrawalInv, TypeInv', NEW r \in Submits, SubmitSteps(r)
  PROVE  WithdrawalInv'
BY ReadStep, BroadcastStep, StoreStep, DriftStep, RouteGoesOn DEF SubmitSteps


-----------------------------------------------------------------------------
(* The worker, the dispatch service and the chain.                         *)

\* A step that changes no row and leaves the route alone.
LEMMA TickKeeps ==
  ASSUME WithdrawalInv, TypeInv', WithdrawalTypeOK', LandedKept, HaltKept,
         UNCHANGED <<withdrawal, destination, queue, submit, broadcasts>>,
         \A w \in Withdrawals : service'[w] = service[w] \/ withdrawal[w].status = "dispatching",
         ClaimOK', ReviewHalts'
  PROVE  WithdrawalInv'
<1>1. SignaturesKept /\ WithdrawalTypeOK /\ DriftHalts /\ \A r \in Submits : RunOK(r)
  BY DEF SignaturesKept, WithdrawalInv
<1>2. \A r \in Submits : RunOK(r)'
  BY <1>1, RunsKept
<1>3. DriftHalts'
  BY <1>1, DriftKept
<1> QED BY <1>2, <1>3, RowsStay

\* The idle tick, and any typed tick with some columns replaced.
LEMMA TickTyped ==
  /\ IdleTick \in Tick
  /\ \A t \in Tick, pc \in {"idle", "finalizing", "claimed", "calling", "answered", "review", "halting"} :
       /\ [t EXCEPT !.pc = pc] \in Tick
       /\ \A s \in Seq(Row) : [t EXCEPT !.pc = pc, !.rows = s] \in Tick
       /\ \A w \in 0..NWithdrawals : [t EXCEPT !.pc = pc, !.row = w] \in Tick
       /\ \A g \in Signatures : [t EXCEPT !.pc = pc, !.signature = g] \in Tick
       /\ \A reason \in Reasons : [t EXCEPT !.pc = pc, !.reason = reason] \in Tick
<1>1. IdleTick \in Tick
  <2>1. 0 \in 0..NWithdrawals /\ <<>> \in Seq(Row) /\ "reconciliation_drift" \in Reasons
    BY CountsAssumption DEF Reasons
  <2> QED BY <2>1 DEF IdleTick, Tick
<1>2. ASSUME NEW t \in Tick, NEW pc \in {"idle", "finalizing", "claimed", "calling", "answered", "review", "halting"}
      PROVE  /\ [t EXCEPT !.pc = pc] \in Tick
             /\ \A s \in Seq(Row) : [t EXCEPT !.pc = pc, !.rows = s] \in Tick
             /\ \A w \in 0..NWithdrawals : [t EXCEPT !.pc = pc, !.row = w] \in Tick
             /\ \A g \in Signatures : [t EXCEPT !.pc = pc, !.signature = g] \in Tick
             /\ \A reason \in Reasons : [t EXCEPT !.pc = pc, !.reason = reason] \in Tick
  <2> HIDE DEF Row
  <2>1. [t EXCEPT !.pc = pc] \in Tick
    BY DEF Tick
  <2>2. \A s \in Seq(Row) : [t EXCEPT !.pc = pc, !.rows = s] \in Tick
    BY DEF Tick
  <2>3. \A w \in 0..NWithdrawals : [t EXCEPT !.pc = pc, !.row = w] \in Tick
    BY DEF Tick
  <2>4. \A g \in Signatures : [t EXCEPT !.pc = pc, !.signature = g] \in Tick
    BY DEF Tick
  <2>5. \A reason \in Reasons : [t EXCEPT !.pc = pc, !.reason = reason] \in Tick
    BY DEF Tick
  <2> QED BY <2>1, <2>2, <2>3, <2>4, <2>5
<1> QED BY <1>1, <1>2

\* The columns of a tick.
LEMMA TickColumns ==
  ASSUME WithdrawalInv
  PROVE  /\ worker \in Tick /\ worker.rows \in Seq(Row)
         /\ worker.row \in 0..NWithdrawals /\ worker.reason \in Reasons
         /\ worker.signature \in Signatures \cup {NoSignature}
<1> HIDE DEF Row
<1> QED BY DEF WithdrawalInv, WithdrawalTypeOK, Tick

\* The tick reads the first rows of the queue with their bindings.
LEMMA TickStep ==
  ASSUME WithdrawalInv, TypeInv', tick
  PROVE  WithdrawalInv'
<1> DEFINE batch == IF Len(queue) < FinalizeBatch THEN Len(queue) ELSE FinalizeBatch
           read == [i \in 1..batch |-> [row |-> queue[i], wallet |-> wallet[withdrawal[queue[i]].account]]]
<1>1. /\ UNCHANGED <<circuit, wallet, withdrawal, destination, queue, submit, service, chain,
                     broadcasts, failures, bindings>>
      /\ worker.pc = "idle" /\ worker' = [worker EXCEPT !.pc = "finalizing", !.rows = read]
  BY DEF tick, databaseVars
<1>2. /\ WithdrawalTypeOK /\ worker \in Tick /\ QueueOK /\ ClaimOK
      /\ queue \in Seq(Withdrawals) /\ wallet \in [Accounts -> Wallets \cup {NoWallet}]
      /\ withdrawal \in [Withdrawals -> Withdrawal] /\ RowsBelong
  BY TickColumns DEF WithdrawalInv, WithdrawalTypeOK, TypeInv, TypeOK
<1>3. batch \in Nat /\ batch <= Len(queue)
  BY <1>2, FlowCountsAssumption
<1>4. \A i \in 1..batch : queue[i] \in Withdrawals /\ withdrawal[queue[i]].account \in Accounts
  BY <1>2, <1>3 DEF QueueOK, RowsBelong
<1>5. \A i \in 1..batch : [row |-> queue[i], wallet |-> wallet[withdrawal[queue[i]].account]] \in Row
  BY <1>2, <1>4 DEF Row
<1> HIDE DEF batch
<1>6. read \in Seq(Row)
  <2> HIDE DEF Row
  <2> QED BY <1>3, <1>5
<1> HIDE DEF read
<1>7. worker' \in Tick
  BY <1>1, <1>2, <1>6, TickTyped
<1>8. WithdrawalTypeOK' /\ LandedKept /\ HaltKept
  BY <1>1, <1>2, <1>7 DEF WithdrawalTypeOK, LandedKept, HaltKept
<1>9. worker'.pc = "finalizing" /\ worker'.row = worker.row
  BY <1>1, <1>2 DEF Tick
<1>10. ClaimOK' /\ ReviewHalts'
  BY <1>1, <1>2, <1>8, <1>9, ReviewsKept DEF ClaimOK
<1> QED BY <1>1, <1>8, <1>10, TickKeeps

\* The tick passes over a row, ends, or fails to hear from the service.
LEMMA TickGoesOn ==
  ASSUME WithdrawalInv, TypeInv', RowPending \/ TickEnds \/ DispatchFails \/ TickFails
  PROVE  WithdrawalInv'
<1>1. /\ UNCHANGED <<circuit, wallet, withdrawal, destination, queue, submit, service, chain,
                     broadcasts, bindings>>
      /\ \/ failures' = failures
         \/ failures < MaxTickFailures /\ failures' = failures + 1
  BY DEF RowPending, TickEnds, DispatchFails, TickFails, databaseVars
<1>2. WithdrawalTypeOK /\ worker \in Tick /\ failures \in Nat /\ failures' \in 0..MaxTickFailures
  BY <1>1, TickColumns, FlowCountsAssumption DEF WithdrawalInv, WithdrawalTypeOK
<1>3. \/ /\ worker.pc = "finalizing" /\ worker.rows # <<>> /\ worker' = CheckedRow(Tail(worker.rows))
         /\ failures' = failures
      \/ worker.pc = "finalizing" /\ worker' = IdleTick /\ failures' = failures
      \/ /\ worker.pc \in {"calling", "answered"} /\ failures' = failures
         /\ worker' = [worker EXCEPT !.pc = "review", !.reason = "execution_failure_rate"]
      \/ worker' = IdleTick /\ failures' = failures + 1
  BY DEF RowPending, TickEnds, DispatchFails, TickFails
<1>4. worker' \in Tick
  <2>1. "execution_failure_rate" \in Reasons
    BY DEF Reasons
  <2>2. worker.rows # <<>> => Tail(worker.rows) \in Seq(Row)
    BY NamedRows
  <2>3. CASE worker.rows # <<>> /\ worker' = CheckedRow(Tail(worker.rows))
    BY <1>2, <2>2, <2>3, TickTyped DEF CheckedRow
  <2>4. CASE worker' = IdleTick
    BY <2>4, TickTyped
  <2>5. CASE worker' = [worker EXCEPT !.pc = "review", !.reason = "execution_failure_rate"]
    BY <1>2, <2>1, <2>5, TickTyped
  <2> QED BY <1>3, <2>3, <2>4, <2>5
<1>5. WithdrawalTypeOK' /\ LandedKept /\ HaltKept
  BY <1>1, <1>2, <1>4 DEF WithdrawalTypeOK, LandedKept, HaltKept
<1>6. \/ worker'.pc \in {"idle", "finalizing"} /\ worker'.row = 0
      \/ worker'.pc = "review" /\ worker'.row = worker.row /\ worker.pc \in {"calling", "answered"}
  <2>1. CASE worker.pc = "finalizing" /\ worker' = CheckedRow(Tail(worker.rows))
    BY <1>2, <2>1 DEF WithdrawalInv, ClaimOK, CheckedRow, Tick
  <2>2. CASE worker' = IdleTick
    BY <2>2 DEF IdleTick
  <2>3. CASE /\ worker.pc \in {"calling", "answered"}
             /\ worker' = [worker EXCEPT !.pc = "review", !.reason = "execution_failure_rate"]
    BY <1>2, <2>3 DEF Tick
  <2> QED BY <1>3, <2>1, <2>2, <2>3
<1>7. ClaimOK'
  BY <1>1, <1>6 DEF WithdrawalInv, ClaimOK
<1>8. ReviewHalts'
  <2>1. failures' = 0 => failures = 0 /\ worker.pc # "halting"
    BY <1>2, <1>3
  <2> QED BY <1>1, <1>5, <2>1 DEF WithdrawalInv, ReviewHalts, HaltKept
<1> QED BY <1>1, <1>5, <1>7, <1>8, TickKeeps

\* The halt after a review.
LEMMA ReviewHaltStep ==
  ASSUME WithdrawalInv, TypeInv', ReviewHaltsCircuit
  PROVE  WithdrawalInv'
<1>1. /\ UNCHANGED <<wallet, withdrawal, destination, queue, submit, service, chain,
                     broadcasts, failures, bindings>>
      /\ circuit' = haltedState(circuit, {worker.reason})
      /\ worker' = IF worker.row = 0 THEN CheckedRow(worker.rows) ELSE IdleTick
  BY DEF ReviewHaltsCircuit, databaseVars, halt
<1>2. WithdrawalTypeOK /\ worker \in Tick /\ worker.reason \in Reasons /\ worker.rows \in Seq(Row)
  BY TickColumns DEF WithdrawalInv
<1>3. circuit' \in CircuitState /\ circuit'.status = "halted"
  BY <1>1, <1>2 DEF WithdrawalTypeOK, haltedState, CircuitState
<1>4. worker' \in Tick
  BY <1>1, <1>2, TickTyped DEF CheckedRow
<1>5. WithdrawalTypeOK' /\ LandedKept /\ HaltKept
  BY <1>1, <1>2, <1>3, <1>4 DEF WithdrawalTypeOK, LandedKept, HaltKept
<1>6. worker'.pc \in {"idle", "finalizing"} /\ worker'.row = 0
  BY <1>1, <1>2 DEF CheckedRow, IdleTick, Tick
<1>7. ClaimOK' /\ ReviewHalts'
  BY <1>3, <1>6 DEF ClaimOK, ReviewHalts
<1> QED BY <1>1, <1>5, <1>7, TickKeeps


\* The dispatch service is asked, unless the binding has changed.
LEMMA CallStep ==
  ASSUME WithdrawalInv, TypeInv', CallDispatch
  PROVE  WithdrawalInv'
<1>1. PICK w \in Withdrawals : w = worker.row
  BY NamedRows DEF CallDispatch
<1>2. /\ UNCHANGED <<circuit, wallet, withdrawal, destination, queue, submit, chain,
                     broadcasts, failures, bindings>>
      /\ worker.pc = "claimed"
      /\ \/ /\ service' = [service EXCEPT ![w] = "asked"]
            /\ worker' = [worker EXCEPT !.pc = "calling"]
         \/ /\ worker' = [worker EXCEPT !.pc = "review", !.reason = "recipient_binding_stale"]
            /\ UNCHANGED service
  BY <1>1 DEF CallDispatch, databaseVars
<1>3. /\ WithdrawalTypeOK /\ ClaimOK /\ worker \in Tick /\ withdrawal[w].status = "dispatching"
      /\ service \in [Withdrawals -> {"none", "asked", "paid"}]
  BY <1>1, <1>2, TickColumns DEF WithdrawalInv, ClaimOK, WithdrawalTypeOK
<1>4. worker' \in Tick
  <2>1. "recipient_binding_stale" \in Reasons
    BY DEF Reasons
  <2>2. CASE worker' = [worker EXCEPT !.pc = "calling"]
    BY <1>3, <2>2, TickTyped
  <2>3. CASE worker' = [worker EXCEPT !.pc = "review", !.reason = "recipient_binding_stale"]
    BY <1>3, <2>1, <2>3, TickTyped
  <2> QED BY <1>2, <2>2, <2>3
<1>5. service' \in [Withdrawals -> {"none", "asked", "paid"}]
  BY <1>2, <1>3
<1>6. WithdrawalTypeOK' /\ LandedKept /\ HaltKept
  BY <1>2, <1>3, <1>4, <1>5 DEF WithdrawalTypeOK, LandedKept, HaltKept
<1>7. worker'.pc \in {"calling", "review"} /\ worker'.row = w
  BY <1>1, <1>2, <1>3 DEF Tick
<1>8. ClaimOK' /\ ReviewHalts'
  BY <1>2, <1>3, <1>6, <1>7, ReviewsKept DEF ClaimOK
<1>9. \A v \in Withdrawals : service'[v] = service[v] \/ withdrawal[v].status = "dispatching"
  BY <1>2, <1>3
<1> QED BY <1>2, <1>6, <1>8, <1>9, TickKeeps

\* The dispatch service pays, whether or not the tick still waits for it.
LEMMA PayStep ==
  ASSUME WithdrawalInv, TypeInv', NEW w \in Withdrawals, NEW sig \in Signatures, DispatchPays(w, sig)
  PROVE  WithdrawalInv'
<1> DEFINE t == [state |-> "sent", to |-> destination[w], amount |-> withdrawal[w].amount]
<1>1. /\ UNCHANGED <<circuit, wallet, withdrawal, destination, queue, submit, broadcasts, failures, bindings>>
      /\ service[w] = "asked" /\ chain[sig].state = "unused"
      /\ service' = [service EXCEPT ![w] = "paid"] /\ chain' = [chain EXCEPT ![sig] = t]
      /\ worker' = IF worker.pc = "calling" /\ worker.row = w
                   THEN [worker EXCEPT !.pc = "answered", !.signature = sig] ELSE worker
  BY DEF DispatchPays, NewSignature, databaseVars
<1>2. /\ WithdrawalTypeOK /\ ClaimOK /\ worker \in Tick
      /\ withdrawal[w].amount \in Nat /\ destination[w] \in Wallets \cup {NoWallet}
      /\ service \in [Withdrawals -> {"none", "asked", "paid"}] /\ chain \in [Signatures -> Transaction]
  BY TickColumns DEF WithdrawalInv, WithdrawalTypeOK, TypeInv, TypeOK, Withdrawal
<1>3. t \in Transaction
  BY <1>2 DEF Transaction
<1>4. worker' \in Tick
  BY <1>1, <1>2, TickTyped
<1>5. chain' \in [Signatures -> Transaction] /\ service' \in [Withdrawals -> {"none", "asked", "paid"}]
  BY <1>1, <1>2, <1>3
<1>6. LandedKept /\ HaltKept
  BY <1>1, <1>2 DEF LandedKept, HaltKept
<1>7. WithdrawalTypeOK'
  BY <1>1, <1>2, <1>4, <1>5 DEF WithdrawalTypeOK
<1>8. /\ worker'.row = worker.row
      /\ \/ worker' = worker
         \/ worker.pc = "calling" /\ worker'.pc = "answered" /\ worker'.signature = sig
  BY <1>1, <1>2 DEF Tick
<1>9. ClaimOK' /\ ReviewHalts'
  BY <1>1, <1>2, <1>6, <1>8, ReviewsKept DEF ClaimOK
<1>10. ASSUME NEW v \in Withdrawals PROVE RowOK(v)' /\ Paid(v)'
  <2>1. RowOK(v) /\ Paid(v)
    BY DEF WithdrawalInv
  <2>2. RowOK(v)'
    <3>1. service'[v] # "none" => service[v] # "none"
      BY <1>1, <1>2
    <3> QED BY <1>1, <2>1, <3>1 DEF RowOK
  <2>3. Paid(v)'
    <3>1. CASE withdrawal[v].status = "finalized"
      <4>1. withdrawal[v].signature \in Signatures /\ chain[withdrawal[v].signature].state = "landed"
        BY <2>1, <3>1 DEF RowOK, Paid
      <4>2. chain'[withdrawal[v].signature] = chain[withdrawal[v].signature]
        BY <1>6, <4>1 DEF LandedKept
      <4> QED BY <1>1, <4>1, <4>2 DEF Paid
    <3>2. CASE withdrawal[v].status # "finalized"
      BY <1>1, <3>2 DEF Paid
    <3> QED BY <3>1, <3>2
  <2> QED BY <2>2, <2>3
<1>11. SignaturesDiffer' /\ QueueOK'
  BY <1>1 DEF WithdrawalInv, SignaturesDiffer, QueueOK
<1>12. DriftHalts' /\ \A r \in Submits : RunOK(r)'
  <2>1. SignaturesKept /\ DriftHalts /\ \A r \in Submits : RunOK(r)
    BY <1>1 DEF SignaturesKept, WithdrawalInv
  <2> QED BY <1>1, <1>2, <1>6, <2>1, DriftKept, RunsKept
<1> QED BY <1>7, <1>9, <1>10, <1>11, <1>12 DEF WithdrawalInv

\* The chain decides about a transaction that was sent.
LEMMA LandStep ==
  ASSUME WithdrawalInv, TypeInv', NEW m \in Signatures, NEW outcome \in {"landed", "failed"},
         TransactionLands(m, outcome)
  PROVE  WithdrawalInv'
<1>1. /\ UNCHANGED <<circuit, wallet, withdrawal, destination, queue, submit, worker, service,
                     broadcasts, failures, bindings>>
      /\ chain[m].state = "sent" /\ chain' = [chain EXCEPT ![m].state = outcome]
  BY DEF TransactionLands, databaseVars
<1>2. WithdrawalTypeOK /\ chain \in [Signatures -> Transaction]
  BY DEF WithdrawalInv, WithdrawalTypeOK
<1>3. [chain[m] EXCEPT !.state = outcome] \in Transaction
  BY <1>2 DEF Transaction
<1>4. chain' \in [Signatures -> Transaction] /\ LandedKept
  BY <1>1, <1>2, <1>3 DEF LandedKept
<1>5. WithdrawalTypeOK'
  BY <1>1, <1>2, <1>4 DEF WithdrawalTypeOK
<1> QED BY <1>1, <1>4, <1>5, OutsideStep


\* The worker claims the oldest queued row.
LEMMA ClaimStep ==
  ASSUME WithdrawalInv, TypeInv', NEW w \in Withdrawals, ClaimQueued(w)
  PROVE  WithdrawalInv'
<1>1. /\ UNCHANGED <<circuit, wallet, destination, queue, submit, service, chain, broadcasts, failures, bindings>>
      /\ worker.pc = "finalizing" /\ worker' = [worker EXCEPT !.pc = "claimed", !.row = w]
      /\ withdrawal[w].status = "queued"
      /\ withdrawal' = [withdrawal EXCEPT ![w].status = "dispatching"]
  BY DEF ClaimQueued, ClaimWithdrawal
<1>2. WithdrawalTypeOK /\ worker \in Tick /\ withdrawal \in [Withdrawals -> Withdrawal]
  BY TickColumns DEF WithdrawalInv, TypeInv, TypeOK
<1>3. /\ withdrawal'[w].status = "dispatching"
      /\ withdrawal'[w].message = withdrawal[w].message /\ withdrawal'[w].signature = withdrawal[w].signature
      /\ \A v \in Withdrawals : v # w => withdrawal'[v] = withdrawal[v]
  BY <1>1, <1>2 DEF Withdrawal
<1>4. worker' \in Tick
  <2>1. w \in 0..NWithdrawals
    BY CountsAssumption DEF Withdrawals
  <2> QED BY <1>1, <1>2, <2>1, TickTyped
<1>5. worker'.pc = "claimed" /\ worker'.row = w
  BY <1>1, <1>2 DEF Tick
<1>6. WithdrawalTypeOK' /\ LandedKept
  BY <1>1, <1>2, <1>4 DEF WithdrawalTypeOK, LandedKept
<1>7. ClaimOK'
  BY <1>3, <1>5 DEF ClaimOK
<1> QED BY <1>1, <1>3, <1>6, <1>7, WaitingRowMoves

\* A row that left the treasury moves on: the message stays, a signature is
\* filled in at most once, and the queue follows the status.
LEMMA SentRowMoves ==
  ASSUME WithdrawalInv, TypeInv', WithdrawalTypeOK', NEW w \in Withdrawals,
         \A v \in Withdrawals : v # w => withdrawal'[v] = withdrawal[v],
         withdrawal[w].status \in {"dispatching", "submitted"},
         withdrawal'[w].status \in {"submitted", "finalized", "failed_review"},
         withdrawal'[w].message = withdrawal[w].message,
         \/ withdrawal'[w].signature = withdrawal[w].signature
         \/ withdrawal[w].status = "dispatching" /\ SignatureUnused(withdrawal'[w].signature),
         withdrawal'[w].status \in {"submitted", "finalized"} => withdrawal'[w].signature \in Signatures,
         UNCHANGED <<circuit, destination, submit, service, chain, broadcasts>>,
         Paid(w)', QueueOK', ClaimOK', ReviewHalts'
  PROVE  WithdrawalInv'
<1>1. RowOK(w) /\ WithdrawalTypeOK /\ DriftHalts /\ \A r \in Submits : RunOK(r)
  BY DEF WithdrawalInv
<1>2. RowOK(w)'
  BY <1>1 DEF RowOK
<1>3. HaltKept /\ LandedKept /\ SignaturesKept
  BY <1>1, RowsAssumption DEF HaltKept, LandedKept, SignaturesKept, RowOK
<1>4. \A v \in Withdrawals : withdrawal[v].message \in Signatures => withdrawal'[v].message \in Signatures
  OBVIOUS
<1>5. \A r \in Submits : RunOK(r)'
  BY <1>1, <1>4, RunsKept
<1>6. DriftHalts'
  BY <1>1, <1>3, DriftKept
<1> QED BY <1>2, <1>3, <1>5, <1>6, OneRowMoves

\* A submitted row that is decided leaves the queue.
LEMMA QueueShrinks ==
  ASSUME QueueOK, queue \in Seq(Withdrawals), NEW w \in Withdrawals, Dequeue(w),
         \A v \in Withdrawals : v # w => withdrawal'[v] = withdrawal[v],
         withdrawal[w].status = "submitted", withdrawal'[w].status # "submitted"
  PROVE  QueueOK' /\ queue' \in Seq(Withdrawals)
<1> DEFINE p == CHOOSE i \in 1..Len(queue) : queue[i] = w
<1>1. Len(queue) \in Nat /\ \A i \in 1..Len(queue) : queue[i] \in Withdrawals
  OBVIOUS
<1>2. p \in 1..Len(queue) /\ queue[p] = w
  BY DEF QueueOK
<1>3. queue' = [i \in 1..(Len(queue) - 1) |-> IF i < p THEN queue[i] ELSE queue[i + 1]]
  BY DEF Dequeue
<1> HIDE DEF p
<1>4. Len(queue) - 1 \in Nat
  BY <1>1, <1>2
<1>5. \A i \in 1..(Len(queue) - 1) : (IF i < p THEN queue[i] ELSE queue[i + 1]) \in Withdrawals
  BY <1>1
<1>6. queue' \in Seq(Withdrawals) /\ Len(queue') = Len(queue) - 1
  BY <1>3, <1>4, <1>5
<1>7. \A i \in 1..Len(queue') : \E j \in 1..Len(queue) :
        queue'[i] = queue[j] /\ j # p /\ i = (IF j < p THEN j ELSE j - 1)
  <2> SUFFICES ASSUME NEW i \in 1..Len(queue')
               PROVE  \E j \in 1..Len(queue) :
                        queue'[i] = queue[j] /\ j # p /\ i = (IF j < p THEN j ELSE j - 1)
    OBVIOUS
  <2>1. CASE i < p
    <3>1. i \in 1..Len(queue) /\ queue'[i] = queue[i] /\ i # p
      BY <1>1, <1>2, <1>3, <1>6, <2>1
    <3> QED BY <2>1, <3>1
  <2>2. CASE ~(i < p)
    <3>1. /\ i + 1 \in 1..Len(queue) /\ queue'[i] = queue[i + 1] /\ i + 1 # p
          /\ ~(i + 1 < p) /\ (i + 1) - 1 = i
      BY <1>1, <1>2, <1>3, <1>6, <2>2
    <3> QED BY <3>1
  <2> QED BY <2>1, <2>2
<1>8. \A j \in 1..Len(queue) : j # p => queue[j] # w
  BY <1>2 DEF QueueOK
<1>9. \A i \in 1..Len(queue') : withdrawal'[queue'[i]].status = "submitted"
  BY <1>1, <1>7, <1>8 DEF QueueOK
<1>10. \A i, j \in 1..Len(queue') : queue'[i] = queue'[j] => i = j
  BY <1>7 DEF QueueOK
<1>11. ASSUME NEW v \in Withdrawals, withdrawal'[v].status = "submitted"
       PROVE  \E i \in 1..Len(queue') : queue'[i] = v
  <2>1. v # w /\ withdrawal[v].status = "submitted"
    BY <1>11
  <2>2. PICK j \in 1..Len(queue) : queue[j] = v
    BY <2>1 DEF QueueOK
  <2>3. j # p
    BY <1>2, <2>1, <2>2
  <2>4. CASE j < p
    <3>1. j \in 1..Len(queue') /\ queue'[j] = queue[j]
      BY <1>1, <1>2, <1>3, <1>6, <2>4
    <3> QED BY <2>2, <3>1
  <2>5. CASE ~(j < p)
    <3>1. j - 1 \in 1..Len(queue') /\ ~(j - 1 < p) /\ (j - 1) + 1 = j
      BY <1>1, <1>2, <1>6, <2>3, <2>5
    <3>2. queue'[j - 1] = queue[j]
      BY <1>3, <1>6, <3>1
    <3> QED BY <2>2, <3>1, <3>2
  <2> QED BY <2>4, <2>5
<1> QED BY <1>6, <1>9, <1>10, <1>11 DEF QueueOK


\* The worker writes its verdict on a submitted row.
LEMMA DecideStep ==
  ASSUME WithdrawalInv, TypeInv', RowFinalized \/ RowReviewed
  PROVE  WithdrawalInv'
<1>1. PICK w \in Withdrawals : w = Head(worker.rows).row
  BY NamedRows DEF RowFinalized, RowReviewed, Row
<1>2. /\ UNCHANGED <<circuit, wallet, destination, submit, service, chain, broadcasts, failures, bindings>>
      /\ worker.pc = "finalizing" /\ worker.rows # <<>>
      /\ withdrawal[w].status = "submitted" /\ Dequeue(w)
      /\ \/ /\ Verdict(Head(worker.rows)) = "finalized"
            /\ withdrawal' = [withdrawal EXCEPT ![w].status = "finalized"]
            /\ worker' = CheckedRow(Tail(worker.rows))
         \/ /\ Verdict(Head(worker.rows)) \in Reasons
            /\ withdrawal' = [withdrawal EXCEPT ![w].status = "failed_review"]
            /\ worker' = [CheckedRow(Tail(worker.rows)) EXCEPT
                            !.pc = "halting", !.reason = Verdict(Head(worker.rows))]
  BY <1>1 DEF RowFinalized, RowReviewed, FinalizeWithdrawal
<1>3. /\ WithdrawalTypeOK /\ worker \in Tick /\ withdrawal \in [Withdrawals -> Withdrawal]
      /\ QueueOK /\ queue \in Seq(Withdrawals) /\ RowOK(w) /\ worker.row = 0
      /\ Tail(worker.rows) \in Seq(Row)
  BY <1>2, TickColumns, NamedRows DEF WithdrawalInv, WithdrawalTypeOK, TypeInv, TypeOK, ClaimOK
<1>4. /\ withdrawal'[w].message = withdrawal[w].message /\ withdrawal'[w].signature = withdrawal[w].signature
      /\ withdrawal'[w].account = withdrawal[w].account /\ withdrawal'[w].amount = withdrawal[w].amount
      /\ withdrawal'[w].status \in {"finalized", "failed_review"}
      /\ \A v \in Withdrawals : v # w => withdrawal'[v] = withdrawal[v]
  BY <1>2, <1>3 DEF Withdrawal
<1>5. QueueOK' /\ queue' \in Seq(Withdrawals)
  BY <1>2, <1>3, <1>4, QueueShrinks
<1>6. CheckedRow(Tail(worker.rows)) \in Tick
  BY <1>3, TickTyped DEF CheckedRow
<1>7. worker' \in Tick
  <2>1. CASE worker' = CheckedRow(Tail(worker.rows))
    BY <1>6, <2>1
  <2>2. CASE /\ Verdict(Head(worker.rows)) \in Reasons
             /\ worker' = [CheckedRow(Tail(worker.rows)) EXCEPT
                             !.pc = "halting", !.reason = Verdict(Head(worker.rows))]
    BY <1>6, <2>2, TickTyped
  <2> QED BY <1>2, <2>1, <2>2
<1>8. WithdrawalTypeOK'
  BY <1>2, <1>3, <1>5, <1>7 DEF WithdrawalTypeOK
<1>9. /\ worker'.row = 0
      /\ \/ worker'.pc = "finalizing" /\ withdrawal'[w].status = "finalized"
         \/ worker'.pc = "halting"
  <2>1. CASE /\ withdrawal' = [withdrawal EXCEPT ![w].status = "finalized"]
             /\ worker' = CheckedRow(Tail(worker.rows))
    BY <1>3, <2>1 DEF CheckedRow, Tick, Withdrawal
  <2>2. CASE worker' = [CheckedRow(Tail(worker.rows)) EXCEPT
                          !.pc = "halting", !.reason = Verdict(Head(worker.rows))]
    BY <1>3, <2>2 DEF CheckedRow, Tick
  <2> QED BY <1>2, <2>1, <2>2
<1>10. ClaimOK'
  BY <1>9 DEF ClaimOK
<1>11. ReviewHalts'
  BY <1>2, <1>4, <1>9 DEF WithdrawalInv, ReviewHalts
<1>12. Paid(w)'
  <2>1. CASE Verdict(Head(worker.rows)) = "finalized"
    <3>1. chain[withdrawal[w].signature].state = "landed"
      BY <1>1, <2>1 DEF Verdict
    <3> QED BY <1>2, <1>4, <3>1 DEF Paid
  <2>2. CASE withdrawal'[w].status = "failed_review"
    BY <2>2 DEF Paid
  <2>3. Verdict(Head(worker.rows)) = "finalized" \/ withdrawal'[w].status = "failed_review"
    BY <1>2, <1>3 DEF Withdrawal
  <2> QED BY <2>1, <2>2, <2>3
<1>13. withdrawal'[w].signature \in Signatures
  BY <1>2, <1>3, <1>4 DEF RowOK
<1> QED BY <1>2, <1>4, <1>5, <1>8, <1>10, <1>11, <1>12, <1>13, SentRowMoves

\* The worker records the signature the dispatch service has answered with.
LEMMA RecordStep ==
  ASSUME WithdrawalInv, TypeInv', RecordDispatch
  PROVE  WithdrawalInv'
<1>1. PICK w \in Withdrawals, sig \in Signatures : w = worker.row /\ sig = worker.signature
  BY NamedRows DEF RecordDispatch
<1>2. /\ UNCHANGED <<circuit, wallet, destination, submit, service, chain, broadcasts, failures, bindings>>
      /\ worker.pc = "answered" /\ worker' = IdleTick /\ queue' = Append(queue, w)
      /\ withdrawal[w].status = "dispatching" /\ SignatureUnused(sig)
      /\ withdrawal' = [withdrawal EXCEPT ![w].status = "submitted", ![w].signature = sig]
  BY <1>1 DEF RecordDispatch, WithdrawalDispatched
<1>3. /\ WithdrawalTypeOK /\ withdrawal \in [Withdrawals -> Withdrawal]
      /\ QueueOK /\ queue \in Seq(Withdrawals)
  BY DEF WithdrawalInv, WithdrawalTypeOK, TypeInv, TypeOK
<1>4. /\ withdrawal'[w].status = "submitted" /\ withdrawal'[w].signature = sig
      /\ withdrawal'[w].message = withdrawal[w].message
      /\ \A v \in Withdrawals : v # w => withdrawal'[v] = withdrawal[v]
  BY <1>2, <1>3 DEF Withdrawal
<1>5. QueueOK' /\ queue' \in Seq(Withdrawals)
  BY <1>2, <1>3, <1>4, QueueGrows
<1>6. WithdrawalTypeOK' /\ Paid(w)' /\ HaltKept
  BY <1>2, <1>3, <1>4, <1>5, TickTyped DEF WithdrawalTypeOK, Paid, HaltKept
<1>7. worker'.pc = "idle" /\ worker'.row = 0
  BY <1>2 DEF IdleTick
<1>8. ClaimOK' /\ ReviewHalts'
  BY <1>2, <1>4, <1>6, <1>7, ReviewsKept DEF ClaimOK
<1>9. SignatureUnused(withdrawal'[w].signature)
  BY <1>2, <1>4
<1> QED BY <1>2, <1>4, <1>5, <1>6, <1>8, <1>9, SentRowMoves

\* The worker puts the row it has claimed in review.
LEMMA ReviewStep ==
  ASSUME WithdrawalInv, TypeInv', ReviewClaimed
  PROVE  WithdrawalInv'
<1>1. PICK w \in Withdrawals : w = worker.row
  BY NamedRows DEF ReviewClaimed
<1>2. /\ UNCHANGED <<circuit, wallet, destination, queue, submit, service, chain, broadcasts, failures, bindings>>
      /\ worker.pc = "review" /\ worker' = [worker EXCEPT !.pc = "halting"]
      /\ withdrawal[w].status = "dispatching"
      /\ withdrawal' = [withdrawal EXCEPT ![w].status = "failed_review"]
  BY <1>1 DEF ReviewClaimed, markWithdrawalReview
<1>3. /\ WithdrawalTypeOK /\ withdrawal \in [Withdrawals -> Withdrawal] /\ worker \in Tick
      /\ QueueOK /\ queue \in Seq(Withdrawals)
  BY TickColumns DEF WithdrawalInv, WithdrawalTypeOK, TypeInv, TypeOK
<1>4. /\ withdrawal'[w].status = "failed_review" /\ withdrawal'[w].signature = withdrawal[w].signature
      /\ withdrawal'[w].message = withdrawal[w].message
      /\ \A v \in Withdrawals : v # w => withdrawal'[v] = withdrawal[v]
  BY <1>2, <1>3 DEF Withdrawal
<1>5. QueueOK'
  BY <1>2, <1>3, <1>4, QueueKept
<1>6. worker' \in Tick /\ worker'.pc = "halting"
  <2>1. worker' \in Tick
    BY <1>2, <1>3, TickTyped
  <2> QED BY <1>2, <1>3, <2>1 DEF Tick
<1>7. WithdrawalTypeOK' /\ Paid(w)'
  BY <1>2, <1>3, <1>4, <1>6 DEF WithdrawalTypeOK, Paid
<1>8. ClaimOK' /\ ReviewHalts'
  BY <1>6 DEF ClaimOK, ReviewHalts
<1> QED BY <1>2, <1>4, <1>5, <1>7, <1>8, SentRowMoves

-----------------------------------------------------------------------------
(* The invariant holds.                                                    *)

\* The invariant holds before anything has happened.
LEMMA WithdrawalInitially ==
  ASSUME WithdrawalInit
  PROVE  WithdrawalInv
<1>1. TypeInv
  BY InitTyped DEF WithdrawalInit
<1>2. /\ withdrawal = [w \in Withdrawals |->
           [status |-> "none", account |-> NoAccount, amount |-> 0, fresh |-> FALSE,
            message |-> NoSignature, signature |-> NoSignature]]
      /\ circuit = OpenCircuit /\ wallet = [a \in Accounts |-> NoWallet]
      /\ destination = [w \in Withdrawals |-> NoWallet] /\ queue = <<>>
      /\ submit = [r \in Submits |->
           [pc |-> "idle", row |-> 0, message |-> NoSignature, circuit |-> OpenCircuit]]
      /\ worker = IdleTick /\ service = [w \in Withdrawals |-> "none"]
      /\ chain = [m \in Signatures |-> [state |-> "unused", to |-> NoWallet, amount |-> 0]]
      /\ broadcasts = {} /\ failures = 0 /\ bindings = 0
  BY DEF WithdrawalInit, Init
<1>3. OpenCircuit \in CircuitState
  BY DEF OpenCircuit, CircuitState
<1>4. [pc |-> "idle", row |-> 0, message |-> NoSignature, circuit |-> OpenCircuit] \in Submit
  BY <1>3, CountsAssumption DEF Submit
<1>5. [state |-> "unused", to |-> NoWallet, amount |-> 0] \in Transaction
  BY DEF Transaction
<1>6. WithdrawalTypeOK
  <2>1. submit \in [Submits -> Submit] /\ chain \in [Signatures -> Transaction]
    BY <1>2, <1>4, <1>5
  <2>2. failures \in 0..MaxTickFailures /\ bindings \in 0..MaxBindings
    BY <1>2, FlowCountsAssumption
  <2>3. queue \in Seq(Withdrawals) /\ broadcasts \subseteq Withdrawals \X Signatures
    BY <1>2
  <2>4. worker \in Tick /\ circuit \in CircuitState
    BY <1>2, <1>3, TickTyped
  <2>5. /\ wallet \in [Accounts -> Wallets \cup {NoWallet}]
        /\ destination \in [Withdrawals -> Wallets \cup {NoWallet}]
        /\ service \in [Withdrawals -> {"none", "asked", "paid"}]
    BY <1>2
  <2> QED BY <2>1, <2>2, <2>3, <2>4, <2>5 DEF WithdrawalTypeOK
<1>7. \A w \in Withdrawals : RowOK(w) /\ Paid(w)
  BY <1>2, RowsAssumption DEF RowOK, Paid
<1>8. SignaturesDiffer /\ QueueOK
  <2>1. \A w \in Withdrawals : withdrawal[w].status = "none" /\ withdrawal[w].signature = NoSignature
    BY <1>2
  <2> QED BY <1>2, <2>1, RowsAssumption DEF SignaturesDiffer, QueueOK
<1>9. ClaimOK /\ \A r \in Submits : RunOK(r)
  BY <1>2 DEF ClaimOK, RunOK, IdleTick
<1>10. DriftHalts /\ ReviewHalts
  BY <1>2 DEF DriftHalts, ReviewHalts
<1> QED BY <1>1, <1>6, <1>7, <1>8, <1>9, <1>10 DEF WithdrawalInv

\* Every step preserves the invariant.
LEMMA WithdrawalStepInv ==
  ASSUME WithdrawalInv, [WithdrawalNext]_withdrawalVars
  PROVE  WithdrawalInv'
<1>1. TypeInv'
  BY FlowStatement
<1>2. CASE ConsumerSteps
  BY <1>1, <1>2, FundOrBindStep, RequestStep, PrepareStep, ExpireOrCancelStep DEF ConsumerSteps
<1>3. CASE \E r \in Submits : SubmitSteps(r)
  BY <1>1, <1>3, SubmitStep
<1>4. CASE WorkerSteps \/ TickFails
  BY <1>1, <1>4, TickStep, TickGoesOn, ReviewHaltStep, CallStep, ClaimStep, DecideStep, RecordStep,
     ReviewStep DEF WorkerSteps
<1>5. CASE \E w \in Withdrawals, sig \in Signatures : DispatchPays(w, sig)
  BY <1>1, <1>5, PayStep
<1>6. CASE \E m \in Signatures, outcome \in {"landed", "failed"} : TransactionLands(m, outcome)
  BY <1>1, <1>6, LandStep
<1>7. CASE UNCHANGED withdrawalVars
  <2>1. UNCHANGED <<circuit, wallet, withdrawal, destination, queue, submit, worker, service, chain,
                    broadcasts, failures, bindings>>
    BY <1>7 DEF withdrawalVars, databaseVars, flowVars
  <2>2. WithdrawalTypeOK' /\ LandedKept
    BY <2>1 DEF WithdrawalInv, WithdrawalTypeOK, LandedKept
  <2> QED BY <1>1, <2>1, <2>2, OutsideStep
<1> QED BY <1>2, <1>3, <1>4, <1>5, <1>6, <1>7 DEF WithdrawalNext

\* The invariant holds in every state of the flow.
LEMMA WithdrawalInvariant == WithdrawalSpec => []WithdrawalInv
<1>1. WithdrawalInit => WithdrawalInv
  BY WithdrawalInitially
<1>2. WithdrawalInv /\ [WithdrawalNext]_withdrawalVars => WithdrawalInv'
  BY WithdrawalStepInv
<1> QED BY <1>1, <1>2, PTL DEF WithdrawalSpec

-----------------------------------------------------------------------------
(* What a transaction carries: the worker's check at the end allows more    *)
(* than the amount, so that a finalized row was paid exactly rests on how   *)
(* every transaction was signed.                                           *)

\* The transaction has been signed for what the row pays.
Signed(m, w) == chain[m].state # "unused" /\ Content(m) = Pays(w)

\* Every transaction a row names was signed for that row's payment, and so
\* was the one the dispatch service has answered with.
ContentOK ==
  /\ \A w \in Withdrawals, m \in Signatures :
       m = withdrawal[w].message \/ m = withdrawal[w].signature => Signed(m, w)
  /\ worker.pc = "answered" => Signed(worker.signature, worker.row)

\* What a signed transaction carries never changes.
ContentKept ==
  \A m \in Signatures :
    chain[m].state # "unused" => chain'[m].state # "unused" /\ Content(m)' = Content(m)

\* What a requested withdrawal pays never changes.
TermsKept == \A w \in Withdrawals : withdrawal[w].status # "none" => Pays(w)' = Pays(w)

\* The transactions that rows name are as they were, or newly signed for them.
LEMMA ContentGoesOn ==
  ASSUME WithdrawalInv, ContentOK, ContentKept, TermsKept,
         \A w \in Withdrawals, m \in Signatures :
           m = withdrawal'[w].message \/ m = withdrawal'[w].signature =>
             \/ m = withdrawal[w].message \/ m = withdrawal[w].signature
             \/ worker.pc = "answered" /\ w = worker.row /\ m = worker.signature
             \/ chain'[m].state # "unused" /\ Content(m)' = Pays(w)',
         \/ worker'.pc # "answered"
         \/ UNCHANGED worker
         \/ chain'[worker'.signature].state # "unused" /\ Content(worker.signature)' = Pays(worker.row)'
  PROVE  ContentOK'
<1>1. ASSUME NEW w \in Withdrawals, NEW m \in Signatures, Signed(m, w), withdrawal[w].status # "none"
      PROVE  chain'[m].state # "unused" /\ Content(m)' = Pays(w)'
  BY <1>1 DEF ContentKept, TermsKept, Signed
<1>2. worker.pc = "answered" =>
        /\ worker.row \in Withdrawals /\ worker.signature \in Signatures
        /\ withdrawal[worker.row].status = "dispatching" /\ Signed(worker.signature, worker.row)
  BY DEF WithdrawalInv, ClaimOK, ContentOK
<1>3. ASSUME NEW w \in Withdrawals, NEW m \in Signatures,
             m = withdrawal'[w].message \/ m = withdrawal'[w].signature
      PROVE  chain'[m].state # "unused" /\ Content(m)' = Pays(w)'
  <2>1. CASE m = withdrawal[w].message \/ m = withdrawal[w].signature
    <3>1. Signed(m, w) /\ withdrawal[w].status # "none"
      BY <2>1, RowsAssumption DEF ContentOK, WithdrawalInv, RowOK
    <3> QED BY <1>1, <3>1
  <2>2. CASE worker.pc = "answered" /\ w = worker.row /\ m = worker.signature
    BY <1>1, <1>2, <2>2
  <2> QED BY <1>3, <2>1, <2>2
<1>4. worker'.pc = "answered" =>
        chain'[worker'.signature].state # "unused" /\ Content(worker.signature)' = Pays(worker.row)'
  <2>1. CASE UNCHANGED worker /\ worker.pc = "answered"
    <3>1. PICK w \in Withdrawals, m \in Signatures :
            /\ w = worker.row /\ m = worker.signature /\ Signed(m, w) /\ withdrawal[w].status # "none"
      BY <1>2, <2>1
    <3>2. chain'[m].state # "unused" /\ Content(m)' = Pays(w)'
      BY <1>1, <3>1
    <3> QED BY <2>1, <3>1, <3>2 DEF Content, Pays
  <2> QED BY <2>1
<1> QED BY <1>3, <1>4 DEF ContentOK, Signed

\* A step in which the tick does not wait for an answer it had not got, and
\* which leaves the chain and what the rows name and pay alone.
LEMMA ContentUntouched ==
  ASSUME WithdrawalInv, ContentOK, UNCHANGED <<chain, destination>>,
         worker'.pc # "answered" \/ UNCHANGED worker,
         \A w \in Withdrawals :
           /\ withdrawal'[w].message = withdrawal[w].message
           /\ withdrawal'[w].signature = withdrawal[w].signature
           /\ withdrawal'[w].amount = withdrawal[w].amount
  PROVE  ContentOK'
<1>1. ContentKept
  BY DEF ContentKept, Content
<1>2. TermsKept
  BY DEF TermsKept, Pays
<1> QED BY <1>1, <1>2, ContentGoesOn

\* A step of a consumer.
LEMMA ConsumerContent ==
  ASSUME WithdrawalInv, ContentOK, ConsumerSteps
  PROVE  ContentOK'
<1>1. withdrawal \in [Withdrawals -> Withdrawal] /\ WithdrawalTypeOK
  BY DEF WithdrawalInv, TypeInv, TypeOK
<1>2. CASE Fund \/ \E a \in Accounts, wl \in Wallets : putConsumerWalletBinding(a, wl)
  <2>1. UNCHANGED <<chain, destination, worker, withdrawal>>
    BY <1>2 DEF Fund, DepositStep, createConsumerDepositIntent, DepositIntentExpires,
       confirmConsumerDeposit, createConsumerBalanceAdjustment, putConsumerWalletBinding,
       databaseVars, flowVars
  <2> QED BY <2>1, ContentUntouched
<1>3. ASSUME NEW w \in Withdrawals, NEW a \in Accounts, NEW n \in Transfers, RequestWithdrawal(w, a, n)
      PROVE  ContentOK'
  <2>1. /\ UNCHANGED <<worker, chain>> /\ withdrawal[w].status = "none"
        /\ destination' = [destination EXCEPT ![w] = wallet[a]]
        /\ withdrawal' = [withdrawal EXCEPT ![w] =
             [status |-> "queued", account |-> a, amount |-> n, fresh |-> FALSE,
              message |-> NoSignature, signature |-> NoSignature]]
    BY <1>3 DEF RequestWithdrawal, createConsumerWithdrawal
  <2>2. ContentKept
    BY <2>1 DEF ContentKept, Content
  <2>3. TermsKept
    BY <1>1, <2>1 DEF TermsKept, Pays, WithdrawalTypeOK
  <2>4. \A v \in Withdrawals, m \in Signatures :
          m = withdrawal'[v].message \/ m = withdrawal'[v].signature =>
            m = withdrawal[v].message \/ m = withdrawal[v].signature
    BY <1>1, <2>1, RowsAssumption
  <2> QED BY <2>1, <2>2, <2>3, <2>4, ContentGoesOn
<1>4. ASSUME NEW w \in Withdrawals, NEW m \in Signatures, PrepareWithdrawal(w, m)
      PROVE  ContentOK'
  <2>1. /\ UNCHANGED <<destination, worker>>
        /\ chain[m].state = "unused" \/ Content(m) = Pays(w)
        /\ chain' = [chain EXCEPT ![m] =
             [state |-> IF chain[m].state = "unused" THEN "signed" ELSE chain[m].state,
              to |-> destination[w], amount |-> withdrawal[w].amount]]
        /\ withdrawal' = [withdrawal EXCEPT ![w].status = "prepared", ![w].message = m, ![w].fresh = TRUE]
    BY <1>4 DEF PrepareWithdrawal, prepareConsumerWithdrawal, Bound, Pays, NewSignature
  <2>2. /\ chain'[m].state # "unused" /\ chain'[m].to = destination[w]
        /\ chain'[m].amount = withdrawal[w].amount
        /\ \A x \in Signatures : x # m => chain'[x] = chain[x]
    BY <1>1, <2>1 DEF WithdrawalTypeOK
  <2>3. /\ withdrawal'[w].message = m /\ withdrawal'[w].signature = withdrawal[w].signature
        /\ withdrawal'[w].amount = withdrawal[w].amount
        /\ \A v \in Withdrawals : v # w => withdrawal'[v] = withdrawal[v]
    BY <1>1, <2>1 DEF Withdrawal
  <2>4. ContentKept
    BY <2>1, <2>2 DEF ContentKept, Content, Pays
  <2>5. TermsKept
    BY <2>1, <2>3 DEF TermsKept, Pays
  <2>6. chain'[m].state # "unused" /\ Content(m)' = Pays(w)'
    BY <2>1, <2>2, <2>3 DEF Content, Pays
  <2>7. \A v \in Withdrawals, x \in Signatures :
          x = withdrawal'[v].message \/ x = withdrawal'[v].signature =>
            x = withdrawal[v].message \/ x = withdrawal[v].signature \/ (v = w /\ x = m)
    BY <2>3
  <2> QED BY <2>1, <2>4, <2>5, <2>6, <2>7, ContentGoesOn
<1>5. ASSUME NEW w \in Withdrawals, PreparationExpires(w) \/ CancelWithdrawal(w)
      PROVE  ContentOK'
  <2>1. UNCHANGED <<chain, destination, worker>>
    BY <1>5 DEF PreparationExpires, CancelWithdrawal, flowVars
  <2>2. \/ withdrawal' = [withdrawal EXCEPT ![w].fresh = FALSE]
        \/ withdrawal' = [withdrawal EXCEPT ![w].status = "cancelled"]
    BY <1>5 DEF PreparationExpires, CancelWithdrawal, PreparedWithdrawalExpires, cancelConsumerWithdrawal
  <2>3. \A v \in Withdrawals :
          /\ withdrawal'[v].message = withdrawal[v].message
          /\ withdrawal'[v].signature = withdrawal[v].signature
          /\ withdrawal'[v].amount = withdrawal[v].amount
    BY <1>1, <2>2 DEF Withdrawal
  <2> QED BY <2>1, <2>3, ContentUntouched
<1> QED BY <1>2, <1>3, <1>4, <1>5 DEF ConsumerSteps

\* A step of the submit route: it sends what was signed, and stores the
\* transaction that the row names.
LEMMA SubmitContent ==
  ASSUME WithdrawalInv, ContentOK, NEW r \in Submits, SubmitSteps(r)
  PROVE  ContentOK'
<1>1. withdrawal \in [Withdrawals -> Withdrawal] /\ WithdrawalTypeOK
  BY DEF WithdrawalInv, TypeInv, TypeOK
<1>2. CASE SubmitBroadcasts(r)
  <2>1. PICK m \in Signatures : m = submit[r].message
    BY <1>2, NamedRows DEF SubmitBroadcasts
  <2>2. /\ UNCHANGED <<withdrawal, destination, worker>>
        /\ chain' = [chain EXCEPT ![m].state = IF chain[m].state = "signed" THEN "sent" ELSE chain[m].state]
    BY <1>2, <2>1 DEF SubmitBroadcasts, databaseVars
  <2>3. ContentKept
    BY <1>1, <2>2 DEF ContentKept, Content, WithdrawalTypeOK, Transaction
  <2>4. TermsKept
    BY <2>2 DEF TermsKept, Pays
  <2> QED BY <2>2, <2>3, <2>4, ContentGoesOn
<1>3. CASE SubmitStores(r)
  <2>1. PICK w \in Withdrawals, m \in Signatures : w = submit[r].row /\ m = submit[r].message
    BY <1>3, NamedRows DEF SubmitStores
  <2>2. /\ UNCHANGED <<chain, destination, worker>> /\ withdrawal[w].message = m
        /\ withdrawal' = [withdrawal EXCEPT ![w].status = "submitted", ![w].signature = m]
    BY <1>3, <2>1 DEF SubmitStores, submitPreparedConsumerWithdrawal
  <2>3. ContentKept
    BY <2>2 DEF ContentKept, Content
  <2>4. \A v \in Withdrawals :
          /\ withdrawal'[v].message = withdrawal[v].message
          /\ withdrawal'[v].amount = withdrawal[v].amount
          /\ withdrawal'[v].signature = withdrawal[v].signature \/ withdrawal'[v].signature = withdrawal[v].message
    BY <1>1, <2>2 DEF Withdrawal
  <2>5. TermsKept
    BY <2>2, <2>4 DEF TermsKept, Pays
  <2> QED BY <2>2, <2>3, <2>4, <2>5, ContentGoesOn
<1>4. CASE ~SubmitBroadcasts(r) /\ ~SubmitStores(r)
  <2>1. UNCHANGED <<chain, destination, worker, withdrawal>>
    BY <1>4 DEF SubmitSteps, SubmitReads, SubmitRefused, SubmitDrifts, SubmitConflicts,
       DriftReadsCircuit, DriftHaltsCircuit, SubmitLost, databaseVars
  <2> QED BY <2>1, ContentUntouched
<1> QED BY <1>2, <1>3, <1>4

\* A step of the worker: it records the transaction it was answered.
LEMMA WorkerContent ==
  ASSUME WithdrawalInv, ContentOK, WorkerSteps \/ TickFails
  PROVE  ContentOK'
<1>1. withdrawal \in [Withdrawals -> Withdrawal] /\ worker \in Tick
  BY TickColumns DEF WithdrawalInv, TypeInv, TypeOK
<1>2. UNCHANGED <<chain, destination>>
  BY DEF WorkerSteps, TickFails, tick, RowPending, RowFinalized, RowReviewed, ReviewHaltsCircuit,
     ClaimQueued, TickEnds, CallDispatch, DispatchFails, RecordDispatch, ReviewClaimed
<1>3. worker'.pc # "answered"
  <2>1. CASE worker' = IdleTick
    BY <2>1 DEF IdleTick
  <2>2. CASE \E s : worker' = CheckedRow(s)
    BY <1>1, <2>2 DEF CheckedRow, Tick
  <2>3. CASE \E s, reason : worker' = [CheckedRow(s) EXCEPT !.pc = "halting", !.reason = reason]
    BY <1>1, <2>3 DEF CheckedRow, Tick
  <2>4. CASE tick \/ \E w \in Withdrawals : ClaimQueued(w)
    BY <1>1, <2>4 DEF tick, ClaimQueued, Tick
  <2>5. CASE RowPending \/ RowFinalized \/ RowReviewed \/ ReviewHaltsCircuit
    BY <2>1, <2>2, <2>3, <2>5 DEF RowPending, RowFinalized, RowReviewed, ReviewHaltsCircuit
  <2>6. CASE TickEnds \/ RecordDispatch \/ TickFails
    BY <2>1, <2>6 DEF TickEnds, RecordDispatch, TickFails
  <2>7. CASE CallDispatch \/ DispatchFails \/ ReviewClaimed
    BY <1>1, <2>7 DEF CallDispatch, DispatchFails, ReviewClaimed, Tick
  <2> QED BY <2>4, <2>5, <2>6, <2>7 DEF WorkerSteps
<1>4. CASE RecordDispatch
  <2>1. PICK w \in Withdrawals, m \in Signatures : w = worker.row /\ m = worker.signature
    BY <1>4, NamedRows DEF RecordDispatch
  <2>2. /\ worker.pc = "answered"
        /\ withdrawal' = [withdrawal EXCEPT ![w].status = "submitted", ![w].signature = m]
    BY <1>4, <2>1 DEF RecordDispatch, WithdrawalDispatched
  <2>3. ContentKept
    BY <1>2 DEF ContentKept, Content
  <2>4. \A v \in Withdrawals :
          /\ withdrawal'[v].message = withdrawal[v].message
          /\ withdrawal'[v].amount = withdrawal[v].amount
          /\ withdrawal'[v].signature = withdrawal[v].signature \/ (v = w /\ withdrawal'[v].signature = m)
    BY <1>1, <2>2 DEF Withdrawal
  <2>5. TermsKept
    BY <1>2, <2>4 DEF TermsKept, Pays
  <2> QED BY <1>3, <2>1, <2>2, <2>3, <2>4, <2>5, ContentGoesOn
<1>5. CASE ~RecordDispatch
  <2>1. \/ UNCHANGED withdrawal
        \/ \E w \in Withdrawals, status \in {"dispatching", "finalized", "failed_review"} :
             withdrawal' = [withdrawal EXCEPT ![w].status = status]
    <3>1. CASE RowFinalized \/ RowReviewed
      <4>1. Head(worker.rows).row \in Withdrawals
        BY <3>1, NamedRows DEF RowFinalized, RowReviewed, Row
      <4> QED BY <3>1, <4>1 DEF RowFinalized, RowReviewed, FinalizeWithdrawal
    <3>2. CASE ReviewClaimed
      <4>1. worker.row \in Withdrawals
        BY <3>2, NamedRows DEF ReviewClaimed
      <4> QED BY <3>2, <4>1 DEF ReviewClaimed, markWithdrawalReview
    <3>3. CASE \E w \in Withdrawals : ClaimQueued(w)
      BY <3>3 DEF ClaimQueued, ClaimWithdrawal
    <3>4. CASE tick \/ RowPending \/ ReviewHaltsCircuit \/ TickEnds \/ CallDispatch \/ DispatchFails \/ TickFails
      BY <3>4 DEF tick, RowPending, ReviewHaltsCircuit, TickEnds, CallDispatch, DispatchFails, TickFails,
         databaseVars
    <3> QED BY <1>5, <3>1, <3>2, <3>3, <3>4 DEF WorkerSteps
  <2>2. \A v \in Withdrawals :
          /\ withdrawal'[v].message = withdrawal[v].message
          /\ withdrawal'[v].signature = withdrawal[v].signature
          /\ withdrawal'[v].amount = withdrawal[v].amount
    BY <1>1, <2>1 DEF Withdrawal
  <2> QED BY <1>2, <1>3, <2>2, ContentUntouched
<1> QED BY <1>4, <1>5

\* The dispatch service pays with a new transaction, and the tick that
\* waits for it hears of that one; the chain decides about one that was sent.
LEMMA OutsideContent ==
  ASSUME WithdrawalInv, ContentOK, NEW m \in Signatures,
         \/ \E w \in Withdrawals : DispatchPays(w, m)
         \/ \E outcome \in {"landed", "failed"} : TransactionLands(m, outcome)
  PROVE  ContentOK'
<1>1. WithdrawalTypeOK /\ worker \in Tick
  BY TickColumns DEF WithdrawalInv
<1>2. UNCHANGED <<withdrawal, destination>>
  BY DEF DispatchPays, TransactionLands, databaseVars
<1>3. TermsKept
  BY <1>2 DEF TermsKept, Pays
<1>4. ASSUME NEW w \in Withdrawals, DispatchPays(w, m)
      PROVE  ContentOK'
  <2>1. /\ chain[m].state = "unused"
        /\ chain' = [chain EXCEPT ![m] =
             [state |-> "sent", to |-> destination[w], amount |-> withdrawal[w].amount]]
        /\ worker' = IF worker.pc = "calling" /\ worker.row = w
                     THEN [worker EXCEPT !.pc = "answered", !.signature = m] ELSE worker
    BY <1>4 DEF DispatchPays, NewSignature
  <2>2. /\ chain'[m].state = "sent" /\ chain'[m].to = destination[w] /\ chain'[m].amount = withdrawal[w].amount
        /\ \A x \in Signatures : x # m => chain'[x] = chain[x]
    BY <1>1, <2>1 DEF WithdrawalTypeOK
  <2>3. ContentKept
    BY <2>1, <2>2 DEF ContentKept, Content
  <2>4. chain'[m].state # "unused" /\ Content(m)' = Pays(w)'
    BY <1>2, <2>2 DEF Content, Pays
  <2>5. UNCHANGED worker \/ (worker'.signature = m /\ worker'.row = w)
    BY <1>1, <2>1 DEF Tick
  <2>6. \/ UNCHANGED worker
        \/ chain'[worker'.signature].state # "unused" /\ Content(worker.signature)' = Pays(worker.row)'
    BY <2>4, <2>5 DEF Content, Pays
  <2> QED BY <1>2, <1>3, <2>3, <2>6, ContentGoesOn
<1>5. ASSUME NEW outcome \in {"landed", "failed"}, TransactionLands(m, outcome)
      PROVE  ContentOK'
  <2>1. UNCHANGED worker /\ chain' = [chain EXCEPT ![m].state = outcome]
    BY <1>5 DEF TransactionLands
  <2>2. ContentKept
    BY <1>1, <2>1 DEF ContentKept, Content, WithdrawalTypeOK, Transaction
  <2> QED BY <1>2, <1>3, <2>1, <2>2, ContentGoesOn
<1> QED BY <1>4, <1>5

\* Every step preserves what is known of the transactions.
LEMMA ContentStep ==
  ASSUME WithdrawalInv, ContentOK, [WithdrawalNext]_withdrawalVars
  PROVE  ContentOK'
<1>1. CASE ConsumerSteps
  BY <1>1, ConsumerContent
<1>2. CASE \E r \in Submits : SubmitSteps(r)
  BY <1>2, SubmitContent
<1>3. CASE WorkerSteps \/ TickFails
  BY <1>3, WorkerContent
<1>4. CASE \E m \in Signatures :
          \/ \E w \in Withdrawals : DispatchPays(w, m)
          \/ \E outcome \in {"landed", "failed"} : TransactionLands(m, outcome)
  BY <1>4, OutsideContent
<1>5. CASE UNCHANGED withdrawalVars
  <2>1. UNCHANGED <<withdrawal, destination, worker, chain>>
    BY <1>5 DEF withdrawalVars, databaseVars, flowVars
  <2> QED BY <2>1, ContentUntouched
<1> QED BY <1>1, <1>2, <1>3, <1>4, <1>5 DEF WithdrawalNext

\* Rows name transactions that were signed for them, in every state.
LEMMA ContentInvariant == WithdrawalSpec => []ContentOK
<1>1. WithdrawalInit => ContentOK
  BY RowsAssumption DEF WithdrawalInit, Init, ContentOK, IdleTick
<1>2. WithdrawalInv /\ ContentOK /\ [WithdrawalNext]_withdrawalVars => ContentOK'
  BY ContentStep
<1> QED BY <1>1, <1>2, WithdrawalInvariant, PTL DEF WithdrawalSpec

-----------------------------------------------------------------------------
(* The theorems.                                                           *)

\* The flow implements the database: whatever the routes, the worker and
\* their crashes do, the tables see one statement at a time, so every
\* invariant of the database holds here too.
THEOREM WithdrawalsAreStatements == WithdrawalSpec => Spec
<1>1. WithdrawalInit => Init
  BY DEF WithdrawalInit
<1>2. WithdrawalInv /\ [WithdrawalNext]_withdrawalVars => [Next]_vars
  BY FlowStatement
<1> QED BY <1>1, <1>2, WithdrawalInvariant, PTL DEF WithdrawalSpec, Spec

\* Every variable of the flow keeps its type: the worker never writes a
\* reason the circuit does not know, and never queues a row that is absent.
THEOREM WithdrawalFlowTyped == WithdrawalSpec => []WithdrawalTypeOK
<1>1. WithdrawalInv => WithdrawalTypeOK
  BY DEF WithdrawalInv
<1> QED BY <1>1, WithdrawalInvariant, PTL

\* What a web route has broadcast the worker never hands to the dispatch
\* service, in either order.
THEOREM OneWayOut == WithdrawalSpec => []SingleChannel
<1>1. WithdrawalInv => SingleChannel
  BY RowsAssumption DEF WithdrawalInv, RowOK, SingleChannel
<1> QED BY <1>1, WithdrawalInvariant, PTL

\* Once the dispatch service was asked the withdrawal is never refunded.
THEOREM NoRefund == WithdrawalSpec => []DispatchedNeverRefunded
<1>1. WithdrawalInv => DispatchedNeverRefunded
  BY DEF WithdrawalInv, RowOK, DispatchedNeverRefunded
<1> QED BY <1>1, WithdrawalInvariant, PTL

\* A withdrawal called finalized was paid, by a transaction of its own.
THEOREM FinalizedPaid == WithdrawalSpec => []FinalizedWasPaid
<1>1. WithdrawalInv /\ ContentOK => FinalizedWasPaid
  BY DEF WithdrawalInv, RowOK, Paid, SignaturesDiffer, ContentOK, Signed, FinalizedWasPaid
<1> QED BY <1>1, WithdrawalInvariant, ContentInvariant, PTL

\* A broadcast that is not recorded halts trading, unless that run of the
\* route was lost.
THEOREM DriftHalted == WithdrawalSpec => []DriftHalts
<1>1. WithdrawalInv => DriftHalts
  BY DEF WithdrawalInv
<1> QED BY <1>1, WithdrawalInvariant, PTL

\* While no tick has failed, a withdrawal in review halts trading.
THEOREM ReviewHalted == WithdrawalSpec => []ReviewHalts
<1>1. WithdrawalInv => ReviewHalts
  BY DEF WithdrawalInv
<1> QED BY <1>1, WithdrawalInvariant, PTL

\* Whatever pays, fails or refunds a withdrawal, the balances are those of
\* the ledger, and the treasury owes what the ledger says.
THEOREM WithdrawalsKeepMoney ==
  WithdrawalSpec => [](BalanceAgreesWithLedger /\ TreasuryBacksLiabilities)
BY WithdrawalsAreStatements, LedgerAgrees, TreasuryBacks, PTL
=============================================================================
