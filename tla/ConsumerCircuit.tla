-------------------------- MODULE ConsumerCircuit --------------------------
(***************************************************************************)
(* The row pooled_trading of consumer_circuit_state, which stops new       *)
(* pooled orders.  The worker halts it with one statement that merges the  *)
(* reasons in the row; the web tier reads the row, merges in memory and    *)
(* writes the whole row back.                                              *)
(***************************************************************************)
EXTENDS Integers

VARIABLE circuit      \* [status, reasons]

\* The reasons that the modelled callers write.  recipient_binding_stale is
\* the worker's own: the web tier's type of reasons does not list it.
Reasons ==
  {"reconciliation_stale", "reconciliation_drift", "duplicate_settlement", "negative_balance",
   "execution_failure_rate", "recipient_binding_stale", "operator_halt"}

CircuitState == [status: {"open", "halted"}, reasons: SUBSET Reasons]

OpenCircuit == [status |-> "open", reasons |-> {}]

\* What haltConsumerCircuit writes, given the row it has read.
haltedState(read, reasons) == [status |-> "halted", reasons |-> read.reasons \cup reasons]

\* The worker's halt: read and write are one statement.
halt(reasons) == circuit' = haltedState(circuit, reasons)

putCircuit(state) == circuit' = state

\* The worker's resume, whoever has halted in the meantime.
resume == circuit' = OpenCircuit
=============================================================================
