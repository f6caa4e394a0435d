------------------------------ MODULE EvalTxn -------------------------------
(***************************************************************************)
(* envoyauth as a Go module: a program provides its own EvalContext, keeps *)
(* EvalResults and calls Eval on them, with a transaction it opened itself *)
(* (as check does in the plugin) or without one, in which case Eval opens  *)
(* and closes its own (envoyauth/evaluation.go, envoyauth/response.go).    *)
(*                                                                         *)
(* Each EvalResult is used by one goroutine, any number of times.  ExtAuthz*)
(* has what happens between the transactions; here are their life and the  *)
(* reader-writer lock of the store, on which a goroutine that takes a      *)
(* second read lock while a writer waits would block for ever.             *)
(***************************************************************************)
EXTENDS Integers, FiniteSets

CONSTANTS
  Results,    \* the EvalResults, one goroutine each
  MaxTxns,    \* bound: transactions opened for one EvalResult
  MaxWrites,  \* bound: write transactions
  Nil

Txns == Results \X (1 .. MaxTxns)

ASSUME TxnAssumption == MaxTxns \in Nat /\ MaxWrites \in Nat /\ Nil \notin Txns

VARIABLES
  pc,      \* "out", "getTxn" (the program's), "eval" (Eval's GetTxn), "run", "return"
  Txn,     \* the field Txn of each EvalResult
  held,    \* the transaction the program opened and has to close
  own,     \* the transaction Eval opened and has to close
  count,   \* transactions opened so far
  open,    \* the transactions that hold the store's read lock
  writer,  \* "idle", "open", "pending", "committed"
  writes   \* write transactions begun

vars == <<pc, Txn, held, own, count, open, writer, writes>>

Init ==
  /\ pc = [r \in Results |-> "out"]
  /\ Txn = [r \in Results |-> Nil]
  /\ held = [r \in Results |-> Nil] /\ own = [r \in Results |-> Nil]
  /\ count = [r \in Results |-> 0]
  /\ open = {} /\ writer = "idle" /\ writes = 0

Goto(r, l) == pc' = [pc EXCEPT ![r] = l]

-----------------------------------------------------------------------------
\* store.NewTransaction: a waiting writer keeps new readers out.
CanRLock == writer \in {"idle", "open"}

NewTxn(r) == <<r, count[r] + 1>>

\* GetTxn up to the assignment of its transaction to result.Txn.
Begin(r) ==
  /\ CanRLock
  /\ open' = open \cup {NewTxn(r)}
  /\ Txn' = [Txn EXCEPT ![r] = NewTxn(r)]
  /\ count' = [count EXCEPT ![r] = @ + 1]

\* The field keeps the transaction that was aborted.
M_Closer_KeepsField(r, t) ==
  /\ open' = open \ {t}
  /\ UNCHANGED Txn

\* The closer GetTxn returns.
Closer(r, t) ==
  /\ open' = open \ {t}
  /\ Txn' = [Txn EXCEPT ![r] = Nil]

\* The program calls GetTxn, at most until it holds one transaction.
CallGetTxn(r) ==
  /\ pc[r] = "out" /\ held[r] = Nil
  /\ count[r] < MaxTxns
  /\ Goto(r, "getTxn")
  /\ UNCHANGED <<Txn, held, own, count, open, writer, writes>>

\* ... and gets it, or the error of a store that cannot open one.
GetTxn(r) ==
  /\ pc[r] = "getTxn"
  /\ Goto(r, "out")
  /\ \/ /\ Begin(r)
        /\ held' = [held EXCEPT ![r] = NewTxn(r)]
     \/ UNCHANGED <<Txn, held, count, open>>
  /\ UNCHANGED <<own, writer, writes>>

\* The program closes its transaction.
Close(r) ==
  /\ pc[r] = "out" /\ held[r] # Nil
  /\ Closer(r, held[r])
  /\ held' = [held EXCEPT ![r] = Nil]
  /\ UNCHANGED <<pc, own, count, writer, writes>>

-----------------------------------------------------------------------------
\* Eval opens a transaction whether or not it was given one.
M_Eval_AlwaysOpens(r) ==
  /\ pc[r] = "out" /\ count[r] < MaxTxns
  /\ Goto(r, "eval")
  /\ UNCHANGED <<Txn, held, own, count, open, writer, writes>>

\* The program calls Eval: if result.Txn == nil
Eval(r) ==
  /\ pc[r] = "out"
  /\ count[r] < MaxTxns
  /\ Goto(r, IF Txn[r] = Nil THEN "eval" ELSE "run")
  /\ UNCHANGED <<Txn, held, own, count, open, writer, writes>>

\* Eval's own GetTxn, and the return when that fails.
EvalGetTxn(r) ==
  /\ pc[r] = "eval"
  /\ \/ /\ Begin(r)
        /\ own' = [own EXCEPT ![r] = NewTxn(r)]
        /\ Goto(r, "run")
     \/ /\ Goto(r, "out")
        /\ UNCHANGED <<Txn, own, count, open>>
  /\ UNCHANGED <<held, writer, writes>>

\* An error of getRevision or of the preparation leaves without the closer.
M_Run_LeaksOnError(r) ==
  /\ pc[r] = "run"
  /\ \/ Goto(r, "return") /\ UNCHANGED own
     \/ Goto(r, "out") /\ own' = [own EXCEPT ![r] = Nil]
  /\ UNCHANGED <<Txn, held, count, open, writer, writes>>

\* getRevision, constructPreparedQuery and the evaluation: with or without an
\* error, the way out is the same.
Run(r) ==
  /\ pc[r] = "run"
  /\ Goto(r, "return")
  /\ UNCHANGED <<Txn, held, own, count, open, writer, writes>>

\* defer txnClose(ctx, err): only of the transaction opened here.
EvalReturn(r) ==
  /\ pc[r] = "return"
  /\ Goto(r, "out")
  /\ IF own[r] # Nil
     THEN Closer(r, own[r]) /\ own' = [own EXCEPT ![r] = Nil]
     ELSE UNCHANGED <<Txn, own, open>>
  /\ UNCHANGED <<held, count, writer, writes>>

-----------------------------------------------------------------------------
BeginWrite ==
  /\ writer = "idle" /\ writes < MaxWrites
  /\ writer' = "open" /\ writes' = writes + 1
  /\ UNCHANGED <<pc, Txn, held, own, count, open>>

\* Commit: db.rmu.Lock() is called, granted when no reader is left, released.
CommitLock ==
  /\ writer = "open" /\ writer' = "pending"
  /\ UNCHANGED <<pc, Txn, held, own, count, open, writes>>

CommitStore ==
  /\ writer = "pending" /\ open = {}
  /\ writer' = "committed"
  /\ UNCHANGED <<pc, Txn, held, own, count, open, writes>>

CommitUnlock ==
  /\ writer = "committed" /\ writer' = "idle"
  /\ UNCHANGED <<pc, Txn, held, own, count, open, writes>>

-----------------------------------------------------------------------------
EvalStep(r) == Run(r) \/ EvalReturn(r)
OpenStep(r) == GetTxn(r) \/ EvalGetTxn(r)

Next ==
  \/ \E r \in Results :
       CallGetTxn(r) \/ Close(r) \/ Eval(r) \/ OpenStep(r) \/ EvalStep(r)
  \/ BeginWrite \/ CommitLock \/ CommitStore \/ CommitUnlock

\* A program closes what it opened some time; goroutines run; a lock that is free again
\* and again is obtained (Go's RWMutex hands it to waiting readers when a
\* writer unlocks).  Nobody has to call Eval, to open or to write; opening a
\* transaction is not assumed to fail.
Opens(r) == OpenStep(r) /\ open' # open

Spec ==
  /\ Init /\ [][Next]_vars
  /\ \A r \in Results :
       WF_vars(EvalStep(r)) /\ SF_vars(Opens(r)) /\ SF_vars(Close(r))
  /\ WF_vars(CommitStore) /\ WF_vars(CommitUnlock)

-----------------------------------------------------------------------------
OpenOf(r) == {t \in open : t[1] = r}

\* The field Txn never outlives its transaction: a later Eval with the same
\* EvalResult, and the decision log after it, find an open one or none.
NeverStale == \A r \in Results : Txn[r] # Nil => Txn[r] \in open

\* Every transaction has somebody who will close it: the program or the Eval
\* that opened it, and a goroutine never holds two, which could deadlock
\* with a writer between them.
OneOwner ==
  \A r \in Results :
    /\ OpenOf(r) \subseteq {held[r], own[r]}
    /\ Cardinality(OpenOf(r)) <= 1
    /\ pc[r] = "out" => own[r] = Nil

\* Nobody waits for ever: every Eval returns, also one that has to open its
\* transaction while writers come and go, and every writer that waits for the
\* lock gets it, because no transaction is forgotten.
NobodyIsStuck ==
  /\ \A r \in Results : pc[r] = "run" \/ pc[r] = "eval" ~> pc[r] = "out"
  /\ writer = "pending" ~> writer = "idle"
=============================================================================
