--------------------------- MODULE EvalTxnProofs ----------------------------
(***************************************************************************)
(* Proofs about EvalTxn, for any number of EvalResults, transactions and   *)
(* writers: the field Txn never outlives its transaction (NeverStale), and *)
(* every open transaction has one owner (OneOwner).                        *)
(*                                                                         *)
(* The inductive invariant says who owns what: what a result has open is   *)
(* the transaction of the program or that of Eval, never both, and the     *)
(* field holds that one; and it says where a goroutine must be to own one. *)
(***************************************************************************)
EXTENDS EvalTxn, FiniteSetTheorems, TLAPS

TxnsOf(r) == {r} \X (1 .. MaxTxns)

ProgramCounters == {"out", "getTxn", "eval", "run", "return"}

TypeInv ==
  /\ pc \in [Results -> ProgramCounters]
  /\ Txn \in [Results -> Txns \cup {Nil}]
  /\ held \in [Results -> Txns \cup {Nil}]
  /\ own \in [Results -> Txns \cup {Nil}]
  /\ count \in [Results -> 0 .. MaxTxns]
  /\ open \subseteq Txns

\* The transactions of one EvalResult.
Owned(r) ==
  /\ held[r] \in TxnsOf(r) \cup {Nil} /\ own[r] \in TxnsOf(r) \cup {Nil}
  /\ held[r] = Nil \/ own[r] = Nil
  /\ OpenOf(r) = {held[r], own[r]} \ {Nil}
  /\ Txn[r] = IF held[r] = Nil THEN own[r] ELSE held[r]
  /\ pc[r] \in {"out", "getTxn", "eval"} => own[r] = Nil
  /\ pc[r] \in {"getTxn", "eval"} => held[r] = Nil /\ count[r] < MaxTxns

Ownership == TypeInv /\ \A r \in Results : Owned(r)

-----------------------------------------------------------------------------
\* A transaction that GetTxn opens (envoyauth/response.go 66-87) is one of its
\* result, and is not nil.
LEMMA NewTxnIsOne ==
  ASSUME TypeInv, NEW r \in Results, count[r] < MaxTxns
  PROVE  /\ NewTxn(r) \in TxnsOf(r) /\ NewTxn(r) \in Txns
         /\ NewTxn(r) # Nil /\ count[r] + 1 \in 0 .. MaxTxns
<1>1. count[r] \in 0 .. MaxTxns
  BY DEF TypeInv
<1>2. count[r] + 1 \in 1 .. MaxTxns
  BY <1>1, TxnAssumption
<1> QED
  BY <1>2, TxnAssumption DEF NewTxn, TxnsOf, Txns

\* What a result has open does not change when transactions of other results
\* are opened or closed.
LEMMA OpenFrame ==
  ASSUME NEW r \in Results, NEW s \in Results, s # r, NEW t \in TxnsOf(r),
         open' = open \cup {t} \/ open' = open \ {t}
  PROVE  OpenOf(s)' = OpenOf(s)
<1>1. t[1] = r
  BY DEF TxnsOf
<1> QED
  BY <1>1 DEF OpenOf

\* A step of one goroutine that opens or closes only its own transactions leaves
\* the others' ownership alone.
LEMMA OwnedFrame ==
  ASSUME NEW s \in Results, Owned(s), OpenOf(s)' = OpenOf(s),
         pc'[s] = pc[s], Txn'[s] = Txn[s], held'[s] = held[s],
         own'[s] = own[s], count'[s] = count[s]
  PROVE  Owned(s)'
  BY DEF Owned, TxnsOf

\* The program's GetTxn (internal/internal.go 384): the new transaction is the
\* program's, or none was opened.
LEMMA GetTxnOwned ==
  ASSUME Ownership, NEW r \in Results, GetTxn(r)
  PROVE  Ownership'
<1> USE DEF Ownership
<1>a. pc[r] = "getTxn" /\ held[r] = Nil /\ own[r] = Nil /\ count[r] < MaxTxns
  BY DEF GetTxn, Owned
<1>1. CASE Begin(r) /\ held' = [held EXCEPT ![r] = NewTxn(r)]
  <2>1. NewTxn(r) \in TxnsOf(r) /\ NewTxn(r) \in Txns /\ NewTxn(r) # Nil /\ count[r] + 1 \in 0 .. MaxTxns
    BY <1>a, NewTxnIsOne
  <2>2. TypeInv'
    BY <1>1, <2>1 DEF TypeInv, GetTxn, Begin, Goto, ProgramCounters
  <2>3. ASSUME NEW s \in Results, s # r PROVE Owned(s)'
    <3>1. OpenOf(s)' = OpenOf(s)
      BY <1>1, <2>1, <2>3, OpenFrame DEF Begin
    <3> QED
      BY <1>1, <2>3, <3>1, OwnedFrame DEF GetTxn, Begin, Goto, TypeInv
  <2>4. Owned(r)'
    <3>1. OpenOf(r) = {}
      BY <1>a DEF Owned
    <3>2. OpenOf(r)' = {NewTxn(r)}
      BY <1>1, <2>1, <3>1 DEF OpenOf, Begin, TxnsOf
    <3>3. pc'[r] = "out" /\ own'[r] = Nil /\ held'[r] = NewTxn(r) /\ Txn'[r] = NewTxn(r)
      BY <1>1, <1>a DEF GetTxn, Begin, Goto, TypeInv
    <3> QED
      BY <2>1, <3>2, <3>3 DEF Owned, TxnsOf
  <2> QED
    BY <2>2, <2>3, <2>4
<1>2. CASE UNCHANGED <<Txn, held, count, open>>
  <2>1. TypeInv'
    BY <1>2 DEF TypeInv, GetTxn, Goto, ProgramCounters
  <2>2. ASSUME NEW s \in Results PROVE Owned(s)'
    BY <1>2, <1>a DEF GetTxn, Goto, Owned, OpenOf, TxnsOf, TypeInv
  <2> QED
    BY <2>1, <2>2
<1> QED
  BY <1>1, <1>2 DEF GetTxn

\* Eval's own GetTxn (envoyauth/evaluation.go 42-52): the new transaction is
\* Eval's, which then runs, or Eval returns without one.
LEMMA EvalGetTxnOwned ==
  ASSUME Ownership, NEW r \in Results, EvalGetTxn(r)
  PROVE  Ownership'
<1> USE DEF Ownership
<1>a. pc[r] = "eval" /\ held[r] = Nil /\ own[r] = Nil /\ count[r] < MaxTxns
  BY DEF EvalGetTxn, Owned
<1>1. CASE Begin(r) /\ own' = [own EXCEPT ![r] = NewTxn(r)] /\ Goto(r, "run")
  <2>1. NewTxn(r) \in TxnsOf(r) /\ NewTxn(r) \in Txns /\ NewTxn(r) # Nil /\ count[r] + 1 \in 0 .. MaxTxns
    BY <1>a, NewTxnIsOne
  <2>2. TypeInv'
    BY <1>1, <2>1 DEF TypeInv, EvalGetTxn, Begin, Goto, ProgramCounters
  <2>3. ASSUME NEW s \in Results, s # r PROVE Owned(s)'
    <3>1. OpenOf(s)' = OpenOf(s)
      BY <1>1, <2>1, <2>3, OpenFrame DEF Begin
    <3> QED
      BY <1>1, <2>3, <3>1, OwnedFrame DEF EvalGetTxn, Begin, Goto, TypeInv
  <2>4. Owned(r)'
    <3>1. OpenOf(r) = {}
      BY <1>a DEF Owned
    <3>2. OpenOf(r)' = {NewTxn(r)}
      BY <1>1, <2>1, <3>1 DEF OpenOf, Begin, TxnsOf
    <3>3. pc'[r] = "run" /\ held'[r] = Nil /\ own'[r] = NewTxn(r) /\ Txn'[r] = NewTxn(r)
      BY <1>1, <1>a DEF EvalGetTxn, Begin, Goto, TypeInv
    <3> QED
      BY <2>1, <3>2, <3>3 DEF Owned, TxnsOf
  <2> QED
    BY <2>2, <2>3, <2>4
<1>2. CASE Goto(r, "out") /\ UNCHANGED <<Txn, own, count, open>>
  <2>1. TypeInv'
    BY <1>2 DEF TypeInv, EvalGetTxn, Goto, ProgramCounters
  <2>2. ASSUME NEW s \in Results PROVE Owned(s)'
    BY <1>2, <1>a DEF EvalGetTxn, Goto, Owned, OpenOf, TxnsOf, TypeInv
  <2> QED
    BY <2>1, <2>2
<1> QED
  BY <1>1, <1>2 DEF EvalGetTxn

\* The closer (envoyauth/response.go 79-84), called by the program: nothing of
\* the result is open afterwards, and the field is nil.
LEMMA CloseOwned ==
  ASSUME Ownership, NEW r \in Results, Close(r)
  PROVE  Ownership'
<1> USE DEF Ownership
<1>1. pc[r] = "out" /\ held[r] \in TxnsOf(r) /\ own[r] = Nil /\ OpenOf(r) = {held[r]}
  BY DEF Close, Owned
<1>2. TypeInv'
  BY DEF TypeInv, Close, Closer
<1>3. ASSUME NEW s \in Results, s # r PROVE Owned(s)'
  <2>1. OpenOf(s)' = OpenOf(s)
    BY <1>1, <1>3, OpenFrame DEF Close, Closer
  <2> QED
    BY <1>3, <2>1, OwnedFrame DEF Close, Closer, TypeInv
<1>4. Owned(r)'
  <2>1. OpenOf(r)' = {}
    BY <1>1 DEF OpenOf, Close, Closer
  <2>2. pc'[r] = "out" /\ held'[r] = Nil /\ own'[r] = Nil /\ Txn'[r] = Nil
    BY <1>1 DEF Close, Closer, TypeInv
  <2> QED
    BY <2>1, <2>2 DEF Owned
<1> QED
  BY <1>2, <1>3, <1>4

\* The way out of Eval (envoyauth/evaluation.go 50): it closes the transaction
\* it opened, and leaves the program's alone.
LEMMA EvalReturnOwned ==
  ASSUME Ownership, NEW r \in Results, EvalReturn(r)
  PROVE  Ownership'
<1> USE DEF Ownership
<1>1. CASE own[r] # Nil
  <2>1. held[r] = Nil /\ own[r] \in TxnsOf(r) /\ OpenOf(r) = {own[r]}
    BY <1>1 DEF Owned
  <2>2. Closer(r, own[r]) /\ own' = [own EXCEPT ![r] = Nil]
    BY <1>1 DEF EvalReturn
  <2>3. TypeInv'
    BY <2>2 DEF TypeInv, EvalReturn, Closer, Goto, ProgramCounters
  <2>4. ASSUME NEW s \in Results, s # r PROVE Owned(s)'
    <3>1. OpenOf(s)' = OpenOf(s)
      BY <2>1, <2>2, <2>4, OpenFrame DEF Closer
    <3> QED
      BY <2>2, <2>4, <3>1, OwnedFrame DEF EvalReturn, Closer, Goto, TypeInv
  <2>5. Owned(r)'
    <3>1. OpenOf(r)' = {}
      BY <2>1, <2>2 DEF OpenOf, Closer
    <3>2. pc'[r] = "out" /\ held'[r] = Nil /\ own'[r] = Nil /\ Txn'[r] = Nil
      BY <2>1, <2>2 DEF EvalReturn, Closer, Goto, TypeInv
    <3> QED
      BY <3>1, <3>2 DEF Owned
  <2> QED
    BY <2>3, <2>4, <2>5
<1>2. CASE own[r] = Nil
  <2>1. UNCHANGED <<Txn, own, open, held, count>>
    BY <1>2 DEF EvalReturn
  <2>2. TypeInv'
    BY <2>1 DEF TypeInv, EvalReturn, Goto, ProgramCounters
  <2>3. ASSUME NEW s \in Results PROVE Owned(s)'
    BY <1>2, <2>1 DEF EvalReturn, Goto, Owned, OpenOf, TxnsOf, TypeInv
  <2> QED
    BY <2>2, <2>3
<1> QED
  BY <1>1, <1>2

\* The steps that open and close nothing: the calls of GetTxn and Eval, and the
\* evaluation itself.
LEMMA GotoOwned ==
  ASSUME Ownership, NEW r \in Results, CallGetTxn(r) \/ Eval(r) \/ Run(r)
  PROVE  Ownership'
<1> USE DEF Ownership
<1>1. TypeInv'
  BY DEF TypeInv, CallGetTxn, Eval, Run, Goto, ProgramCounters
<1>2. ASSUME NEW s \in Results PROVE Owned(s)'
  <2>1. CASE s # r
    BY <2>1 DEF CallGetTxn, Eval, Run, Goto, Owned, OpenOf, TxnsOf, TypeInv
  <2>2. CASE s = r /\ CallGetTxn(r)
    BY <2>2 DEF CallGetTxn, Goto, Owned, OpenOf, TxnsOf, TypeInv
  <2>3. CASE s = r /\ Eval(r)
    BY <2>3 DEF Eval, Goto, Owned, OpenOf, TxnsOf, TypeInv
  <2>4. CASE s = r /\ Run(r)
    BY <2>4 DEF Run, Goto, Owned, OpenOf, TxnsOf, TypeInv
  <2> QED
    BY <2>1, <2>2, <2>3, <2>4
<1> QED
  BY <1>1, <1>2

\* Ownership is an invariant.
LEMMA OwnershipInvariant == Spec => []Ownership
<1>1. Init => Ownership
  BY TxnAssumption DEF Init, Ownership, TypeInv, Owned, OpenOf, ProgramCounters
<1>2. Ownership /\ [Next]_vars => Ownership'
  <2> SUFFICES ASSUME Ownership, [Next]_vars PROVE Ownership'
    OBVIOUS
  <2>1. CASE UNCHANGED <<pc, Txn, held, own, count, open>>
    BY <2>1 DEF Ownership, TypeInv, Owned, OpenOf
  <2>2. ASSUME NEW r \in Results,
               CallGetTxn(r) \/ Close(r) \/ Eval(r) \/ OpenStep(r) \/ EvalStep(r)
        PROVE  Ownership'
    BY <2>2, GetTxnOwned, EvalGetTxnOwned, CloseOwned, EvalReturnOwned, GotoOwned
       DEF OpenStep, EvalStep
  <2> QED
    BY <2>1, <2>2 DEF Next, vars, BeginWrite, CommitLock, CommitStore, CommitUnlock
<1> QED
  BY <1>1, <1>2, PTL DEF Spec

\* The field Txn of an EvalResult never outlives its transaction, for any number
\* of results and transactions (envoyauth/evaluation.go 42: Eval trusts it).
THEOREM TxnNeverStale == Spec => []NeverStale
<1>1. Ownership => NeverStale
  BY DEF Ownership, Owned, OpenOf, NeverStale
<1> QED
  BY <1>1, OwnershipInvariant, PTL

\* Every open transaction has one owner who closes it, and no goroutine holds two
\* (envoyauth/evaluation.go 42-52, envoyauth/response.go 66-87).
THEOREM TxnHasOneOwner == Spec => []OneOwner
<1>1. Ownership => OneOwner
  <2> SUFFICES ASSUME Ownership, NEW r \in Results
               PROVE  /\ OpenOf(r) \subseteq {held[r], own[r]}
                      /\ Cardinality(OpenOf(r)) <= 1
                      /\ pc[r] = "out" => own[r] = Nil
    BY DEF OneOwner
  <2>1. OpenOf(r) \subseteq {held[r], own[r]} /\ (pc[r] = "out" => own[r] = Nil)
    BY DEF Ownership, Owned
  <2>2. OpenOf(r) = {} \/ \E t : OpenOf(r) = {t}
    BY DEF Ownership, Owned
  <2>3. Cardinality(OpenOf(r)) <= 1
    <3>1. CASE OpenOf(r) = {}
      <4>1. Cardinality({}) = 0
        BY FS_EmptySet
      <4> QED
        BY <3>1, <4>1
    <3>2. ASSUME NEW t, OpenOf(r) = {t} PROVE Cardinality(OpenOf(r)) <= 1
      <4>1. Cardinality({t}) = 1
        BY FS_Singleton
      <4> QED
        BY <3>2, <4>1
    <3> QED
      BY <2>2, <3>1, <3>2
  <2> QED
    BY <2>1, <2>3
<1> QED
  BY <1>1, OwnershipInvariant, PTL
=============================================================================
