----------------------------- MODULE LedgerProofs -----------------------------
(***************************************************************************)
(* What every implementation of the Ledger inherits: the primary chooses   *)
(* an operation once, so an operation that is in a key store twice must    *)
(* have been executed twice under one number.  The invariant says where    *)
(* the operations of a store come from: a number the node remembers to     *)
(* have executed, or one up to that of the snapshot it trusts.  That is    *)
(* kept by a node that takes on a snapshot only because everything it has  *)
(* executed is within its reach, and the snapshot is beyond that.          *)
(***************************************************************************)
EXTENDS Ledger, TLAPS

InStore(n, r) == \E i \in DOMAIN store[n] : store[n][i] = r

\* The node has executed the number, or trusts a snapshot that is not before it.
Past(n, s) == s \in executed[n] \/ s <= stable[n]

ChosenOnce ==
    \A s, t \in Numbers : chosen[s] # Nil /\ chosen[s] = chosen[t] => s = t

WithinReach ==
    \A n \in Nodes : ~halted[n] =>
        stable[n] <= reached[n] /\ \A s \in executed[n] : s <= reached[n]

StoreExecuted ==
    \A n \in Nodes : ~halted[n] =>
        \A i \in DOMAIN store[n] : \E s \in Numbers : chosen[s] = store[n][i] /\ Past(n, s)

SnapshotsBefore ==
    \A t \in taken : \A i \in DOMAIN t.snapshot :
        \E s \in Numbers : chosen[s] = t.snapshot[i] /\ s <= t.number

LedgerInv == LedgerTypeOK /\ ChosenOnce /\ WithinReach /\ StoreExecuted /\ SnapshotsBefore

\* An operation a node has applied, itself or as part of the snapshot it trusts.
AppliedAt(n, r) ==
    InStore(n, r) \/ \E s \in Numbers : chosen[s] = r /\ s <= stable[n]

-----------------------------------------------------------------------------
\* A number is an integer.
LEMMA NumbersType == \A s \in Numbers : s \in Nat
BY NumbersAssumption DEF Numbers

\* What is appended to a sequence becomes its last element, and moves no other.
LEMMA AppendedLast ==
    ASSUME NEW S, NEW seq \in Seq(S), NEW e \in S
    PROVE  /\ Append(seq, e) \in Seq(S) /\ DOMAIN seq \subseteq DOMAIN Append(seq, e)
           /\ \A i \in DOMAIN seq : Append(seq, e)[i] = seq[i]
           /\ \A i \in DOMAIN Append(seq, e) : i \in DOMAIN seq \/ Append(seq, e)[i] = e
           /\ Append(seq, e)[Len(Append(seq, e))] = e
           /\ \E i \in DOMAIN Append(seq, e) : Append(seq, e)[i] = e
<1>1. /\ Append(seq, e) \in Seq(S) /\ Len(Append(seq, e)) = Len(seq) + 1
      /\ DOMAIN seq = 1..Len(seq) /\ DOMAIN Append(seq, e) = 1..(Len(seq) + 1)
      /\ Len(seq) \in Nat
    OBVIOUS
<1>2. \A i \in 1..(Len(seq) + 1) : Append(seq, e)[i] = IF i <= Len(seq) THEN seq[i] ELSE e
    OBVIOUS
<1>3. \A i \in 1..(Len(seq) + 1) : i \in 1..Len(seq) \/ Append(seq, e)[i] = e
    BY <1>1, <1>2
<1>4. Append(seq, e)[Len(seq) + 1] = e /\ Len(seq) + 1 \in 1..(Len(seq) + 1)
    BY <1>1, <1>2
<1>5. \A i \in 1..Len(seq) : i \in 1..(Len(seq) + 1) /\ Append(seq, e)[i] = seq[i]
    BY <1>1, <1>2
<1>. QED
    BY <1>1, <1>3, <1>4, <1>5

-----------------------------------------------------------------------------
(* The invariant, step by step.  What has been chosen stays chosen. *)

\* The primary chooses a request that it has not chosen before.
LEMMA ChooseAtStep ==
    ASSUME LedgerInv, NEW n \in Nodes, NEW r \in Requests, NEW s \in Numbers,
           ChooseAt(n, r, s)
    PROVE  LedgerInv' /\ \A t \in Numbers : chosen[t] # Nil => chosen'[t] = chosen[t]
<1>1. LedgerTypeOK'
    BY DEF LedgerInv, LedgerTypeOK, ChooseAt, Choose
<1>2. \A t \in Numbers : chosen'[t] = IF t = s THEN r ELSE chosen[t]
    BY DEF LedgerInv, LedgerTypeOK, ChooseAt, Choose
<1>3. \A t \in Numbers : chosen[t] # Nil => chosen'[t] = chosen[t]
    BY <1>2 DEF ChooseAt, Choose
<1>4. ChosenOnce'
    BY <1>2 DEF LedgerInv, ChosenOnce, ChooseAt, Choose, IsChosen
<1>5. UNCHANGED <<executed, reached, stable, store, taken, halted>>
    BY DEF ChooseAt, Choose
<1>6. WithinReach'
    BY <1>5 DEF LedgerInv, WithinReach
<1>7. StoreExecuted'
    <2>1. ASSUME NEW m \in Nodes, NEW i \in DOMAIN store[m]
          PROVE  store[m][i] \in Requests
        BY DEF LedgerInv, LedgerTypeOK
    <2>. QED
        BY <1>3, <1>5, <2>1, NilAssumption DEF LedgerInv, StoreExecuted, Past
<1>8. SnapshotsBefore'
    <2>1. ASSUME NEW t \in taken, NEW i \in DOMAIN t.snapshot
          PROVE  t.snapshot[i] \in Requests
        BY DEF LedgerInv, LedgerTypeOK
    <2>. QED
        BY <1>3, <1>5, <2>1, NilAssumption DEF LedgerInv, SnapshotsBefore
<1>. QED
    BY <1>1, <1>3, <1>4, <1>6, <1>7, <1>8 DEF LedgerInv

\* A node learns a request.
LEMMA LearnStep ==
    ASSUME LedgerInv, NEW n \in Nodes, NEW s \in Numbers, Learn(n, s)
    PROVE  LedgerInv'
<1>1. LedgerTypeOK'
    BY DEF LedgerInv, LedgerTypeOK, Learn
<1>. QED
    BY <1>1 DEF LedgerInv, ChosenOnce, WithinReach, StoreExecuted, SnapshotsBefore, Past, Learn

\* What a node executes is appended to its store, if it knows it.
LEMMA ExecutionType ==
    ASSUME LedgerTypeOK, NEW n \in Nodes, NEW s \in Numbers, chosen[s] # Nil
    PROVE  /\ chosen[s] \in Requests /\ Execution(n, s) \in Seq(Requests)
           /\ Later(reached[n], s) \in Nat
           /\ Later(reached[n], s) >= reached[n] /\ Later(reached[n], s) >= s
<1>1. /\ chosen[s] \in Requests /\ s \in Nat /\ reached[n] \in Nat
      /\ store[n] \in Seq(Requests)
    BY NumbersType DEF LedgerTypeOK
<1>. QED
    BY <1>1 DEF Execution, Later

\* A node executes a number that is within its reach from then on.
LEMMA ExecuteStep ==
    ASSUME LedgerInv, NEW n \in Nodes, NEW s \in Numbers, Execute(n, s)
    PROVE  LedgerInv'
<1>. DEFINE now == Later(reached[n], s)
            applied == Execution(n, s)
<1>1. LedgerTypeOK /\ s \in Nat /\ reached[n] \in Nat /\ stable[n] \in Nat
      /\ store[n] \in Seq(Requests)
    BY NumbersType DEF LedgerInv, LedgerTypeOK
<1>2. /\ chosen[s] \in Requests /\ applied \in Seq(Requests) /\ now \in Nat
      /\ now >= reached[n] /\ now >= s
    BY <1>1, ExecutionType DEF Execute
<1>3. \A i \in DOMAIN applied : \/ i \in DOMAIN store[n] /\ applied[i] = store[n][i]
                                \/ applied[i] = chosen[s]
    BY <1>1, <1>2, AppendedLast DEF Execution
<1>4. /\ ~halted[n] /\ UNCHANGED <<chosen, known, stable, halted>>
      /\ executed' = [executed EXCEPT ![n] = @ \cup {s}]
      /\ reached' = [reached EXCEPT ![n] = now]
      /\ store' = [store EXCEPT ![n] = applied]
      /\ taken' \subseteq taken \cup {SnapshotAt(now, applied)}
    BY DEF Execute
<1>. HIDE DEF now, applied
<1>5. /\ executed'[n] = executed[n] \cup {s} /\ reached'[n] = now /\ store'[n] = applied
      /\ \A m \in Nodes \ {n} : /\ executed'[m] = executed[m] /\ reached'[m] = reached[m]
                                /\ store'[m] = store[m]
    BY <1>1, <1>4 DEF LedgerTypeOK
<1>6. LedgerTypeOK'
    <2>1. taken' \subseteq [number : Nat, snapshot : Seq(Requests)]
        BY <1>1, <1>2, <1>4 DEF LedgerTypeOK, SnapshotAt
    <2>. QED
        BY <1>1, <1>2, <1>4, <2>1 DEF LedgerTypeOK
<1>7. ChosenOnce'
    BY <1>4 DEF LedgerInv, ChosenOnce
<1>8. WithinReach'
    <2>1. /\ stable[n] <= now /\ \A t \in executed[n] \cup {s} : t <= now
        BY <1>1, <1>2, <1>4, NumbersType DEF LedgerInv, WithinReach, LedgerTypeOK
    <2>. QED
        BY <1>4, <1>5, <2>1 DEF LedgerInv, WithinReach
<1>9. ASSUME NEW i \in DOMAIN applied
      PROVE  \E t \in Numbers : chosen[t] = applied[i] /\ (t \in executed'[n] \/ t <= stable[n])
    <2>1. CASE i \in DOMAIN store[n] /\ applied[i] = store[n][i]
        BY <1>4, <1>5, <2>1 DEF LedgerInv, StoreExecuted, Past
    <2>2. CASE applied[i] = chosen[s]
        BY <1>5, <2>2
    <2>. QED
        BY <1>3, <2>1, <2>2
<1>10. StoreExecuted'
    <2>1. SUFFICES ASSUME NEW m \in Nodes, ~halted[m], NEW i \in DOMAIN store'[m]
                   PROVE  \E t \in Numbers : chosen'[t] = store'[m][i] /\ Past(m, t)'
        BY <1>4 DEF StoreExecuted
    <2>2. CASE m = n
        BY <1>4, <1>5, <1>9, <2>1, <2>2 DEF Past
    <2>3. CASE m # n
        BY <1>4, <1>5, <2>1, <2>3 DEF LedgerInv, StoreExecuted, Past
    <2>. QED
        BY <2>2, <2>3
<1>11. SnapshotsBefore'
    <2>1. SUFFICES ASSUME NEW t \in taken', NEW i \in DOMAIN t.snapshot
                   PROVE  \E u \in Numbers : chosen[u] = t.snapshot[i] /\ u <= t.number
        BY <1>4 DEF SnapshotsBefore
    <2>2. CASE t \in taken
        BY <2>1, <2>2 DEF LedgerInv, SnapshotsBefore
    <2>3. CASE t = SnapshotAt(now, applied)
        <3>1. t.snapshot = applied /\ t.number = now
            BY <2>3 DEF SnapshotAt
        <3>2. PICK u \in Numbers : chosen[u] = applied[i] /\ (u \in executed'[n] \/ u <= stable[n])
            BY <1>9, <2>1, <3>1
        <3>3. u <= now
            <4>1. stable'[n] <= reached'[n] /\ \A v \in executed'[n] : v <= reached'[n]
                BY <1>4, <1>8 DEF WithinReach
            <4>. QED
                BY <1>1, <1>2, <1>4, <1>5, <3>2, <4>1, NumbersType
        <3>. QED
            BY <3>1, <3>2, <3>3
    <2>. QED
        BY <1>4, <2>2, <2>3
<1>. QED
    BY <1>6, <1>7, <1>8, <1>10, <1>11 DEF LedgerInv

\* A snapshot that a node takes on is beyond its reach, and what it forgets is not.
LEMMA StabiliseStep ==
    ASSUME LedgerInv, NEW n \in Nodes, NEW t \in taken, Stabilise(n, t)
    PROVE  /\ LedgerInv'
           /\ \A s \in Numbers : Past(n, s) => Past(n, s)'
           /\ store'[n] # store[n] => \A s \in Numbers : Past(n, s) => s <= stable'[n]
<1>1. /\ LedgerTypeOK /\ t.number \in Nat /\ t.snapshot \in Seq(Requests)
      /\ reached[n] \in Nat /\ stable[n] \in Nat
    BY DEF LedgerInv, LedgerTypeOK
<1>2. PICK forgotten \in SUBSET {s \in Numbers : s <= t.number} :
         /\ known' = [known EXCEPT ![n] = @ \ forgotten]
         /\ executed' = [executed EXCEPT ![n] = @ \ forgotten]
    BY DEF Stabilise
<1>3. /\ ~halted[n] /\ t.number >= stable[n] /\ UNCHANGED <<chosen, taken, halted>>
      /\ stable' = [stable EXCEPT ![n] = t.number]
      /\ reached' = [reached EXCEPT ![n] = Later(@, t.number)]
      /\ store' = [store EXCEPT ![n] = IF reached[n] < t.number THEN t.snapshot ELSE @]
    BY DEF Stabilise
<1>4. /\ executed'[n] = executed[n] \ forgotten /\ stable'[n] = t.number
      /\ reached'[n] = Later(reached[n], t.number)
      /\ store'[n] = (IF reached[n] < t.number THEN t.snapshot ELSE store[n])
      /\ \A m \in Nodes \ {n} : /\ executed'[m] = executed[m] /\ stable'[m] = stable[m]
                                /\ reached'[m] = reached[m] /\ store'[m] = store[m]
    BY <1>1, <1>2, <1>3 DEF LedgerTypeOK
<1>5. Later(reached[n], t.number) \in Nat /\ Later(reached[n], t.number) >= reached[n]
      /\ Later(reached[n], t.number) >= t.number
    BY <1>1 DEF Later
<1>6. LedgerTypeOK'
    <2>1. known' \in [Nodes -> SUBSET Numbers] /\ executed' \in [Nodes -> SUBSET Numbers]
        BY <1>1, <1>2 DEF LedgerTypeOK
    <2>2. /\ reached' \in [Nodes -> Nat] /\ stable' \in [Nodes -> Nat]
          /\ store' \in [Nodes -> Seq(Requests)]
        BY <1>1, <1>3, <1>5 DEF LedgerTypeOK
    <2>. QED
        BY <1>1, <1>3, <2>1, <2>2 DEF LedgerTypeOK
<1>7. stable[n] <= reached[n] /\ \A s \in executed[n] : s <= reached[n]
    BY <1>3 DEF LedgerInv, WithinReach
<1>8. WithinReach'
    <2>1. \A s \in executed'[n] : s <= reached'[n]
        BY <1>1, <1>4, <1>5, <1>7, NumbersType DEF LedgerTypeOK
    <2>. QED
        BY <1>3, <1>4, <1>5, <2>1 DEF LedgerInv, WithinReach
<1>9. \A s \in Numbers : Past(n, s) => Past(n, s)'
    <2>1. SUFFICES ASSUME NEW s \in Numbers, Past(n, s), s \notin executed'[n]
                   PROVE  s <= t.number
        BY <1>4 DEF Past
    <2>2. s \in Nat
        BY NumbersType
    <2>. QED
        BY <1>1, <1>3, <1>4, <2>1, <2>2 DEF Past
<1>10. reached[n] < t.number => \A s \in Numbers : Past(n, s) => s <= t.number
    BY <1>1, <1>7, NumbersType DEF Past
<1>11. StoreExecuted'
    <2>1. SUFFICES ASSUME NEW m \in Nodes, ~halted[m], NEW i \in DOMAIN store'[m]
                   PROVE  \E s \in Numbers : chosen[s] = store'[m][i] /\ Past(m, s)'
        BY <1>3 DEF StoreExecuted
    <2>2. CASE m # n
        BY <1>4, <2>1, <2>2 DEF LedgerInv, StoreExecuted, Past
    <2>3. CASE m = n /\ reached[n] < t.number
        BY <1>4, <2>1, <2>3 DEF LedgerInv, SnapshotsBefore, Past
    <2>4. CASE m = n /\ ~(reached[n] < t.number)
        BY <1>4, <1>9, <2>1, <2>4 DEF LedgerInv, StoreExecuted
    <2>. QED
        BY <2>2, <2>3, <2>4
<1>12. ChosenOnce' /\ SnapshotsBefore'
    BY <1>3 DEF LedgerInv, ChosenOnce, SnapshotsBefore
<1>. QED
    BY <1>4, <1>6, <1>8, <1>9, <1>10, <1>11, <1>12 DEF LedgerInv

\* Nothing is said of a node that has stopped, but for its types.
LEMMA HaltStep ==
    ASSUME LedgerInv, NEW n \in Nodes, Halt(n)
    PROVE  LedgerInv'
<1>1. /\ halted' = [halted EXCEPT ![n] = TRUE] /\ UNCHANGED <<chosen, store, taken>>
      /\ \A m \in Nodes \ {n} : UNCHANGED <<known[m], executed[m], reached[m], stable[m]>>
    BY DEF Halt
<1>2. \A m \in Nodes : ~halted'[m] => ~halted[m] /\ m \in Nodes \ {n}
    BY <1>1 DEF LedgerInv, LedgerTypeOK
<1>3. LedgerTypeOK'
    BY DEF LedgerInv, LedgerTypeOK, Halt
<1>. QED
    BY <1>1, <1>2, <1>3 DEF LedgerInv, ChosenOnce, WithinReach, StoreExecuted,
        SnapshotsBefore, Past

\* Before anything is chosen.
LEMMA LedgerInvInit == LedgerInit => LedgerInv
<1>1. LedgerInit => LedgerTypeOK
    BY DEF LedgerInit, LedgerTypeOK
<1>. QED
    BY <1>1 DEF LedgerInit, LedgerInv, ChosenOnce, WithinReach, StoreExecuted, SnapshotsBefore

\* Every step preserves the invariant.
LEMMA LedgerInvNext ==
    ASSUME LedgerInv, UNCHANGED ledger \/ LedgerNext
    PROVE  LedgerInv'
<1>1. CASE UNCHANGED ledger
    BY <1>1 DEF ledger, LedgerInv, LedgerTypeOK, ChosenOnce, WithinReach, StoreExecuted,
        SnapshotsBefore, Past
<1>. QED
    BY <1>1, ChooseAtStep, LearnStep, ExecuteStep, StabiliseStep, HaltStep DEF LedgerNext

\* What a node has in its key store has been chosen, and executed, or is in a
\* snapshot that it trusts; every number has one operation, and each operation
\* one number.
THEOREM LedgerInvariant == LedgerSpec => []LedgerInv
<1>1. LedgerInv /\ [UNCHANGED ledger \/ LedgerNext]_ledger => LedgerInv'
    BY LedgerInvNext
<1>. QED
    BY <1>1, LedgerInvInit, PTL DEF LedgerSpec

-----------------------------------------------------------------------------
(* What a node has applied it keeps, or has in the snapshot it trusts. *)

\* A step in which no node stops.
GoesOn ==
    \/ UNCHANGED ledger
    \/ \E n \in Nodes, r \in Requests, s \in Numbers : ChooseAt(n, r, s)
    \/ \E n \in Nodes, s \in Numbers : Learn(n, s)
    \/ \E n \in Nodes, s \in Numbers : Execute(n, s)
    \/ \E n \in Nodes, t \in taken : Stabilise(n, t)

StaysApplied == \A n \in Nodes, r \in Requests : AppliedAt(n, r) => AppliedAt(n, r)'

\* What counts for StaysApplied.
LEMMA StaysAppliedStep ==
    ASSUME \A s \in Numbers : chosen[s] # Nil => chosen'[s] = chosen[s],
           \A n \in Nodes, s \in Numbers : s <= stable[n] => s <= stable'[n],
           \A n \in Nodes, r \in Requests : InStore(n, r) => AppliedAt(n, r)'
    PROVE  StaysApplied
BY NilAssumption DEF StaysApplied, AppliedAt

\* The execution of a number whose request is known puts it into the store, and
\* takes nothing out of that.
LEMMA ExecuteApplies ==
    ASSUME LedgerTypeOK, NEW n \in Nodes, NEW s \in Numbers, Execute(n, s)
    PROVE  /\ \A m \in Nodes, r \in Requests : InStore(m, r) => InStore(m, r)'
           /\ s \in known[n] => InStore(n, chosen[s])'
<1>1. chosen[s] \in Requests /\ store[n] \in Seq(Requests) /\ Execution(n, s) \in Seq(Requests)
    BY ExecutionType DEF LedgerTypeOK, Execute
<1>2. /\ store'[n] = Execution(n, s) /\ UNCHANGED chosen
      /\ \A m \in Nodes \ {n} : store'[m] = store[m]
    BY DEF LedgerTypeOK, Execute
<1>3. /\ DOMAIN store[n] \subseteq DOMAIN Execution(n, s)
      /\ \A i \in DOMAIN store[n] : Execution(n, s)[i] = store[n][i]
      /\ s \in known[n] => \E i \in DOMAIN Execution(n, s) : Execution(n, s)[i] = chosen[s]
    BY <1>1, AppendedLast DEF Execution
<1>. QED
    BY <1>2, <1>3 DEF InStore

\* A snapshot replaces a store only if it is beyond all the node has executed.
LEMMA AppliedStays ==
    ASSUME LedgerInv, GoesOn
    PROVE  StaysApplied
<1>1. CASE UNCHANGED ledger
    BY <1>1 DEF ledger, StaysApplied, AppliedAt, InStore
<1>2. ASSUME NEW n \in Nodes, NEW r \in Requests, NEW s \in Numbers, ChooseAt(n, r, s)
      PROVE  StaysApplied
    <2>1. UNCHANGED <<stable, store>>
        BY <1>2 DEF ChooseAt, Choose
    <2>. QED
        BY <1>2, <2>1, ChooseAtStep, StaysAppliedStep DEF AppliedAt, InStore
<1>3. ASSUME NEW n \in Nodes, NEW s \in Numbers, Learn(n, s)
      PROVE  StaysApplied
    BY <1>3, StaysAppliedStep DEF Learn, AppliedAt, InStore
<1>4. ASSUME NEW n \in Nodes, NEW s \in Numbers, Execute(n, s)
      PROVE  StaysApplied
    <2>1. LedgerTypeOK /\ UNCHANGED <<chosen, stable>>
        BY <1>4 DEF LedgerInv, Execute
    <2>. QED
        BY <1>4, <2>1, ExecuteApplies, StaysAppliedStep DEF AppliedAt
<1>5. ASSUME NEW n \in Nodes, NEW t \in taken, Stabilise(n, t)
      PROVE  StaysApplied
    <2>1. LedgerTypeOK /\ ~halted[n] /\ UNCHANGED chosen
        BY <1>5 DEF LedgerInv, Stabilise
    <2>2. /\ stable'[n] = t.number /\ t.number >= stable[n]
          /\ t.number \in Nat /\ stable[n] \in Nat
          /\ \A m \in Nodes \ {n} : stable'[m] = stable[m] /\ store'[m] = store[m]
        BY <1>5, <2>1 DEF LedgerTypeOK, Stabilise
    <2>3. \A m \in Nodes, s \in Numbers : s <= stable[m] => s <= stable'[m]
        BY <2>2, NumbersType
    <2>4. ASSUME NEW m \in Nodes, NEW r \in Requests, InStore(m, r)
          PROVE  AppliedAt(m, r)'
        <3>1. CASE store'[m] = store[m]
            BY <2>4, <3>1 DEF AppliedAt, InStore
        <3>2. CASE store'[m] # store[m]
            <4>1. m = n
                BY <2>2, <3>2
            <4>2. PICK i \in DOMAIN store[n] : store[n][i] = r
                BY <2>4, <4>1 DEF InStore
            <4>3. PICK s \in Numbers : chosen[s] = r /\ Past(n, s)
                BY <2>1, <4>2 DEF LedgerInv, StoreExecuted
            <4>4. s <= stable'[n]
                BY <1>5, <3>2, <4>1, <4>3, StabiliseStep
            <4>. QED
                BY <2>1, <4>1, <4>3, <4>4 DEF AppliedAt
        <3>. QED
            BY <3>1, <3>2
    <2>. QED
        BY <2>1, <2>3, <2>4, StaysAppliedStep
<1>. QED
    BY <1>1, <1>2, <1>3, <1>4, <1>5 DEF GoesOn

-----------------------------------------------------------------------------
(* What a key store applies. *)

\* An operation that is appended to a store that has it is that of the number of
\* the snapshot the node trusts.
LEMMA AppliesOnceStep ==
    ASSUME LedgerInv, UNCHANGED ledger \/ LedgerNext, NEW n \in Nodes,
           store'[n] # store[n], stable'[n] = stable[n],
           InStore(n, store'[n][Len(store'[n])])
    PROVE  stable[n] \in Numbers /\ chosen[stable[n]] = store'[n][Len(store'[n])]
<1>1. /\ LedgerTypeOK /\ reached[n] \in Nat /\ stable[n] \in Nat
      /\ store[n] \in Seq(Requests)
    BY DEF LedgerInv, LedgerTypeOK
<1>2. \E s \in Numbers : Execute(n, s)
    <2>1. PICK m \in Nodes : \/ \E s \in Numbers : Execute(m, s)
                             \/ \E t \in taken : Stabilise(m, t)
        BY DEF LedgerNext, ledger, ChooseAt, Choose, Learn, Halt
    <2>2. store'[n] # store[n] => m = n
        BY <1>1, <2>1 DEF LedgerTypeOK, Execute, Stabilise
    <2>3. ASSUME NEW t \in taken, Stabilise(n, t)
          PROVE  FALSE
        <3>1. stable'[n] = t.number /\ reached[n] < t.number
            BY <1>1, <2>3 DEF LedgerTypeOK, Stabilise
        <3>2. stable[n] <= reached[n]
            BY <2>3 DEF LedgerInv, WithinReach, Stabilise
        <3>. QED
            BY <1>1, <3>1, <3>2
    <2>. QED
        BY <2>1, <2>2, <2>3
<1>3. PICK s \in Numbers : Execute(n, s)
    BY <1>2
<1>. DEFINE r == store'[n][Len(store'[n])]
<1>4. chosen[s] \in Requests /\ store'[n] = Execution(n, s)
    BY <1>1, <1>3, ExecutionType DEF LedgerTypeOK, Execute
<1>5. store'[n] = Append(store[n], chosen[s])
    BY <1>4 DEF Execution
<1>6. r = chosen[s]
    BY <1>1, <1>4, <1>5, AppendedLast
<1>7. PICK i \in DOMAIN store[n] : store[n][i] = r
    BY DEF InStore
<1>8. PICK t \in Numbers : chosen[t] = r /\ Past(n, t)
    BY <1>3, <1>7 DEF LedgerInv, StoreExecuted, Execute
<1>9. t = s
    BY <1>4, <1>6, <1>8, NilAssumption DEF LedgerInv, ChosenOnce
<1>10. s = stable[n]
    <2>1. s <= stable[n] /\ s >= stable[n] /\ s \in Nat
        BY <1>3, <1>8, <1>9, NumbersType DEF Past, Execute, MayExecute
    <2>. QED
        BY <1>1, <2>1
<1>. QED
    BY <1>6, <1>10

\* Until it takes on another snapshot, no node applies an operation that its key
\* store has, but for the one of the snapshot's own number, which the snapshot
\* holds and MayExecute lets pass.
THEOREM LedgerAppliesOnce ==
    LedgerSpec =>
        [][\A n \in Nodes :
              /\ store'[n] # store[n] /\ stable'[n] = stable[n]
              /\ InStore(n, store'[n][Len(store'[n])])
              => stable[n] \in Numbers /\ chosen[stable[n]] = store'[n][Len(store'[n])]]_ledger
<1>1. LedgerInv /\ [UNCHANGED ledger \/ LedgerNext]_ledger =>
          [\A n \in Nodes :
              /\ store'[n] # store[n] /\ stable'[n] = stable[n]
              /\ InStore(n, store'[n][Len(store'[n])])
              => stable[n] \in Numbers /\ chosen[stable[n]] = store'[n][Len(store'[n])]]_ledger
    BY AppliesOnceStep
<1>. QED
    BY <1>1, LedgerInvariant, PTL DEF LedgerSpec
=============================================================================
