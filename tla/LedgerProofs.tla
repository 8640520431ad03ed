---------------------------- MODULE LedgerProofs ----------------------------
(***************************************************************************)
(* Proofs about Ledger, for any processes, calls and retry limit.          *)
(***************************************************************************)
EXTENDS Ledger, FiniteSetTheorems, SequenceTheorems, TLAPS

-----------------------------------------------------------------------------
(* The inductive invariant, one named part per idea. *)

\* A process settles only what was called, and runs an append only for such a call.
Queued ==
  \A w \in Writers : /\ settled[w] <= called[w]
                     /\ pc[w] # "idle" => settled[w] < called[w]

\* The seqs are an initial segment.
Contiguous == \E n \in Nat : DOMAIN rows = 0..(n - 1)

\* Under the lock there is one transaction, and what it read is still the head.
Exclusive ==
  lockable =>
    /\ \A v, w \in InTransaction : v = w
    /\ \A w \in Writers : pc[w] = "insert" => NextSeq(w) \notin DOMAIN rows

\* Only settled calls are in the table or resolved, so the running one is new.
StoredSettled ==
  /\ \A seq \in DOMAIN rows : rows[seq].event.call <= settled[rows[seq].event.writer]
  /\ \A e \in acked : e.call <= settled[e.writer]

IInv == TypeOK /\ Queued /\ Contiguous /\ Exclusive /\ ChainVerifies
          /\ StoredSettled /\ AckedIsStored

-----------------------------------------------------------------------------
\* The initial state satisfies the invariant.
LEMMA InitInductive == Init => IInv
<1> SUFFICES ASSUME Init
             PROVE  IInv
  OBVIOUS
<1>1. DOMAIN rows = {} /\ {} = 0..(0 - 1)
  BY DEF Init, NoRows
<1>2. TypeOK
  BY <1>1, LedgerAssumption DEF Init, TypeOK, Heads
<1>3. Contiguous
  BY <1>1 DEF Contiguous
<1>4. Queued /\ Exclusive /\ ChainVerifies /\ StoredSettled /\ AckedIsStored
  BY <1>1 DEF Init, Queued, Exclusive, InTransaction, ChainVerifies, StoredSettled,
              AckedIsStored
<1> QED  BY <1>2, <1>3, <1>4 DEF IInv

\* What an insert does to the table: one row, at its end, linked to the last one.
LEMMA InsertAtEnd ==
  ASSUME IInv, NEW w \in Writers, Insert(w)
  PROVE  /\ NextSeq(w) \in Nat /\ NextSeq(w) \notin DOMAIN rows
         /\ DOMAIN rows = 0..(NextSeq(w) - 1) /\ DOMAIN rows' = 0..NextSeq(w)
         /\ \A i \in DOMAIN rows : rows'[i] = rows[i]
         /\ rows'[NextSeq(w)] = Row(NextSeq(w), Running(w), head[w].hash)
         /\ rows'[NextSeq(w)].event = Running(w)
         /\ head[w].hash = IF NextSeq(w) = 0 THEN GENESIS ELSE rows[NextSeq(w) - 1].hash
         /\ Running(w) \in Events
<1> DEFINE seq == NextSeq(w)
<1>1. PICK n \in Nat : DOMAIN rows = 0..(n - 1)
  BY DEF IInv, Contiguous
<1>2. pc[w] = "insert" /\ seq \notin DOMAIN rows /\ StoreRow(w)
  BY DEF Insert
<1>3. \/ head[w] = EmptyHead
      \/ head[w].seq \in DOMAIN rows /\ head[w].hash = rows[head[w].seq].hash
  BY DEF IInv, TypeOK, Heads
<1>4. seq = n /\ seq \in Nat
  BY <1>1, <1>2, <1>3 DEF EmptyHead, NextSeq
<1>5. head[w].hash = IF seq = 0 THEN GENESIS ELSE rows[seq - 1].hash
  <2>1. CASE head[w] = EmptyHead
    BY <2>1 DEF EmptyHead, NextSeq
  <2>2. CASE head[w].seq \in DOMAIN rows /\ head[w].hash = rows[head[w].seq].hash
    <3>1. head[w].seq = seq - 1 /\ seq # 0
      BY <1>1, <2>2 DEF NextSeq
    <3> QED  BY <2>2, <3>1
  <2> QED  BY <1>3, <2>1, <2>2
<1>6. /\ DOMAIN rows' = DOMAIN rows \union {seq}
      /\ \A i \in DOMAIN rows : rows'[i] = rows[i]
      /\ rows'[seq] = Row(seq, Running(w), head[w].hash)
  BY <1>2 DEF StoreRow
<1>7. DOMAIN rows \union {seq} = 0..seq
  BY <1>1, <1>4
<1>8. Running(w) \in Events
  BY <1>2, LedgerAssumption DEF Running, Events, IInv, TypeOK, Queued
<1>9. Row(seq, Running(w), head[w].hash).event = Running(w)
  BY DEF Row
<1> QED  BY <1>1, <1>2, <1>4, <1>5, <1>6, <1>7, <1>8, <1>9

-----------------------------------------------------------------------------
\* What every step but an insert leaves alone.
LEMMA QuietStep ==
  ASSUME IInv, NEW w \in Writers,
         Call(w) \/ Begin(w) \/ TakeLock(w) \/ ReadHead(w) \/ Collide(w) \/ Abort(w) \/ Restart(w)
  PROVE  /\ UNCHANGED <<lockable, rows, acked>>
         /\ \A v \in Writers :
              /\ settled'[v] \in 0..Calls /\ settled'[v] >= settled[v]
              /\ settled'[v] <= called'[v] /\ called'[v] \in 0..Calls
              /\ pc'[v] # "idle" => settled'[v] < called'[v]
<1> USE LedgerAssumption DEF IInv, TypeOK, Queued, Settle
<1>1. CASE Call(w)
  BY <1>1 DEF Call
<1>2. CASE Begin(w) \/ TakeLock(w) \/ ReadHead(w)
  BY <1>2 DEF Begin, TakeLock, ReadHead
<1>3. CASE Collide(w)
  BY <1>3 DEF Collide
<1>4. CASE Abort(w)
  BY <1>4 DEF Abort
<1>5. CASE Restart(w)
  BY <1>5 DEF Restart
<1> QED  BY <1>1, <1>2, <1>3, <1>4, <1>5

\* Of these steps only ReadHead brings a transaction to its insert, with the head it read.
LEMMA QuietExclusive ==
  ASSUME IInv, NEW w \in Writers,
         Call(w) \/ Begin(w) \/ TakeLock(w) \/ ReadHead(w) \/ Collide(w) \/ Abort(w) \/ Restart(w)
  PROVE  Exclusive'
<1> USE DEF IInv, TypeOK, Settle
<1>1. UNCHANGED <<lockable, rows>>
  BY QuietStep
<1>2. CASE ReadHead(w)
  <2>1. /\ pc[w] = "read" /\ pc' = [pc EXCEPT ![w] = "insert"]
        /\ \A v \in Writers : v # w => head'[v] = head[v]
    BY <1>2 DEF ReadHead
  <2>2. \/ head'[w] = EmptyHead /\ DOMAIN rows = {}
        \/ \E seq \in DOMAIN rows :
             IsLast(seq) /\ head'[w] = [seq |-> seq, hash |-> rows[seq].hash]
    BY <1>2 DEF ReadHead
  <2>3. head'[w].seq + 1 \notin DOMAIN rows
    <3>1. CASE head'[w] = EmptyHead /\ DOMAIN rows = {}
      BY <3>1
    <3>2. ASSUME NEW seq \in DOMAIN rows, IsLast(seq),
                 head'[w] = [seq |-> seq, hash |-> rows[seq].hash]
          PROVE  head'[w].seq + 1 \notin DOMAIN rows
      <4>1. head'[w].seq = seq
        BY <3>2
      <4> QED  BY <3>2, <4>1 DEF IsLast
    <3> QED  BY <2>2, <3>1, <3>2
  <2> QED  BY <1>1, <2>1, <2>3 DEF Exclusive, InTransaction, NextSeq
<1>3. CASE TakeLock(w)
  BY <1>1, <1>3 DEF TakeLock, Exclusive, InTransaction, NextSeq
<1>4. CASE Call(w) \/ Begin(w)
  BY <1>1, <1>4 DEF Call, Begin, Exclusive, InTransaction, NextSeq
<1>5. CASE Collide(w) \/ Abort(w) \/ Restart(w)
  <2>1. /\ UNCHANGED head
        /\ \A v \in Writers : pc'[v] = pc[v] \/ pc'[v] \in {"idle", "lock"}
    BY <1>5 DEF Collide, Abort, Restart
  <2> QED  BY <1>1, <2>1 DEF Exclusive, InTransaction, NextSeq
<1> QED  BY <1>2, <1>3, <1>4, <1>5

\* Every step but an insert keeps the types.
LEMMA QuietTyped ==
  ASSUME IInv, NEW w \in Writers,
         Call(w) \/ Begin(w) \/ TakeLock(w) \/ ReadHead(w) \/ Collide(w) \/ Abort(w) \/ Restart(w)
  PROVE  TypeOK'
<1> USE LedgerAssumption DEF IInv, TypeOK, Settle
<1>1. UNCHANGED <<lockable, rows, acked>> /\ Heads' = Heads
  BY QuietStep DEF Heads
<1>2. CASE Call(w)
  BY <1>1, <1>2 DEF Call
<1>3. CASE Begin(w) \/ TakeLock(w)
  BY <1>1, <1>3 DEF Begin, TakeLock
<1>4. CASE ReadHead(w)
  <2>1. head' \in [Writers -> Heads]
    BY <1>4 DEF ReadHead, Heads
  <2> QED  BY <1>1, <1>4, <2>1 DEF ReadHead
<1>5. CASE Collide(w)
  <2>1. settled' \in [Writers -> 0..Calls]
    BY <1>5 DEF Collide, Queued
  <2>2. retry' \in [Writers -> 0..MaxAppendRetries - 1]
    BY <1>5 DEF Collide
  <2> QED  BY <1>1, <1>5, <2>1, <2>2 DEF Collide
<1>6. CASE Abort(w)
  <2>1. settled' \in [Writers -> 0..Calls]
    BY <1>6 DEF Abort, Queued
  <2> QED  BY <1>1, <1>6, <2>1 DEF Abort
<1>7. CASE Restart(w)
  BY <1>1, <1>7 DEF Restart
<1> QED  BY <1>2, <1>3, <1>4, <1>5, <1>6, <1>7

-----------------------------------------------------------------------------
\* An insert keeps the types.
LEMMA InsertTyped ==
  ASSUME IInv, NEW w \in Writers, Insert(w)
  PROVE  TypeOK'
<1>0. TypeOK /\ Queued /\ Contiguous /\ Exclusive /\ StoredSettled /\ AckedIsStored
  BY DEF IInv
<1> USE <1>0 DEF TypeOK
<1>1. /\ DOMAIN rows' \subseteq Nat
      /\ \A seq \in DOMAIN rows' : rows'[seq].event \in Events
  <2>1. \A seq \in DOMAIN rows' : seq \in DOMAIN rows \/ seq = NextSeq(w)
    BY InsertAtEnd
  <2>2. rows'[NextSeq(w)].event = Running(w)
    BY InsertAtEnd
  <2> QED  BY <2>1, <2>2, InsertAtEnd
<1>2. Heads \subseteq Heads'
  BY InsertAtEnd DEF Heads
<1>3. settled' \in [Writers -> 0..Calls]
  BY LedgerAssumption DEF Insert, Settle, Queued
<1>4. acked' \subseteq Events
  BY InsertAtEnd DEF Insert
<1>5. pc' \in [Writers -> {"idle", "lock", "read", "insert"}]
  BY DEF Insert, Settle
<1> QED  BY <1>1, <1>2, <1>3, <1>4, <1>5 DEF Insert

\* An insert keeps the queues, the gapless seqs and the exclusion under the lock.
LEMMA InsertQueued ==
  ASSUME IInv, NEW w \in Writers, Insert(w)
  PROVE  Queued' /\ Contiguous' /\ Exclusive'
<1>0. TypeOK /\ Queued /\ Contiguous /\ Exclusive /\ StoredSettled /\ AckedIsStored
  BY DEF IInv
<1> USE <1>0 DEF TypeOK
<1>1. Queued'
  BY DEF Insert, Settle, Queued
<1>2. Contiguous'
  <2>1. NextSeq(w) + 1 \in Nat /\ DOMAIN rows' = 0..((NextSeq(w) + 1) - 1)
    BY InsertAtEnd
  <2> QED  BY <2>1 DEF Contiguous
<1>3. Exclusive'
  <2>1. lockable => \A v \in Writers : pc'[v] = "insert" => FALSE
    BY DEF Insert, Settle, Exclusive, InTransaction
  <2>2. \A v \in InTransaction' : v \in InTransaction
    BY DEF Insert, Settle, InTransaction
  <2> QED  BY <2>1, <2>2 DEF Exclusive, Insert
<1> QED  BY <1>1, <1>2, <1>3

\* An insert links its row to the last one, so the chain still verifies.
LEMMA InsertVerifies ==
  ASSUME IInv, NEW w \in Writers, Insert(w)
  PROVE  ChainVerifies'
<1> DEFINE seq == NextSeq(w)
<1>1. ASSUME NEW i \in DOMAIN rows
      PROVE  /\ i # 0 => i - 1 \in DOMAIN rows'
             /\ rows'[i].prevHash = IF i = 0 THEN GENESIS ELSE rows'[i - 1].hash
             /\ rows'[i].hash = Hash(i, rows'[i].event, rows'[i].prevHash)
  <2>1. /\ i # 0 => i - 1 \in DOMAIN rows
        /\ rows[i].prevHash = IF i = 0 THEN GENESIS ELSE rows[i - 1].hash
        /\ rows[i].hash = Hash(i, rows[i].event, rows[i].prevHash)
    BY DEF IInv, ChainVerifies
  <2> QED  BY <2>1, InsertAtEnd
<1>2. /\ seq # 0 => seq - 1 \in DOMAIN rows /\ rows'[seq - 1] = rows[seq - 1]
      /\ rows'[seq].prevHash = IF seq = 0 THEN GENESIS ELSE rows'[seq - 1].hash
      /\ rows'[seq].hash = Hash(seq, rows'[seq].event, rows'[seq].prevHash)
  <2>1. seq # 0 => seq - 1 \in DOMAIN rows
    BY InsertAtEnd
  <2>2. seq # 0 => rows'[seq - 1] = rows[seq - 1]
    BY <2>1, InsertAtEnd
  <2>3. rows'[seq] = Row(seq, Running(w), head[w].hash)
    BY InsertAtEnd
  <2>4. head[w].hash = IF seq = 0 THEN GENESIS ELSE rows[seq - 1].hash
    BY InsertAtEnd
  <2> QED  BY <2>1, <2>2, <2>3, <2>4 DEF Row
<1>3. \A i \in DOMAIN rows' : i \in DOMAIN rows \/ i = seq
  BY InsertAtEnd
<1>4. DOMAIN rows \subseteq DOMAIN rows'
  BY InsertAtEnd
<1> QED  BY <1>1, <1>2, <1>3, <1>4 DEF ChainVerifies

\* What an insert acknowledges it has stored, after all earlier calls of its process.
LEMMA InsertStored ==
  ASSUME IInv, NEW w \in Writers, Insert(w)
  PROVE  StoredSettled' /\ AckedIsStored'
<1>0. TypeOK /\ Queued /\ Contiguous /\ Exclusive /\ StoredSettled /\ AckedIsStored
  BY DEF IInv
<1> USE <1>0 DEF TypeOK
<1>1. /\ settled' = [settled EXCEPT ![w] = @ + 1]
      /\ acked' \in {acked, acked \union {Running(w)}}
  BY DEF Insert, Settle
<1>2. Running(w).writer = w /\ Running(w).call = settled'[w]
  BY <1>1 DEF Running
<1>3. \A v \in Writers : settled[v] \in Int /\ settled'[v] >= settled[v]
  BY <1>1, LedgerAssumption
<1>4. \A e \in Events : e.writer \in Writers /\ e.call \in Int
  BY LedgerAssumption DEF Events
<1>5. \A i \in DOMAIN rows' :
        (i \in DOMAIN rows /\ rows'[i] = rows[i]) \/ rows'[i].event = Running(w)
  BY InsertAtEnd
<1>6. StoredSettled'
  <2>1. \A e \in Events : e.call <= settled[e.writer] => e.call <= settled'[e.writer]
    <3> SUFFICES ASSUME NEW e \in Events, e.call <= settled[e.writer]
                 PROVE  e.call <= settled'[e.writer]
      OBVIOUS
    <3>1. /\ e.writer \in Writers /\ e.call \in Int
          /\ settled[e.writer] \in Int /\ settled'[e.writer] \in Int
      BY <1>1, <1>3, <1>4, LedgerAssumption
    <3> QED  BY <1>3, <3>1
  <2>2. settled'[w] \in Int
    BY <1>1, <1>3
  <2> QED  BY <1>1, <1>2, <1>5, <2>1, <2>2 DEF StoredSettled
<1>7. AckedIsStored'
  <2>1. NextSeq(w) \in DOMAIN rows' /\ rows'[NextSeq(w)].event = Running(w)
    BY InsertAtEnd
  <2>2. \A i \in DOMAIN rows : i \in DOMAIN rows' /\ rows'[i] = rows[i]
    BY InsertAtEnd
  <2> QED  BY <1>1, <2>1, <2>2 DEF AckedIsStored
<1> QED  BY <1>6, <1>7

-----------------------------------------------------------------------------
(* The theorems. *)

\* Every step keeps the invariant.
LEMMA StepInductive == IInv /\ [Next]_vars => IInv'
<1> SUFFICES ASSUME IInv, [Next]_vars
             PROVE  IInv'
  OBVIOUS
<1>1. CASE UNCHANGED vars
  <2>1. Heads' = Heads
    BY <1>1 DEF vars, Heads
  <2> QED
    BY <1>1, <2>1 DEF vars, IInv, TypeOK, Queued, Contiguous, Exclusive, InTransaction, NextSeq,
       ChainVerifies, StoredSettled, AckedIsStored
<1>2. ASSUME NEW w \in Writers, Insert(w)
      PROVE  IInv'
  BY <1>2, InsertTyped, InsertQueued, InsertVerifies, InsertStored DEF IInv
<1>3. ASSUME NEW w \in Writers,
             Call(w) \/ Begin(w) \/ TakeLock(w) \/ ReadHead(w) \/ Collide(w) \/ Abort(w) \/ Restart(w)
      PROVE  IInv'
  <2>0. /\ UNCHANGED <<rows, acked>>
        /\ \A v \in Writers :
             /\ settled'[v] \in 0..Calls /\ settled'[v] >= settled[v]
             /\ settled'[v] <= called'[v]
             /\ pc'[v] # "idle" => settled'[v] < called'[v]
    BY <1>3, QuietStep
  <2>1. Queued' /\ Contiguous' /\ ChainVerifies' /\ AckedIsStored'
    BY <2>0 DEF IInv, Queued, Contiguous, ChainVerifies, AckedIsStored
  <2>2. StoredSettled'
    <3>1. \A e \in Events : e.call <= settled[e.writer] => e.call <= settled'[e.writer]
      <4> SUFFICES ASSUME NEW e \in Events, e.call <= settled[e.writer]
                   PROVE  e.call <= settled'[e.writer]
        OBVIOUS
      <4>1. e.writer \in Writers /\ e.call \in Int /\ settled[e.writer] \in Int
        BY LedgerAssumption DEF Events, IInv, TypeOK
      <4>2. settled'[e.writer] \in Int /\ settled'[e.writer] >= settled[e.writer]
        BY <2>0, <4>1, LedgerAssumption
      <4> QED  BY <4>1, <4>2
    <3> QED  BY <2>0, <3>1 DEF IInv, TypeOK, StoredSettled
  <2> QED  BY <1>3, <2>1, <2>2, QuietTyped, QuietExclusive DEF IInv
<1> QED  BY <1>1, <1>2, <1>3 DEF Next, Proceed

\* The inductive invariant holds in every reachable state of the ledger.
THEOREM Inductive == Spec => []IInv
BY InitInductive, StepInductive, PTL DEF Spec

\* Every variable keeps its type, for any number of processes, calls and retries.
THEOREM TypeCorrect == Spec => []TypeOK
BY Inductive, PTL DEF IInv

\* The persisted chain verifies at every moment.
THEOREM ChainAlwaysVerifies == Spec => []ChainVerifies
BY Inductive, PTL DEF IInv

\* With the advisory lock no append collides, so none is rejected for contention.
THEOREM LockExcludes == Spec => []NoLostRace
<1>1. IInv => NoLostRace
  BY DEF IInv, Exclusive, NoLostRace
<1> QED  BY <1>1, Inductive, PTL

\* An append that resolved is never lost.
THEOREM AckedStays == Spec => []AckedIsStored
BY Inductive, PTL DEF IInv

-----------------------------------------------------------------------------
(* The persisted ledger implements LedgerSpec. *)

\* The log of a table of n rows.
LEMMA LogShape ==
  ASSUME TypeOK, NEW n \in Nat, DOMAIN rows = 0..(n - 1)
  PROVE  /\ LogOf \in Seq(Events) /\ Len(LogOf) = n
         /\ \A i \in 1..n : LogOf[i] = rows[i - 1].event
<1>1. Cardinality(DOMAIN rows) = n
  BY FS_Interval
<1>2. LogOf = [i \in 1..n |-> rows[i - 1].event]
  BY <1>1 DEF LogOf
<1>3. \A i \in 1..n : i - 1 \in DOMAIN rows
  OBVIOUS
<1>4. \A i \in 1..n : rows[i - 1].event \in Events
  BY <1>3 DEF TypeOK
<1> QED  BY <1>2, <1>4

\* An insert is an append of the running call.
LEMMA InsertAppends ==
  ASSUME IInv, IInv', NEW w \in Writers, Insert(w)
  PROVE  Log!AppendEvent(Running(w))
<1> DEFINE n == NextSeq(w)
           e == Running(w)
<1>1. /\ n \in Nat /\ DOMAIN rows = 0..(n - 1) /\ DOMAIN rows' = 0..n
      /\ \A i \in DOMAIN rows : rows'[i] = rows[i]
      /\ rows'[n].event = e /\ e \in Events
  BY InsertAtEnd
<1>2. /\ LogOf \in Seq(Events) /\ Len(LogOf) = n
      /\ \A i \in 1..n : LogOf[i] = rows[i - 1].event
  BY <1>1, LogShape DEF IInv
<1>3. /\ LogOf' \in Seq(Events) /\ Len(LogOf') = n + 1
      /\ \A i \in 1..(n + 1) : LogOf'[i] = rows'[i - 1].event
  <2>1. Cardinality(DOMAIN rows') = n + 1
    BY <1>1, FS_Interval
  <2>2. LogOf' = [i \in 1..(n + 1) |-> rows'[i - 1].event]
    BY <2>1 DEF LogOf
  <2>3. \A i \in 1..(n + 1) : i - 1 \in DOMAIN rows'
    BY <1>1
  <2>4. \A i \in 1..(n + 1) : rows'[i - 1].event \in Events
    BY <2>3 DEF IInv, TypeOK
  <2>5. n + 1 \in Nat
    BY <1>1
  <2> HIDE DEF n, e
  <2>6. LogOf' \in Seq(Events) /\ Len(LogOf') = n + 1
    BY <2>2, <2>4, <2>5
  <2> QED  BY <2>2, <2>6
<1>4. /\ Append(LogOf, e) \in Seq(Events) /\ Len(Append(LogOf, e)) = n + 1
      /\ \A i \in 1..n : Append(LogOf, e)[i] = LogOf[i]
      /\ Append(LogOf, e)[n + 1] = e
  BY <1>1, <1>2, AppendProperties
<1>5. \A i \in 1..(n + 1) : LogOf'[i] = Append(LogOf, e)[i]
  <2>1. ASSUME NEW i \in 1..n
        PROVE  LogOf'[i] = Append(LogOf, e)[i]
    <3>1. i - 1 \in DOMAIN rows
      BY <1>1
    <3> QED  BY <1>1, <1>2, <1>3, <1>4, <3>1
  <2>2. LogOf'[n + 1] = Append(LogOf, e)[n + 1]
    BY <1>1, <1>3, <1>4
  <2>3. \A i \in 1..(n + 1) : i \in 1..n \/ i = n + 1
    BY <1>1
  <2> HIDE DEF n, e
  <2> QED  BY <2>1, <2>2, <2>3
<1>6. LogOf' = Append(LogOf, e)
  BY <1>3, <1>4, <1>5, SeqEqual
<1>7. ASSUME NEW i \in 1..Len(LogOf), LogOf[i].writer = e.writer
      PROVE  LogOf[i].call < e.call
  <2>1. i - 1 \in DOMAIN rows /\ LogOf[i] = rows[i - 1].event
    BY <1>1, <1>2
  <2>2. rows[i - 1].event.call <= settled[rows[i - 1].event.writer]
    BY <2>1 DEF IInv, StoredSettled
  <2>3. e.writer = w /\ e.call = settled[w] + 1
    BY DEF Running
  <2>4. settled[w] \in Int /\ rows[i - 1].event.call \in Int
    BY <2>1, LedgerAssumption DEF IInv, TypeOK, Events
  <2> QED  BY <1>7, <2>1, <2>2, <2>3, <2>4
<1> QED  BY <1>6, <1>7 DEF Log!AppendEvent

\* What the persisted ledger does is what the in-process one does in one step.
THEOREM Implementation == Spec => ImplementsLog
<1>1. Init => Log!Init
  <2> SUFFICES ASSUME Init
               PROVE  LogOf = <<>>
    BY DEF Log!Init
  <2>1. DOMAIN rows = 0..(0 - 1)
    BY DEF Init, NoRows
  <2>2. TypeOK
    BY InitInductive DEF IInv
  <2>3. LogOf \in Seq(Events) /\ Len(LogOf) = 0
    BY <2>1, <2>2, LogShape
  <2> QED  BY <2>3, EmptySeq
<1>2. IInv /\ IInv' /\ [Next]_vars => [Log!Next]_LogOf
  <2> SUFFICES ASSUME IInv, IInv', [Next]_vars
               PROVE  [Log!Next]_LogOf
    OBVIOUS
  <2>1. CASE UNCHANGED vars
    BY <2>1 DEF vars, LogOf
  <2>2. ASSUME NEW w \in Writers, Insert(w)
        PROVE  Log!Next
    <3>1. Running(w) \in Events
      BY <2>2, InsertAtEnd
    <3> QED  BY <2>2, <3>1, InsertAppends DEF Log!Next, Log!Events, Events
  <2>3. ASSUME NEW w \in Writers,
               Call(w) \/ Begin(w) \/ TakeLock(w) \/ ReadHead(w) \/ Collide(w) \/ Abort(w) \/ Restart(w)
        PROVE  LogOf' = LogOf
    <3>1. rows' = rows
      BY <2>3, QuietStep
    <3> QED  BY <3>1 DEF LogOf
  <2> QED  BY <2>1, <2>2, <2>3 DEF Next, Proceed
<1> QED  BY <1>1, <1>2, Inductive, PTL DEF Spec, ImplementsLog, Log!Spec
=============================================================================
