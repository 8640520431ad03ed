------------------------------- MODULE Ledger -------------------------------
(***************************************************************************)
(* The persisted ledger: processes (the API, the worker) that append to    *)
(* one hash chain in Postgres.                                             *)
(*                                                                         *)
(* In a process, PersistedLedgerPort lets one append through at a time, in *)
(* the order of the calls.  LedgerRepository.append then runs one          *)
(* transaction: take the advisory lock, read the head, insert the next     *)
(* row, commit.  seq is the primary key, so an insert on a taken seq fails *)
(* and the append starts over, MaxAppendRetries times at most.  On a       *)
(* backend without the lock only the key separates the writers.            *)
(*                                                                         *)
(* An insert is visible when its transaction commits, and a conflicting    *)
(* insert waits for that: insert and commit are one step here.  An entry's *)
(* content is the call that made it, and its hash a free term of its       *)
(* content and the previous hash.                                          *)
(***************************************************************************)
EXTENDS Integers, FiniteSets

CONSTANTS
  Writers,           \* processes with a LedgerPort
  Calls,             \* how many appends a process makes at most
  MaxAppendRetries

ASSUME LedgerAssumption ==
  /\ Calls \in Nat
  /\ MaxAppendRetries \in Nat \ {0}

Events == [writer : Writers, call : 1..Calls]

VARIABLES
  lockable,   \* does the backend take the advisory lock
  rows,       \* the table ledger_entries: seq -> row
  called,     \* per process: appends called so far
  settled,    \* per process: calls whose promise has settled, in order
  pc,         \* per process: where its running append stands
  retry,      \* per process: the loop counter of its running append
  head,       \* per process: the head its transaction read
  acked       \* the calls that resolved

vars == <<lockable, rows, called, settled, pc, retry, head, acked>>

GENESIS == <<>>
Hash(seq, event, prevHash) == <<seq, event, prevHash>>
Row(seq, event, prevHash) ==
  [event |-> event, prevHash |-> prevHash, hash |-> Hash(seq, event, prevHash)]

NoRows == [seq \in {} |-> {}]
EmptyHead == [seq |-> -1, hash |-> GENESIS]

Init ==
  /\ lockable \in BOOLEAN
  /\ rows = NoRows
  /\ called = [w \in Writers |-> 0]
  /\ settled = [w \in Writers |-> 0]
  /\ pc = [w \in Writers |-> "idle"]
  /\ retry = [w \in Writers |-> 0]
  /\ head = [w \in Writers |-> EmptyHead]
  /\ acked = {}

\* The call the mutex of process w has let through.
Running(w) == [writer |-> w, call |-> settled[w] + 1]

InTransaction == {w \in Writers : pc[w] \in {"read", "insert"}}

\* ORDER BY seq DESC LIMIT 1
IsLast(seq) == seq \in DOMAIN rows /\ \A other \in DOMAIN rows : other <= seq

-----------------------------------------------------------------------------
Call(w) ==
  /\ called[w] < Calls
  /\ called' = [called EXCEPT ![w] = @ + 1]
  /\ UNCHANGED <<lockable, rows, settled, pc, retry, head, acked>>

\* The bug of a promise chain that does not survive a rejection.
BeginAfterSuccess(w) ==
  /\ pc[w] = "idle" /\ settled[w] < called[w]
  /\ settled[w] > 0 => [writer |-> w, call |-> settled[w]] \in acked
  /\ pc' = [pc EXCEPT ![w] = "lock"]
  /\ retry' = [retry EXCEPT ![w] = 0]
  /\ UNCHANGED <<lockable, rows, called, settled, head, acked>>

\* The mutex lets the next call through once the one before has settled, however.
Begin(w) ==
  /\ pc[w] = "idle" /\ settled[w] < called[w]
  /\ pc' = [pc EXCEPT ![w] = "lock"]
  /\ retry' = [retry EXCEPT ![w] = 0]
  /\ UNCHANGED <<lockable, rows, called, settled, head, acked>>

\* pg_advisory_xact_lock, held until the transaction ends.
TakeLock(w) ==
  /\ pc[w] = "lock"
  /\ lockable => InTransaction = {}
  /\ pc' = [pc EXCEPT ![w] = "read"]
  /\ UNCHANGED <<lockable, rows, called, settled, retry, head, acked>>

ReadHead(w) ==
  /\ pc[w] = "read"
  /\ \/ /\ DOMAIN rows = {}
        /\ head' = [head EXCEPT ![w] = EmptyHead]
     \/ \E seq \in DOMAIN rows :
          /\ IsLast(seq)
          /\ head' = [head EXCEPT ![w] = [seq |-> seq, hash |-> rows[seq].hash]]
  /\ pc' = [pc EXCEPT ![w] = "insert"]
  /\ UNCHANGED <<lockable, rows, called, settled, retry, acked>>

\* The running call's promise settles: resolved, or rejected.
Settle(w) ==
  /\ settled' = [settled EXCEPT ![w] = @ + 1]
  /\ pc' = [pc EXCEPT ![w] = "idle"]

NextSeq(w) == head[w].seq + 1

StoreRow(w) ==
  LET seq == NextSeq(w) IN
  rows' = [i \in DOMAIN rows \union {seq} |->
             IF i = seq THEN Row(seq, Running(w), head[w].hash) ELSE rows[i]]

\* The bugs of a seq that is no key, and of a retry after an error of unknown effect.
InsertUnkeyed(w) ==
  /\ pc[w] = "insert"
  /\ StoreRow(w)
  /\ acked' = acked \union {Running(w)}
  /\ Settle(w)
  /\ UNCHANGED <<lockable, called, retry, head>>
InsertRetried(w) ==
  /\ pc[w] = "insert" /\ NextSeq(w) \notin DOMAIN rows
  /\ StoreRow(w)
  /\ \/ acked' = acked \union {Running(w)} /\ Settle(w) /\ UNCHANGED retry
     \/ /\ retry[w] + 1 < MaxAppendRetries
        /\ retry' = [retry EXCEPT ![w] = @ + 1] /\ pc' = [pc EXCEPT ![w] = "lock"]
        /\ UNCHANGED <<settled, acked>>
  /\ UNCHANGED <<lockable, called, head>>

\* The row is committed; if the answer to the commit is lost the call is rejected.
Insert(w) ==
  /\ pc[w] = "insert" /\ NextSeq(w) \notin DOMAIN rows
  /\ StoreRow(w)
  /\ \/ acked' = acked \union {Running(w)}
     \/ UNCHANGED acked
  /\ Settle(w)
  /\ UNCHANGED <<lockable, called, retry, head>>

\* Bugs: one retry too many; the last error swallowed.
CollideOffByOne(w) ==
  /\ pc[w] = "insert" /\ NextSeq(w) \in DOMAIN rows
  /\ \/ /\ retry[w] < MaxAppendRetries
        /\ retry' = [retry EXCEPT ![w] = @ + 1] /\ pc' = [pc EXCEPT ![w] = "lock"]
        /\ UNCHANGED settled
     \/ retry[w] >= MaxAppendRetries /\ Settle(w) /\ UNCHANGED retry
  /\ UNCHANGED <<lockable, rows, called, head, acked>>
CollideSwallowed(w) ==
  /\ pc[w] = "insert" /\ NextSeq(w) \in DOMAIN rows
  /\ acked' = acked \union {Running(w)} /\ Settle(w)
  /\ UNCHANGED <<lockable, rows, called, retry, head>>

\* A unique violation: start over, or reject after the last retry.
Collide(w) ==
  /\ pc[w] = "insert" /\ NextSeq(w) \in DOMAIN rows
  /\ \/ /\ retry[w] + 1 < MaxAppendRetries
        /\ retry' = [retry EXCEPT ![w] = @ + 1] /\ pc' = [pc EXCEPT ![w] = "lock"]
        /\ UNCHANGED settled
     \/ retry[w] + 1 = MaxAppendRetries /\ Settle(w) /\ UNCHANGED retry
  /\ UNCHANGED <<lockable, rows, called, head, acked>>

\* Any other error: the transaction rolls back, the call is rejected.
Abort(w) ==
  /\ pc[w] # "idle"
  /\ Settle(w)
  /\ UNCHANGED <<lockable, rows, called, retry, head, acked>>

\* The process restarts: its transaction rolls back, its queue is gone.
Restart(w) ==
  /\ settled[w] < called[w]
  /\ settled' = [settled EXCEPT ![w] = called[w]]
  /\ pc' = [pc EXCEPT ![w] = "idle"]
  /\ UNCHANGED <<lockable, rows, called, retry, head, acked>>

Proceed(w) == Begin(w) \/ TakeLock(w) \/ ReadHead(w) \/ Insert(w) \/ Collide(w)

Next == \E w \in Writers : Call(w) \/ Proceed(w) \/ Abort(w) \/ Restart(w)

Spec == Init /\ [][Next]_vars

\* A process that is up goes on with its appends, and Postgres answers.
FairSpec == Spec /\ \A w \in Writers : WF_vars(Proceed(w))
-----------------------------------------------------------------------------
\* What a transaction can have read as the head: there was none, or a row that is there.
Heads == {EmptyHead} \union {[seq |-> i, hash |-> rows[i].hash] : i \in DOMAIN rows}

\* The variables keep their types.
TypeOK ==
  /\ lockable \in BOOLEAN
  /\ DOMAIN rows \subseteq Nat
  /\ \A seq \in DOMAIN rows : rows[seq].event \in Events
  /\ called \in [Writers -> 0..Calls]
  /\ settled \in [Writers -> 0..Calls]
  /\ pc \in [Writers -> {"idle", "lock", "read", "insert"}]
  /\ retry \in [Writers -> 0..MaxAppendRetries - 1]
  /\ head \in [Writers -> Heads]
  /\ acked \subseteq Events

\* verifyChain over the persisted rows passes at every moment, whatever races, restarts
\* and lost answers happen: the seqs are 0, 1, 2, ..., every row links to the one before
\* and every hash is that of its content.
ChainVerifies ==
  \A seq \in DOMAIN rows :
    /\ seq # 0 => seq - 1 \in DOMAIN rows
    /\ rows[seq].prevHash = IF seq = 0 THEN GENESIS ELSE rows[seq - 1].hash
    /\ rows[seq].hash = Hash(seq, rows[seq].event, rows[seq].prevHash)

\* Under the advisory lock the collision retry is only a backstop: no append loses the
\* race for its seq.
NoLostRace ==
  lockable => \A w \in Writers : pc[w] = "insert" => NextSeq(w) \notin DOMAIN rows

\* A call that resolved is in the table (a rejected one may be, when the answer to its
\* commit was lost).
AckedIsStored == \A e \in acked : \E seq \in DOMAIN rows : rows[seq].event = e

\* The table, read in seq order, is the log LedgerSpec promises: it only grows at its
\* end, no call is in it twice, and one process's calls are in it in their order.
LogOf == [i \in 1..Cardinality(DOMAIN rows) |-> rows[i - 1].event]
Log == INSTANCE LedgerSpec WITH log <- LogOf
ImplementsLog == Log!Spec

\* Every append settles, although an earlier one of the process was rejected: the mutex
\* is never wedged.
AppendsSettle ==
  \A w \in Writers : \A n \in 1..Calls : called[w] >= n ~> settled[w] >= n
=============================================================================
