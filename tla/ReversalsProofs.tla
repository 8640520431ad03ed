-------------------------- MODULE ReversalsProofs --------------------------
(***************************************************************************)
(* Proofs about Reversals, for any number of webhooks and any amount.      *)
(*                                                                         *)
(* What a handler is about to append was capped when it read, and by the   *)
(* time it appends the ledger may have changed.  Alone says that, handled  *)
(* one at a time, it still fits; Earned that, raced or not, it is about an *)
(* invoice that was recovered, or reversed, at all.                        *)
(*                                                                         *)
(* RefundsAreExact compares a sum over webhooks with what is held.  Exact  *)
(* carries it without a sum: the units of money the processor took back    *)
(* are dealt out, each to the one webhook that reports it, and what is     *)
(* reversed is the number of units of the webhooks answered so far.        *)
(***************************************************************************)
EXTENDS Reversals, FiniteSetTheorems, TLAPS

\* What a handler books still fits what the ledger allows, and no other is at work.
Alone ==
  serial =>
    /\ \A d, e \in Handling : d = e
    /\ \A d \in Handling : booking[d] <= NetFor(event[d].kind)

\* What a handler books is about an invoice with something to reverse or reinstate.
Earned ==
  \A d \in Handling :
    IF event[d].kind = "payment.reversed" THEN recovered > 0 ELSE reversed > 0

IInv == TypeOK /\ Alone /\ Earned /\ CapsHold /\ UnearnedIsNeverClawedBack


\* The initial states satisfy the invariant: nothing is ledgered and nothing is handled.
LEMMA InitInv == Init => IInv
  BY AmountAssumption
  DEF Init, IInv, TypeOK, Alone, Earned, CapsHold, UnearnedIsNeverClawedBack, Handling,
      Kinds, Incidents, NetRecovery, NoBooking

\* A handler that starts books at least one unit, and no more than the net it has read.
LEMMA CappedBounds ==
  ASSUME NEW amount \in 1..Total, NEW net \in Int, net > 0
  PROVE  /\ Capped(amount, net) \in 1..Total
         /\ Capped(amount, net) <= net
  BY AmountAssumption DEF Capped

\* Caps on the sums are bounds of the net.
LEMMA NetBounds ==
  ASSUME NEW r \in Nat, NEW less \in Nat, NEW plus \in Nat, less <= r, plus <= less
  PROVE  0 <= r - less + plus /\ r - less + plus <= r
  OBVIOUS

\* A webhook sent leaves the handlers and the sums alone.
LEMMA SendStep ==
  ASSUME IInv, NEW d \in Deliveries, NEW kind \in Kinds, NEW a \in 1..Total,
         Send(d, kind, a), held' \in 0..Total, history' \subseteq Incidents
  PROVE  IInv'
<1> USE DEF IInv
<1>1. Handling' = Handling /\ \A e \in Handling : event'[e] = event[e]
  BY DEF Send, Handling, TypeOK
<1>2. TypeOK'
  BY <1>1 DEF TypeOK, Send
<1>3. Alone' /\ Earned' /\ CapsHold' /\ UnearnedIsNeverClawedBack'
  BY <1>1 DEF Send, Alone, Earned, CapsHold, UnearnedIsNeverClawedBack, NetFor,
     netRecoveredForInvoice, netReversedForInvoice, NetRecovery
<1> QED BY <1>2, <1>3

\* Another recovery only raises what may be reversed.
LEMMA RecoverStep == IInv /\ Recover => IInv'
<1> SUFFICES ASSUME IInv, Recover PROVE IInv'
  OBVIOUS
<1> USE AmountAssumption DEF IInv
<1>1. Handling' = Handling /\ recovered' > recovered /\ recovered' \in Nat
  BY DEF Recover, Handling, TypeOK
<1>2. TypeOK'
  BY <1>1 DEF TypeOK, Recover, Note, Incidents
<1>3. Alone' /\ Earned' /\ CapsHold' /\ UnearnedIsNeverClawedBack'
  BY <1>1 DEF TypeOK, Recover, Alone, Earned, CapsHold, UnearnedIsNeverClawedBack, NetFor,
     netRecoveredForInvoice, netReversedForInvoice, NetRecovery, Handling
<1> QED BY <1>2, <1>3

\* A webhook that is ignored changes no sum.
LEMMA IgnoreStep ==
  ASSUME IInv, NEW d \in Deliveries, Ignore(d)
  PROVE  IInv'
<1> USE DEF IInv
<1>1. Handling' = Handling
  BY DEF Ignore, MayRead, Handling, TypeOK
<1>2. TypeOK'
  BY <1>1 DEF TypeOK, Ignore, Note, Incidents
<1>3. Alone' /\ Earned' /\ CapsHold' /\ UnearnedIsNeverClawedBack'
  BY <1>1 DEF Ignore, Alone, Earned, CapsHold, UnearnedIsNeverClawedBack, NetFor,
     netRecoveredForInvoice, netReversedForInvoice, NetRecovery
<1> QED BY <1>2, <1>3

\* A handler that has read a positive net: one at a time, it is the only one.
LEMMA ReadNetStep ==
  ASSUME IInv, NEW d \in Deliveries, ReadNet(d)
  PROVE  IInv'
<1> USE DEF IInv
<1> DEFINE net == NetFor(event[d].kind)
<1>1. net \in Int /\ net > 0 /\ event[d].amount \in 1..Total
  BY DEF ReadNet, TypeOK, NetFor, netRecoveredForInvoice, netReversedForInvoice
<1>2. booking' = [booking EXCEPT ![d] = Capped(event[d].amount, net)]
  BY DEF ReadNet
<1> HIDE DEF net
<1>3. booking'[d] \in 1..Total /\ booking'[d] <= net
  BY <1>1, <1>2, CappedBounds DEF TypeOK
<1>4. Handling' = Handling \union {d} /\ (serial => Handling = {})
  BY DEF ReadNet, MayRead, Handling, TypeOK
<1>5. \A e \in Deliveries \ {d} : booking'[e] = booking[e]
  BY <1>2 DEF TypeOK
<1>6. TypeOK'
  BY <1>2, <1>3, <1>4, <1>5 DEF TypeOK, ReadNet, Handling
<1>7. Alone'
  BY <1>3, <1>4 DEF Alone, ReadNet, NetFor, netRecoveredForInvoice, netReversedForInvoice, net
<1>8. Earned'
  <2>1. IF event[d].kind = "payment.reversed" THEN recovered > 0 ELSE reversed > 0
    BY <1>1 DEF net, NetFor, netRecoveredForInvoice, netReversedForInvoice, TypeOK
  <2> QED BY <1>4, <2>1 DEF Earned, ReadNet
<1>9. CapsHold' /\ UnearnedIsNeverClawedBack'
  BY DEF ReadNet, CapsHold, UnearnedIsNeverClawedBack, NetRecovery
<1> QED BY <1>6, <1>7, <1>8, <1>9

\* An append: what was capped fits, if no other handler has appended since the read.
LEMMA AppendStep ==
  ASSUME IInv, NEW d \in Deliveries, AppendEntry(d)
  PROVE  IInv'
<1> USE DEF IInv
<1>1. d \in Handling /\ booking[d] \in Nat /\ booking[d] > 0
  BY DEF AppendEntry, Handling, TypeOK
<1>2. Handling' = Handling \ {d}
  BY DEF AppendEntry, Handling, TypeOK
<1>3. serial => Handling' = {} /\ booking[d] <= NetFor(event[d].kind)
  BY <1>1, <1>2 DEF Alone
<1>4. reversed' \in Nat /\ reverted' \in Nat /\ reversed' >= reversed
  BY <1>1 DEF AppendEntry, TypeOK
<1>5. TypeOK'
  <2>1. pc' \in [Deliveries -> {"future", "queued", "append", "acked"}]
    BY DEF AppendEntry, TypeOK
  <2>2. booking' \in [Deliveries -> 0..Total] /\ \A e \in Handling' : booking'[e] > 0
    BY <1>2, AmountAssumption DEF AppendEntry, TypeOK, NoBooking, Handling
  <2>3. recovered' \in Nat /\ history' \subseteq Incidents
    BY DEF AppendEntry, TypeOK, Note, Incidents
  <2> QED BY <1>4, <2>1, <2>2, <2>3 DEF AppendEntry, TypeOK
<1>6. Alone'
  BY <1>3 DEF Alone, AppendEntry
<1>7. Earned'
  BY <1>2, <1>4 DEF Earned, AppendEntry, TypeOK
<1>8. CapsHold'
  <2> SUFFICES ASSUME serial
               PROVE  reversed' <= recovered' /\ reverted' <= reversed'
    <3>1. serial' = serial /\ recovered' \in Nat
      BY DEF AppendEntry, TypeOK
    <3> QED BY <1>4, <3>1, NetBounds DEF CapsHold, NetRecovery
  <2>1. reversed <= recovered /\ reverted <= reversed
    BY DEF CapsHold
  <2>2. CASE event[d].kind = "payment.reversed"
    BY <1>1, <1>3, <2>1, <2>2
    DEF AppendEntry, NetFor, netRecoveredForInvoice, TypeOK
  <2>3. CASE event[d].kind # "payment.reversed"
    BY <1>1, <1>3, <2>1, <2>3
    DEF AppendEntry, NetFor, netReversedForInvoice, TypeOK
  <2> QED BY <2>2, <2>3
<1>9. UnearnedIsNeverClawedBack'
  BY <1>1, <1>4 DEF UnearnedIsNeverClawedBack, AppendEntry, Earned, TypeOK
<1> QED BY <1>5, <1>6, <1>7, <1>8, <1>9

\* A failed append leaves the sums, and one handler less.
LEMMA AppendFailsStep ==
  ASSUME IInv, NEW d \in Deliveries, AppendFails(d)
  PROVE  IInv'
<1> USE DEF IInv
<1>1. Handling' = Handling \ {d} /\ \A e \in Handling' : booking'[e] = booking[e]
  BY DEF AppendFails, Handling, TypeOK
<1>2. TypeOK'
  <2>1. booking' \in [Deliveries -> 0..Total]
    BY AmountAssumption DEF AppendFails, TypeOK, NoBooking
  <2>2. \A e \in Handling' : booking'[e] > 0
    BY <1>1 DEF TypeOK
  <2> QED BY <2>1, <2>2 DEF TypeOK, AppendFails
<1>3. Alone' /\ Earned' /\ CapsHold' /\ UnearnedIsNeverClawedBack'
  BY <1>1 DEF AppendFails, Alone, Earned, CapsHold, UnearnedIsNeverClawedBack, NetFor,
     netRecoveredForInvoice, netReversedForInvoice, NetRecovery
<1> QED BY <1>2, <1>3

\* The invariant is inductive: one case per action.
LEMMA NextInv == IInv /\ [Next]_vars => IInv'
<1> SUFFICES ASSUME IInv, [Next]_vars PROVE IInv'
  OBVIOUS
<1>1. CASE Recover
  BY <1>1, RecoverStep
<1>2. ASSUME NEW d \in Deliveries, TakeBack(d) PROVE IInv'
  <2>1. PICK a \in 1..held : Send(d, "payment.reversed", a) /\ held' = held - a
    BY <1>2 DEF TakeBack
  <2>2. a \in 1..Total /\ held' \in 0..Total /\ history' \subseteq Incidents
    BY <1>2, <2>1, AmountAssumption DEF TakeBack, Note, Incidents, IInv, TypeOK
  <2> QED BY <2>1, <2>2, SendStep DEF Kinds
<1>3. ASSUME NEW d \in Deliveries, GiveBack(d) PROVE IInv'
  <2>1. PICK a \in 1..Total - held :
          Send(d, "payment.reversal_reverted", a) /\ held' = held + a
    BY <1>3 DEF GiveBack
  <2>2. a \in 1..Total /\ held' \in 0..Total /\ history' \subseteq Incidents
    BY <1>3, <2>1, AmountAssumption DEF GiveBack, Incidents, IInv, TypeOK
  <2> QED BY <2>1, <2>2, SendStep DEF Kinds
<1>4. ASSUME NEW d \in Deliveries, Redeliver(d) PROVE IInv'
  <2>1. PICK sent \in Deliveries : Send(d, event[sent].kind, event[sent].amount)
    BY <1>4 DEF Redeliver
  <2>2. event[sent].kind \in Kinds /\ event[sent].amount \in 1..Total
    BY DEF IInv, TypeOK
  <2>3. held' \in 0..Total /\ history' \subseteq Incidents
    BY <1>4 DEF Redeliver, Note, Incidents, IInv, TypeOK
  <2> QED BY <2>1, <2>2, <2>3, SendStep
<1>5. ASSUME NEW d \in Deliveries, Ignore(d) PROVE IInv'
  BY <1>5, IgnoreStep
<1>6. ASSUME NEW d \in Deliveries, ReadNet(d) PROVE IInv'
  BY <1>6, ReadNetStep
<1>7. ASSUME NEW d \in Deliveries, AppendEntry(d) PROVE IInv'
  BY <1>7, AppendStep
<1>8. ASSUME NEW d \in Deliveries, AppendFails(d) PROVE IInv'
  BY <1>8, AppendFailsStep
<1>9. CASE UNCHANGED vars
  BY <1>9 DEF vars, IInv, TypeOK, Alone, Earned, CapsHold, UnearnedIsNeverClawedBack,
     Handling, NetFor, netRecoveredForInvoice, netReversedForInvoice, NetRecovery
<1> QED
  BY <1>1, <1>2, <1>3, <1>4, <1>5, <1>6, <1>7, <1>8, <1>9 DEF Next

\* The inductive invariant holds throughout.
THEOREM Inductive == Spec => []IInv
  BY InitInv, NextInv, PTL DEF Spec

\* Type correctness: no handler books less than one unit.
THEOREM TypeCorrect == Spec => []TypeOK
<1>1. IInv => TypeOK
  BY DEF IInv
<1> QED BY <1>1, Inductive, PTL

\* Handled one at a time, net recovery stays between nothing and what was recovered.
THEOREM CapsAreKept == Spec => []CapsHold
<1>1. IInv => CapsHold
  BY DEF IInv
<1> QED BY <1>1, Inductive, PTL

\* Raced or not, no fee is clawed back for an invoice AX10M did not recover.
THEOREM OnlyEarnedIsClawedBack == Spec => []UnearnedIsNeverClawedBack
<1>1. IInv => UnearnedIsNeverClawedBack
  BY DEF IInv
<1> QED BY <1>1, Inductive, PTL
-----------------------------------------------------------------------------
(* Refunds reported once each, and after the recovery.                     *)

Faultless == history \subseteq {"overlapped"}
Acked == {d \in Deliveries : pc[d] = "acked"}

\* Which units of the invoice each webhook reports as taken back.
Dealings == [Deliveries -> SUBSET (1..Total)]
Taken(units, D) == UNION {units[d] : d \in D}
Disjoint(units) == \A d, e \in Deliveries : d # e => units[d] \cap units[e] = {}

\* Every unit taken back is reported by one webhook, and those answered are ledgered.
Accounted(units) ==
  /\ Taken(units, Deliveries) = 1..(Total - held)
  /\ Disjoint(units)
  /\ \A d \in Deliveries :
       IF pc[d] = "future"
       THEN units[d] = {}
       ELSE event[d].kind = "payment.reversed" /\ Cardinality(units[d]) = event[d].amount
  /\ reversed = Cardinality(Taken(units, Acked))

Exact ==
  Faultless =>
    /\ reverted = 0 /\ recovered \in {0, Total}
    /\ \A d \in Handling : booking[d] = event[d].amount
    /\ \E units \in Dealings : Accounted(units)

\* Units dealt out are finitely many.
LEMMA TakenFinite ==
  ASSUME NEW units \in Dealings, NEW D \in SUBSET Deliveries
  PROVE  /\ Taken(units, D) \in SUBSET (1..Total)
         /\ IsFiniteSet(Taken(units, D))
         /\ Cardinality(Taken(units, D)) \in 0..Total
<1>1. Taken(units, D) \in SUBSET (1..Total)
  BY DEF Taken, Dealings
<1>2. IsFiniteSet(1..Total) /\ Cardinality(1..Total) = Total
  BY FS_Interval, AmountAssumption
<1>3. IsFiniteSet(Taken(units, D)) /\ Cardinality(Taken(units, D)) <= Total
  BY <1>1, <1>2, FS_Subset
<1> QED BY <1>1, <1>3, FS_CardinalityType, AmountAssumption

\* One webhook more, and its units count in full: it shares none with the others.
LEMMA TakenOneMore ==
  ASSUME NEW units \in Dealings, Disjoint(units),
         NEW D \in SUBSET Deliveries, NEW d \in Deliveries \ D
  PROVE  Cardinality(Taken(units, D \union {d}))
           = Cardinality(Taken(units, D)) + Cardinality(units[d])
<1>1. Taken(units, D \union {d}) = Taken(units, D) \union units[d]
  BY DEF Taken
<1>2. Taken(units, D) \cap units[d] = {}
  BY DEF Taken, Disjoint
<1>3. units[d] \in SUBSET (1..Total) /\ IsFiniteSet(1..Total)
  BY FS_Interval, AmountAssumption DEF Dealings
<1>4. IsFiniteSet(units[d]) /\ IsFiniteSet(Taken(units, D))
  BY <1>3, FS_Subset, TakenFinite
<1>5. Cardinality(units[d]) \in Nat /\ Cardinality(Taken(units, D)) \in Nat
  BY <1>4, FS_CardinalityType
<1>6. Cardinality(Taken(units, D) \union units[d])
        = Cardinality(Taken(units, D)) + Cardinality(units[d])
            - Cardinality(Taken(units, D) \cap units[d])
  BY <1>4, FS_Union
<1>7. Cardinality(Taken(units, D) \cap units[d]) = 0
  BY <1>2, FS_EmptySet
<1>8. Cardinality(Taken(units, D \union {d})) = Cardinality(Taken(units, D) \union units[d])
  BY <1>1, Zenon
<1> QED BY <1>5, <1>6, <1>7, <1>8

\* The initial states: nothing is taken back and nothing dealt out.
LEMMA InitExact == Init => Exact
<1> SUFFICES ASSUME Init PROVE Exact
  OBVIOUS
<1> DEFINE none == [d \in Deliveries |-> {}]
<1>1. none \in Dealings /\ Taken(none, Deliveries) = {} /\ Taken(none, Acked) = {}
  BY DEF Dealings, Taken, Acked
<1>2. 1..(Total - held) = {}
  BY AmountAssumption DEF Init
<1>3. Accounted(none)
  BY <1>1, <1>2, FS_EmptySet DEF Accounted, Disjoint, Init
<1>4. Handling = {}
  BY DEF Handling, Init
<1> QED BY <1>1, <1>3, <1>4 DEF Exact, Init

\* A step that sends and answers nothing leaves the units where they are.
LEMMA UnitsStay ==
  ASSUME NEW units, Accounted(units), held' = held, event' = event, reversed' = reversed,
         Acked' = Acked, \A d \in Deliveries : pc[d] = "future" <=> pc'[d] = "future"
  PROVE  Accounted(units)'
  BY DEF Accounted

\* A refund takes the next free units and deals them to the webhook that reports it.
LEMMA TakeBackExact ==
  ASSUME IInv, Exact, NEW d \in Deliveries, TakeBack(d)
  PROVE  Exact'
<1> SUFFICES ASSUME Faultless' PROVE Exact'
  BY DEF Exact
<1>1. Faultless
  BY DEF TakeBack, Note, Faultless
<1>2. PICK a \in 1..held : Send(d, "payment.reversed", a) /\ held' = held - a
  BY DEF TakeBack
<1>3. PICK units \in Dealings : Accounted(units)
  BY <1>1 DEF Exact
<1> DEFINE next == (Total - held + 1)..(Total - held + a)
<1>4. held \in 0..Total /\ a \in 1..Total /\ a <= held /\ Total \in Nat
  BY <1>2, AmountAssumption DEF IInv, TypeOK
<1>5. PICK fresh :
        /\ fresh \subseteq 1..Total /\ Cardinality(fresh) = a
        /\ 1..(Total - held') = (1..(Total - held)) \union fresh
        /\ (1..(Total - held)) \cap fresh = {}
  <2>1. next \subseteq 1..Total /\ (1..(Total - held)) \cap next = {}
    BY <1>4
  <2>2. 1..(Total - held') = (1..(Total - held)) \union next
    BY <1>2, <1>4
  <2>3. Cardinality(next) = a
    BY <1>4, FS_Interval
  <2> QED BY <2>1, <2>2, <2>3
<1>6. PICK dealt \in Dealings :
        dealt[d] = fresh /\ \A e \in Deliveries \ {d} : dealt[e] = units[e]
  <2>1. [units EXCEPT ![d] = fresh] \in Dealings
    BY <1>5 DEF Dealings
  <2>2. [units EXCEPT ![d] = fresh][d] = fresh
          /\ \A e \in Deliveries \ {d} : [units EXCEPT ![d] = fresh][e] = units[e]
    BY DEF Dealings
  <2> QED BY <2>1, <2>2
<1>7. units[d] = {} /\ \A e \in Deliveries : units[e] \subseteq 1..(Total - held)
  BY <1>2, <1>3 DEF Accounted, Send, Taken
<1>8. Taken(dealt, Deliveries) = 1..(Total - held')
  <2>1. Taken(dealt, Deliveries) = Taken(units, Deliveries) \union fresh
    BY <1>6, <1>7 DEF Taken
  <2> QED BY <2>1, <1>3, <1>5 DEF Accounted
<1>9. Disjoint(dealt)
  BY <1>3, <1>5, <1>6, <1>7 DEF Accounted, Disjoint
<1>10. /\ Acked' = Acked /\ Handling' = Handling /\ d \notin Acked /\ d \notin Handling
       /\ pc'[d] = "queued" /\ \A e \in Deliveries \ {d} : pc'[e] = pc[e]
       /\ event'[d] = [kind |-> "payment.reversed", amount |-> a]
       /\ \A e \in Deliveries \ {d} : event'[e] = event[e]
       /\ UNCHANGED <<booking, recovered, reversed, reverted>>
  BY <1>2 DEF Send, Acked, Handling, IInv, TypeOK
<1>11. Taken(dealt, Acked) = Taken(units, Acked)
  BY <1>6, <1>10 DEF Taken, Acked
<1>12. \A e \in Deliveries :
         IF pc'[e] = "future"
         THEN dealt[e] = {}
         ELSE event'[e].kind = "payment.reversed" /\ Cardinality(dealt[e]) = event'[e].amount
  BY <1>3, <1>5, <1>6, <1>10 DEF Accounted
<1>13. Accounted(dealt)'
  BY <1>3, <1>8, <1>9, <1>10, <1>11, <1>12 DEF Accounted
<1>14. \A e \in Handling' : booking'[e] = event'[e].amount
  BY <1>1, <1>10 DEF Exact, Handling
<1> QED BY <1>1, <1>6, <1>10, <1>13, <1>14 DEF Exact

\* The first recovery is of the invoice's amount, and a second one is noted.
LEMMA RecoverExact == IInv /\ Exact /\ Recover => Exact'
<1> SUFFICES ASSUME IInv, Exact, Recover, Faultless' PROVE Exact'
  BY DEF Exact
<1>1. Faultless /\ recovered <= 0
  BY DEF Recover, Note, Faultless, IInv, TypeOK
<1>2. recovered' = Total
  BY <1>1, AmountAssumption DEF Recover, IInv, TypeOK
<1>3. PICK units \in Dealings : Accounted(units)
  BY <1>1 DEF Exact
<1>4. Accounted(units)'
  BY <1>3, UnitsStay DEF Recover, Acked
<1> QED BY <1>1, <1>2, <1>4 DEF Exact, Recover, Handling, Dealings

\* Nothing is ignored: what is recovered covers every unit not yet reversed.
LEMMA IgnoreExact ==
  ASSUME IInv, Exact, NEW d \in Deliveries, Ignore(d)
  PROVE  ~ Faultless'
<1> SUFFICES ASSUME Faultless' PROVE FALSE
  OBVIOUS
<1>1. Faultless /\ ~ Early(d)
  BY DEF Ignore, Note, Faultless
<1>2. PICK units \in Dealings : Accounted(units)
  BY <1>1 DEF Exact
<1>3. /\ d \notin Acked /\ Acked \in SUBSET Deliveries
      /\ event[d].kind = "payment.reversed" /\ Cardinality(units[d]) = event[d].amount
  BY <1>2 DEF Ignore, MayRead, Acked, Accounted
<1>4. recovered = Total /\ event[d].amount \in 1..Total /\ Total \in Nat
  BY <1>1, <1>3, AmountAssumption DEF Early, Exact, IInv, TypeOK
<1>5. Cardinality(Taken(units, Acked \union {d})) = reversed + event[d].amount
  BY <1>2, <1>3, TakenOneMore DEF Accounted
<1>6. reversed + event[d].amount \in 0..Total /\ reversed \in Nat
  BY <1>3, <1>5, TakenFinite DEF IInv, TypeOK
<1> QED
  BY <1>3, <1>4, <1>6 DEF Ignore, NetFor, netRecoveredForInvoice

\* A handler that starts books the whole refund: the units it reports are not reversed.
LEMMA ReadNetExact ==
  ASSUME IInv, Exact, NEW d \in Deliveries, ReadNet(d)
  PROVE  Exact'
<1> SUFFICES ASSUME Faultless' PROVE Exact'
  BY DEF Exact
<1>1. Faultless
  BY DEF ReadNet, Faultless
<1>2. PICK units \in Dealings : Accounted(units)
  BY <1>1 DEF Exact
<1>3. /\ d \notin Acked /\ Acked \in SUBSET Deliveries
      /\ event[d].kind = "payment.reversed" /\ Cardinality(units[d]) = event[d].amount
  BY <1>2 DEF ReadNet, MayRead, Acked, Accounted
<1>4. /\ recovered \in {0, Total} /\ event[d].amount \in 1..Total
      /\ Total \in Nat /\ reversed \in Nat
  BY <1>1, AmountAssumption DEF Exact, IInv, TypeOK
<1>5. Cardinality(Taken(units, Acked \union {d})) = reversed + event[d].amount
  BY <1>2, <1>3, TakenOneMore DEF Accounted
<1>6. reversed + event[d].amount <= Total
  BY <1>3, <1>5, TakenFinite
<1>7. NetFor(event[d].kind) = recovered - reversed /\ recovered - reversed > 0
  BY <1>3 DEF ReadNet, NetFor, netRecoveredForInvoice
<1>8. Capped(event[d].amount, NetFor(event[d].kind)) = event[d].amount
  BY <1>4, <1>6, <1>7 DEF Capped
<1>9. /\ booking' = [booking EXCEPT ![d] = event[d].amount]
      /\ pc[d] = "queued" /\ pc' = [pc EXCEPT ![d] = "append"]
      /\ UNCHANGED <<held, event, recovered, reversed, reverted>>
  BY <1>8 DEF ReadNet, MayRead
<1>10. Acked' = Acked /\ Handling' = Handling \union {d}
         /\ \A e \in Deliveries : pc[e] = "future" <=> pc'[e] = "future"
  BY <1>9 DEF Acked, Handling, IInv, TypeOK
<1>11. \A e \in Handling' : booking'[e] = event'[e].amount
  BY <1>1, <1>9, <1>10 DEF Exact, Handling, IInv, TypeOK
<1>12. Accounted(units)'
  BY <1>2, <1>9, <1>10, UnitsStay
<1> QED BY <1>1, <1>9, <1>11, <1>12 DEF Exact

\* An append answered reverses the units its webhook reports; one repeated is noted.
LEMMA AppendExact ==
  ASSUME IInv, Exact, NEW d \in Deliveries, AppendEntry(d)
  PROVE  Exact'
<1> SUFFICES ASSUME Faultless' PROVE Exact'
  BY DEF Exact
<1>1. Faultless /\ pc[d] = "append" /\ pc' = [pc EXCEPT ![d] = "acked"]
  <2>1. ~ Note("repeated", TRUE)
    BY DEF Note, Faultless
  <2>2. pc[d] = "append" /\ pc' = [pc EXCEPT ![d] = "acked"] /\ UNCHANGED history
    BY <2>1 DEF AppendEntry
  <2> QED BY <2>2 DEF Faultless
<1>2. PICK units \in Dealings : Accounted(units)
  BY <1>1 DEF Exact
<1>3. /\ d \in Handling /\ d \notin Acked /\ Acked \in SUBSET Deliveries
      /\ Acked' = Acked \union {d} /\ Handling' = Handling \ {d}
      /\ \A e \in Deliveries : pc[e] = "future" <=> pc'[e] = "future"
  BY <1>1 DEF Acked, Handling, IInv, TypeOK
<1>4. event[d].kind = "payment.reversed" /\ Cardinality(units[d]) = event[d].amount
  BY <1>1, <1>2 DEF Accounted
<1>5. /\ reversed' = reversed + event[d].amount
      /\ booking' = [booking EXCEPT ![d] = NoBooking]
      /\ UNCHANGED <<held, event, recovered, reverted>>
  BY <1>1, <1>3, <1>4 DEF AppendEntry, Exact
<1>6. reversed' = Cardinality(Taken(units, Acked'))
  BY <1>2, <1>3, <1>4, <1>5, TakenOneMore DEF Accounted
<1>7. Accounted(units)'
  BY <1>2, <1>3, <1>5, <1>6 DEF Accounted
<1>8. \A e \in Handling' : booking'[e] = event'[e].amount
  BY <1>1, <1>3, <1>5 DEF Exact, Handling, IInv, TypeOK
<1> QED BY <1>1, <1>5, <1>7, <1>8 DEF Exact

\* An append that fails leaves a webhook to handle again, and every unit in its place.
LEMMA AppendFailsExact ==
  ASSUME IInv, Exact, NEW d \in Deliveries, AppendFails(d)
  PROVE  Exact'
<1> SUFFICES ASSUME Faultless' PROVE Exact'
  BY DEF Exact
<1>1. Faultless /\ pc[d] = "append" /\ pc' = [pc EXCEPT ![d] = "queued"]
        /\ booking' = [booking EXCEPT ![d] = NoBooking]
        /\ UNCHANGED <<held, event, recovered, reversed, reverted>>
  BY DEF AppendFails, Faultless
<1>2. PICK units \in Dealings : Accounted(units)
  BY <1>1 DEF Exact
<1>3. Acked' = Acked /\ Handling' = Handling \ {d}
        /\ \A e \in Deliveries : pc[e] = "future" <=> pc'[e] = "future"
  BY <1>1 DEF Acked, Handling, IInv, TypeOK
<1>4. Accounted(units)'
  BY <1>1, <1>2, <1>3, UnitsStay
<1>5. \A e \in Handling' : booking'[e] = event'[e].amount
  BY <1>1, <1>3 DEF Exact, Handling, IInv, TypeOK
<1> QED BY <1>1, <1>4, <1>5 DEF Exact

\* Exact is inductive beside IInv; a won dispute or a repeated webhook ends its concern.
LEMMA NextExact == IInv /\ Exact /\ [Next]_vars => Exact'
<1> SUFFICES ASSUME IInv, Exact, [Next]_vars PROVE Exact'
  OBVIOUS
<1>1. CASE Recover
  BY <1>1, RecoverExact
<1>2. ASSUME NEW d \in Deliveries, GiveBack(d) \/ Redeliver(d) PROVE Exact'
  BY <1>2 DEF GiveBack, Redeliver, Note, Exact, Faultless
<1>3. ASSUME NEW d \in Deliveries, Ignore(d) PROVE Exact'
  BY <1>3, IgnoreExact DEF Exact
<1>4. CASE UNCHANGED vars
  <2>1. ASSUME NEW units \in Dealings, Accounted(units) PROVE Accounted(units)'
    BY <1>4, <2>1, UnitsStay DEF vars, Acked
  <2> QED BY <1>4, <2>1 DEF vars, Exact, Faultless, Handling
<1> QED
  BY <1>1, <1>2, <1>3, <1>4, TakeBackExact, ReadNetExact, AppendExact, AppendFailsExact
  DEF Next

\* With every webhook answered, the units reversed are those no longer held.
LEMMA ExactGivesNet == IInv /\ Exact => RefundsAreExact
<1> SUFFICES ASSUME IInv, Exact, Faultless, Waiting = {}, recovered = Total
             PROVE  NetRecovery = held
  BY DEF RefundsAreExact, Faultless
<1>1. PICK units \in Dealings : Accounted(units)
  BY DEF Exact
<1>2. \A d \in Deliveries \ Acked : pc[d] = "future"
  BY DEF Waiting, Acked, IInv, TypeOK
<1>3. Taken(units, Acked) = 1..(Total - held)
  <2>1. \A d \in Deliveries \ Acked : units[d] = {}
    BY <1>1, <1>2 DEF Accounted
  <2>2. Taken(units, Acked) = Taken(units, Deliveries)
    BY <2>1 DEF Taken, Acked
  <2> QED BY <1>1, <2>2 DEF Accounted
<1>4. reversed = Total - held
  BY <1>1, <1>3, FS_Interval, AmountAssumption DEF Accounted, IInv, TypeOK
<1> QED BY <1>4, AmountAssumption DEF NetRecovery, Exact, IInv, TypeOK

\* Refunds reported once each, after the recovery, leave the P&L's net at what is held.
THEOREM RefundsLeaveWhatIsHeld == Spec => []RefundsAreExact
<1>1. Init => IInv /\ Exact
  BY InitInv, InitExact
<1>2. (IInv /\ Exact) /\ [Next]_vars => (IInv /\ Exact)'
  BY NextInv, NextExact
<1>3. IInv /\ Exact => RefundsAreExact
  BY ExactGivesNet
<1> QED BY <1>1, <1>2, <1>3, PTL DEF Spec
=============================================================================
