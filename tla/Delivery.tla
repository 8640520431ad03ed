------------------------------ MODULE Delivery ------------------------------
(***************************************************************************)
(* Sending each message once: ask the store whether it was sent, send it,  *)
(* record that it was.                                                     *)
(*                                                                         *)
(* deliverDunning (to a customer) and deliverStage (to the accounts        *)
(* payable of a merchant) are this protocol, on one table.  Its three      *)
(* steps are three awaits, of several processes: tries of a saga's         *)
(* activity, which Temporal repeats, and sweeps, which cron and operators  *)
(* start.                                                                  *)
(***************************************************************************)
EXTENDS Sender, FiniteSets

CONSTANTS
  Procs,      \* what delivers: tries of activities, runs of the jobs, requests
  Keys,       \* a message: <<invoice, attempt>> or <<period, stage>>
  MaxTries    \* RetryOptions.maxAttempts

ASSUME DeliveryAssumption == MaxTries \in Nat \ {0}

VARIABLES
  live,       \* the messages that are sent for real; the others are dry runs
  pc,         \* per process: free, has, send, record
  key,        \* per process: what it delivers, in a set
  sendable,   \* per process: does the message pass assertSendable
  try,        \* per process: the try of the retrying sender
  store,      \* dunning_sends: the keys recorded
  inbox,      \* external: how often each message arrived, 2 standing for more than once
  excused     \* not in the code: the keys of which a copy arrived unrecorded

deliveryVars == <<live, pc, key, sendable, try, store, inbox, excused>>

\* live is chosen by the module that uses the protocol.
DeliveryInit ==
  /\ pc = [p \in Procs |-> "free"]
  /\ key = [p \in Procs |-> {}]
  /\ sendable = [p \in Procs |-> TRUE]
  /\ try = [p \in Procs |-> 0]
  /\ store = {} /\ excused = {}
  /\ inbox = [k \in Keys |-> 0]

Delivering(p, k) == k \in key[p]

\* Starts the delivery of message k, which passes assertSendable or does not.
Open(p, k, s) ==
  /\ pc[p] = "free"
  /\ pc' = [pc EXCEPT ![p] = "has"]
  /\ key' = [key EXCEPT ![p] = {k}]
  /\ sendable' = [sendable EXCEPT ![p] = s]
  /\ try' = [try EXCEPT ![p] = 1]
  /\ UNCHANGED <<live, store, inbox, excused>>

Close(p) ==
  /\ pc' = [pc EXCEPT ![p] = "free"]
  /\ key' = [key EXCEPT ![p] = {}]
  /\ sendable' = [sendable EXCEPT ![p] = TRUE]
  /\ try' = [try EXCEPT ![p] = 0]

\* The bug of a delivery that does not ask.
HasNever(p, k) ==
  /\ pc[p] = "has" /\ Delivering(p, k)
  /\ pc' = [pc EXCEPT ![p] = "send"]
  /\ excused' = IF \E q \in Procs \ {p} : Delivering(q, k) /\ pc[q] \in {"send", "record"}
                THEN excused \union {k} ELSE excused
  /\ UNCHANGED <<live, key, sendable, try, store, inbox>>

\* dedupe.has: a message that was recorded is a duplicate.  Another process that has
\* asked, and not recorded yet, is not seen.
Has(p, k) ==
  /\ pc[p] = "has" /\ Delivering(p, k)
  /\ \/ k \in store /\ Close(p) /\ UNCHANGED excused
     \/ /\ k \notin store
        /\ pc' = [pc EXCEPT ![p] = "send"]
        /\ excused' = IF \E q \in Procs \ {p} : Delivering(q, k) /\ pc[q] \in {"send", "record"}
                      THEN excused \union {k} ELSE excused
        /\ UNCHANGED <<key, sendable, try>>
  /\ UNCHANGED <<live, store, inbox>>

\* The bug of a delivery that records what was not sent.
SendNothingRecords(p, k) ==
  /\ pc[p] = "send" /\ Delivering(p, k) /\ (k \notin live \/ ~sendable[p])
  /\ store' = store \union {k}
  /\ Close(p)
  /\ UNCHANGED <<live, inbox, excused>>

\* A dry run, or a message the sender refuses: nothing leaves.
SendNothing(p, k) ==
  /\ pc[p] = "send" /\ Delivering(p, k) /\ (k \notin live \/ ~sendable[p])
  /\ Close(p)
  /\ UNCHANGED <<live, store, inbox, excused>>

Lands(k) == inbox' = [inbox EXCEPT ![k] = IF @ = 0 THEN 1 ELSE 2]

\* One request to the provider, and what is made of the answer a.  A copy whose arrival
\* was not confirmed is excused.
Send(p, k, a) ==
  /\ pc[p] = "send" /\ Delivering(p, k) /\ k \in live /\ sendable[p]
  /\ IF a.lands THEN Lands(k) ELSE UNCHANGED inbox
  /\ excused' = IF a.lands /\ a.says # "sent" THEN excused \union {k} ELSE excused
  /\ \/ /\ a.says = "sent"
        /\ pc' = [pc EXCEPT ![p] = "record"] /\ UNCHANGED <<key, sendable, try>>
     \/ /\ a.says # "sent" /\ TriesAgain(a, try[p], MaxTries)
        /\ try' = [try EXCEPT ![p] = @ + 1] /\ UNCHANGED <<pc, key, sendable>>
     \/ /\ a.says # "sent" /\ ~TriesAgain(a, try[p], MaxTries)
        /\ Close(p)
  /\ UNCHANGED <<live, store>>

\* dedupe.record.
Record(p, k) ==
  /\ pc[p] = "record" /\ Delivering(p, k)
  /\ store' = store \union {k}
  /\ Close(p)
  /\ UNCHANGED <<live, inbox, excused>>

\* The process dies, or the store rejects has or record, which ends what it was doing as
\* well.  A request on its way may still land, and a record may have been committed.
Dies(p, k) ==
  /\ Delivering(p, k) /\ pc[p] # "free"
  /\ Close(p)
  /\ \/ /\ pc[p] = "has"
        /\ UNCHANGED <<inbox, excused, store>>
     \/ /\ pc[p] = "send"
        /\ \/ UNCHANGED <<inbox, excused>>
           \/ k \in live /\ sendable[p] /\ Lands(k) /\ excused' = excused \union {k}
        /\ UNCHANGED store
     \/ /\ pc[p] = "record"
        /\ excused' = excused \union {k} /\ UNCHANGED inbox
        /\ store' \in {store, store \union {k}}
  /\ UNCHANGED live

\* What a process does next, if it does not die.
Deliver(p) ==
  \E k \in Keys :
    /\ Delivering(p, k)
    /\ \/ Has(p, k) \/ SendNothing(p, k) \/ Record(p, k)
       \/ \E a \in ProviderAnswers : Send(p, k, a)

\* What a module that uses the protocol may do to its variables.
DeliveryNext ==
  \E p \in Procs :
    \/ \E k \in Keys, s \in BOOLEAN : Open(p, k, s)
    \/ Deliver(p)
    \/ \E k \in Keys : Dies(p, k)
-----------------------------------------------------------------------------
DeliveryTypeOK ==
  /\ live \subseteq Keys
  /\ pc \in [Procs -> {"free", "has", "send", "record"}]
  /\ key \in [Procs -> SUBSET Keys]
  /\ sendable \in [Procs -> BOOLEAN]
  /\ try \in [Procs -> 0..MaxTries]
  /\ store \subseteq Keys /\ excused \subseteq Keys
  /\ inbox \in [Keys -> 0..2]

\* What is recorded as sent was sent: a dry run, a refusal or a failure leaves the message
\* to a later run.  And it arrives twice only when a copy arrived that could not be
\* recorded: its answer was lost, its process died between sending and recording, or two
\* processes were delivering it at once.  Re-runs and retries alone never repeat it (what
\* deliverDunning and deliverStage promise, as far as they keep it).
SentOnceOrForCause ==
  \A k \in Keys :
    /\ k \in store => inbox[k] > 0
    /\ inbox[k] > 1 => k \in excused
=============================================================================
