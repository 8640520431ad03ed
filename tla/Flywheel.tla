------------------------------ MODULE Flywheel ------------------------------
(***************************************************************************)
(* Learning from outcomes in several processes at once: each has a bandit  *)
(* of its own, which now and then is merged into one stored row.           *)
(*                                                                         *)
(* What a bandit has learned are sums over the outcomes it was updated     *)
(* with (A, b and n of each arm), so its state is how often each outcome   *)
(* is in the sums.  All sums move together, and the prior cancels.         *)
(*                                                                         *)
(* A flush has two awaits, a load and a save, and is awaited by nobody:    *)
(* the process learns on, and may start another.                           *)
(***************************************************************************)
EXTENDS Integers, FiniteSets

CONSTANTS
  Procs,        \* the API and the worker
  Outcomes,     \* realized rewards of charges, each learned once
  FlushEvery,   \* BANDIT_FLUSH_EVERY
  MaxRestarts   \* bound on restarts

ASSUME FlywheelAssumption == FlushEvery \in Nat \ {0} /\ MaxRestarts \in Nat

VARIABLES
  overlap,      \* which flushes may overlap: "any", those of "others", "none"; fixed
  learned,      \* per process: the sums of its bandit
  baseline,     \* per process: banditBaseline
  sinceFlush,   \* per process: banditUpdatesSinceFlush
  by,           \* per outcome: the process that learned it, in a set
  flush,        \* per outcome: the flush it set off
  stored,       \* the row "global"; nothing but zeros stands for no row
  restarts,     \* how often a process was restarted
  dropped,      \* not in the code: outcomes a restart or an overtaken snapshot has cost
  unsure        \* not in the code: outcomes saved by a save whose answer was lost

vars == <<overlap, learned, baseline, sinceFlush, by, flush, stored, restarts, dropped, unsure>>

Sums == [Outcomes -> Int]
EmptyBanditState == [o \in Outcomes |-> 0]

\* A flush that waits for its row, has it, waits for its save, has saved; one whose process
\* is gone can only be saved.
Stages == {"none", "load", "merge", "save", "adopt", "orphan"}
NoFlush == [at |-> "none", current |-> EmptyBanditState, held |-> EmptyBanditState]

Of(p) == {o \in Outcomes : p \in by[o]}
InFlight(o) == flush[o].at # "none"
Flushing(p) == \E o \in Of(p) : InFlight(o) /\ flush[o].at # "orphan"

Init ==
  /\ overlap \in {"any", "others", "none"}
  /\ learned = [p \in Procs |-> EmptyBanditState]
  /\ baseline = [p \in Procs |-> EmptyBanditState]
  /\ sinceFlush = [p \in Procs |-> 0]
  /\ by = [o \in Outcomes |-> {}]
  /\ flush = [o \in Outcomes |-> NoFlush]
  /\ stored = EmptyBanditState
  /\ restarts = 0 /\ dropped = {} /\ unsure = {}

-----------------------------------------------------------------------------
Update(state, o) == [state EXCEPT ![o] = @ + 1]

\* The bug of a merge that adds all a process knows.
MergeWhole(persisted, current, base) == [o \in Outcomes |-> persisted[o] + current[o]]

\* mergeBanditDelta.
MergeBanditDelta(persisted, current, base) ==
  [o \in Outcomes |-> persisted[o] + (current[o] - base[o])]

MayFlush(p) ==
  CASE overlap = "any" -> TRUE
    [] overlap = "others" -> ~Flushing(p)
    [] OTHER -> \A o \in Outcomes : ~InFlight(o)

\* learnOnline: the bandit is updated, and every so many updates a flush is set off, which
\* takes its snapshot at once.
LearnOnline(p, o) ==
  /\ by[o] = {}
  /\ by' = [by EXCEPT ![o] = {p}]
  /\ learned' = [learned EXCEPT ![p] = Update(@, o)]
  /\ \/ /\ sinceFlush[p] + 1 < FlushEvery
        /\ sinceFlush' = [sinceFlush EXCEPT ![p] = @ + 1]
        /\ UNCHANGED flush
     \/ /\ sinceFlush[p] + 1 >= FlushEvery /\ MayFlush(p)
        /\ sinceFlush' = [sinceFlush EXCEPT ![p] = 0]
        /\ flush' = [flush EXCEPT ![o] = [at |-> "load", current |-> Update(learned[p], o),
                                          held |-> EmptyBanditState]]
  /\ UNCHANGED <<overlap, baseline, stored, restarts, dropped, unsure>>

\* The row is read.
Load(o) ==
  /\ flush[o].at = "load"
  /\ flush' = [flush EXCEPT ![o].at = "merge", ![o].held = stored]
  /\ UNCHANGED <<overlap, learned, baseline, sinceFlush, by, stored, restarts, dropped, unsure>>

\* The process has the row, merges what it learned since its baseline, and saves.
Merge(p, o) ==
  /\ p \in by[o] /\ flush[o].at = "merge"
  /\ flush' = [flush EXCEPT ![o].at = "save",
                 ![o].held = MergeBanditDelta(@, flush[o].current, baseline[p])]
  /\ UNCHANGED <<overlap, learned, baseline, sinceFlush, by, stored, restarts, dropped, unsure>>

\* The row is replaced.
Save(o) ==
  /\ flush[o].at \in {"save", "orphan"}
  /\ stored' = flush[o].held
  /\ flush' = [flush EXCEPT ![o] = IF @.at = "save" THEN [@ EXCEPT !.at = "adopt"] ELSE NoFlush]
  /\ UNCHANGED <<overlap, learned, baseline, sinceFlush, by, restarts, dropped, unsure>>

\* What p has learned since its baseline, but not in the snapshot of the flush.
Overtaken(p, o) == {x \in Outcomes : learned[p][x] # flush[o].current[x]}

\* The process adopts what it saved, in place of what it has learned.
Adopt(p, o) ==
  /\ p \in by[o] /\ flush[o].at = "adopt"
  /\ learned' = [learned EXCEPT ![p] = flush[o].held]
  /\ baseline' = [baseline EXCEPT ![p] = flush[o].held]
  /\ sinceFlush' = [sinceFlush EXCEPT ![p] = 0]
  /\ flush' = [flush EXCEPT ![o] = NoFlush]
  /\ dropped' = dropped \union Overtaken(p, o)
  /\ UNCHANGED <<overlap, by, stored, restarts, unsure>>

\* What a process would save next.
Delta(p, current) == {x \in Outcomes : current[x] # baseline[p][x]}

\* The bug of a failure that takes the snapshot for saved.
FlushFailsAdopting(p, o) ==
  /\ p \in by[o] /\ flush[o].at \in {"load", "merge", "save", "adopt"}
  /\ baseline' = [baseline EXCEPT ![p] = flush[o].current]
  /\ flush' = [flush EXCEPT ![o] = NoFlush]
  /\ unsure' = IF flush[o].at = "adopt" THEN unsure \union Delta(p, flush[o].current) ELSE unsure
  /\ UNCHANGED <<overlap, learned, sinceFlush, by, stored, restarts, dropped>>

\* The load or the save throws: the process learns on, and keeps its baseline.  A save
\* whose answer is lost has been made.
FlushFails(p, o) ==
  /\ p \in by[o] /\ flush[o].at \in {"load", "merge", "save", "adopt"}
  /\ flush' = [flush EXCEPT ![o] = NoFlush]
  /\ unsure' = IF flush[o].at = "adopt" THEN unsure \union Delta(p, flush[o].current) ELSE unsure
  /\ UNCHANGED <<overlap, learned, baseline, sinceFlush, by, stored, restarts, dropped>>

\* The process dies and comes back with loadBanditState.  A save it sent may still be made.
Restart(p) ==
  /\ restarts < MaxRestarts /\ restarts' = restarts + 1
  /\ learned' = [learned EXCEPT ![p] = stored]
  /\ baseline' = [baseline EXCEPT ![p] = stored]
  /\ sinceFlush' = [sinceFlush EXCEPT ![p] = 0]
  /\ \E made \in SUBSET {o \in Of(p) : flush[o].at = "save"} :
       flush' = [o \in Outcomes |->
                   IF o \in made THEN [flush[o] EXCEPT !.at = "orphan"]
                   ELSE IF o \in Of(p) /\ flush[o].at # "orphan" THEN NoFlush ELSE flush[o]]
  /\ dropped' = dropped \union Delta(p, learned[p])
  /\ UNCHANGED <<overlap, by, stored, unsure>>

Next ==
  \/ \E o \in Outcomes : Load(o) \/ Save(o)
  \/ \E p \in Procs :
       \/ \E o \in Outcomes :
            LearnOnline(p, o) \/ Merge(p, o) \/ Adopt(p, o) \/ FlushFails(p, o)
       \/ Restart(p)

Spec == Init /\ [][Next]_vars

-----------------------------------------------------------------------------
TypeOK ==
  /\ overlap \in {"any", "others", "none"}
  /\ learned \in [Procs -> Sums] /\ baseline \in [Procs -> Sums] /\ stored \in Sums
  /\ sinceFlush \in [Procs -> 0..(FlushEvery - 1)]
  /\ by \in [Outcomes -> SUBSET Procs]
  /\ flush \in [Outcomes -> [at : Stages, current : Sums, held : Sums]]
  /\ restarts \in 0..MaxRestarts
  /\ dropped \subseteq Outcomes /\ unsure \subseteq Outcomes

\* Contributions pool without counting twice (flushBanditState), whatever the processes
\* overwrite of each other, as long as a process has one flush at a time and learns of its
\* saves.
NeverCountedTwice ==
  overlap # "any" =>
    \A o \in Outcomes \ unsure :
      stored[o] \in {0, 1} /\ \A p \in Procs : learned[p][o] \in {0, 1}

Pending(p, o) == learned[p][o] # baseline[p][o]

\* What was learned is in the row, or going to be in the next flush of the process that
\* learned it, if flushes do not overlap at all: a failed flush costs nothing, and only a
\* restart, or an update during a flush, does.
NothingIsLost ==
  overlap = "none" =>
    \A o \in Outcomes \ (dropped \union unsure) : \A p \in by[o] :
      stored[o] = 1 \/ Pending(p, o)
=============================================================================
