--------------------------- MODULE FlywheelProofs ---------------------------
(***************************************************************************)
(* Theorems about Flywheel, for any processes, outcomes and cadence.       *)
(*                                                                         *)
(* The argument follows one outcome.  While the process that learned it    *)
(* has not been told that it is saved, the outcome is nowhere but in that  *)
(* process and its flush (OnlyAt), so a merge adds it to a row without it; *)
(* afterwards it is in the baseline, and no merge adds it again.           *)
(***************************************************************************)
EXTENDS Flywheel, TLAPS

Active(x) == flush[x].at \in {"load", "merge", "save", "adopt"}

\* An outcome is learned by one process, and before that sets off no flush.
Owners ==
  /\ \A x \in Outcomes : \A p, q \in by[x] : p = q
  /\ \A x \in Outcomes : by[x] = {} => flush[x].at = "none"

OneFlush == \A p \in Procs : \A x, y \in Of(p) : Active(x) /\ Active(y) => x = y

\* Every sum has an outcome at most once, and a snapshot is between baseline and bandit.
AtMostOnce(o) ==
  /\ stored[o] \in 0..1
  /\ \A p \in Procs :
       baseline[p][o] \in 0..1 /\ learned[p][o] \in 0..1 /\ baseline[p][o] <= learned[p][o]
  /\ \A x \in Outcomes : flush[x].held[o] \in 0..1
  /\ \A p \in Procs : \A x \in Of(p) :
       Active(x) => baseline[p][o] <= flush[x].current[o] /\ flush[x].current[o] <= learned[p][o]

\* Nobody knows an outcome nobody learned.
Unknown(o) ==
  /\ stored[o] = 0
  /\ \A p \in Procs : learned[p][o] = 0
  /\ \A x \in Outcomes : flush[x].held[o] = 0

\* A flush of p has saved the outcome, and p does not know yet.
Told(p, o) == \E x \in Of(p) : flush[x].at = "adopt" /\ flush[x].current[o] # baseline[p][o]

\* The outcome is in p and in what a flush of p is about to save.
OnlyAt(p, o) ==
  /\ stored[o] = 0
  /\ \A q \in Procs \ {p} : learned[q][o] = 0
  /\ \A x \in Outcomes :
       flush[x].held[o] = IF x \in Of(p) /\ flush[x].at = "save" THEN flush[x].current[o] ELSE 0

Clean(o) ==
  /\ AtMostOnce(o)
  /\ by[o] = {} => Unknown(o)
  /\ \A p \in Procs : Pending(p, o) => p \in by[o] /\ (Told(p, o) \/ OnlyAt(p, o))

Sound == overlap # "any" => OneFlush /\ \A o \in Outcomes \ unsure : Clean(o)

IInv == TypeOK /\ Owners /\ Sound

-----------------------------------------------------------------------------
\* TypeOK is kept by every step: the sums of the bandits, baselines and flushes stay sums.
LEMMA TypeStep == ASSUME TypeOK, [Next]_vars PROVE TypeOK'
<1> USE FlywheelAssumption
<1>1. ASSUME NEW p \in Procs, NEW o \in Outcomes, LearnOnline(p, o) PROVE TypeOK'
  <2>1. Update(learned[p], o) \in Sums /\ EmptyBanditState \in Sums
    BY DEF TypeOK, Update, Sums, EmptyBanditState
  <2>2. learned' \in [Procs -> Sums] /\ by' \in [Outcomes -> SUBSET Procs]
    BY <1>1, <2>1 DEF TypeOK, LearnOnline
  <2>3. sinceFlush' \in [Procs -> 0..(FlushEvery - 1)]
    BY <1>1 DEF TypeOK, LearnOnline
  <2>4. flush' \in [Outcomes -> [at : Stages, current : Sums, held : Sums]]
    <3>1. [at |-> "load", current |-> Update(learned[p], o), held |-> EmptyBanditState]
            \in [at : Stages, current : Sums, held : Sums]
      BY <2>1 DEF Stages
    <3> QED BY <1>1, <3>1 DEF TypeOK, LearnOnline
  <2> QED BY <1>1, <2>2, <2>3, <2>4 DEF TypeOK, LearnOnline
<1>2. ASSUME NEW o \in Outcomes, Load(o) PROVE TypeOK'
  BY <1>2 DEF TypeOK, Load, Stages
<1>3. ASSUME NEW p \in Procs, NEW o \in Outcomes, Merge(p, o) PROVE TypeOK'
  <2>1. MergeBanditDelta(flush[o].held, flush[o].current, baseline[p]) \in Sums
    BY DEF TypeOK, MergeBanditDelta, Sums
  <2> QED BY <1>3, <2>1 DEF TypeOK, Merge, Stages
<1>4. ASSUME NEW o \in Outcomes, Save(o) PROVE TypeOK'
  <2>1. NoFlush \in [at : Stages, current : Sums, held : Sums]
    BY DEF NoFlush, Stages, Sums, EmptyBanditState
  <2> QED BY <1>4, <2>1 DEF TypeOK, Save, Stages
<1>5. ASSUME NEW p \in Procs, NEW o \in Outcomes, Adopt(p, o) \/ FlushFails(p, o) PROVE TypeOK'
  <2>1. NoFlush \in [at : Stages, current : Sums, held : Sums]
    BY DEF NoFlush, Stages, Sums, EmptyBanditState
  <2> QED BY <1>5, <2>1 DEF TypeOK, Adopt, FlushFails, Overtaken, Delta
<1>6. ASSUME NEW p \in Procs, Restart(p) PROVE TypeOK'
  <2>1. NoFlush \in [at : Stages, current : Sums, held : Sums]
    BY DEF NoFlush, Stages, Sums, EmptyBanditState
  <2>2. flush' \in [Outcomes -> [at : Stages, current : Sums, held : Sums]]
    BY <1>6, <2>1 DEF TypeOK, Restart, Stages
  <2> QED BY <1>6, <2>2 DEF TypeOK, Restart, Delta
<1>7. CASE UNCHANGED vars
  BY <1>7 DEF TypeOK, vars
<1> QED BY <1>1, <1>2, <1>3, <1>4, <1>5, <1>6, <1>7 DEF Next

\* What each step does to the flushes, field by field.
LEMMA LoadEffect ==
  ASSUME TypeOK, NEW o \in Outcomes, Load(o)
  PROVE  /\ \A x \in Outcomes \ {o} : flush'[x] = flush[x]
         /\ flush[o].at = "load" /\ flush'[o].at = "merge"
         /\ flush'[o].current = flush[o].current /\ flush'[o].held = stored
BY DEF TypeOK, Load

LEMMA MergeEffect ==
  ASSUME TypeOK, NEW p \in Procs, NEW o \in Outcomes, Merge(p, o)
  PROVE  /\ \A x \in Outcomes \ {o} : flush'[x] = flush[x]
         /\ flush[o].at = "merge" /\ flush'[o].at = "save"
         /\ flush'[o].current = flush[o].current
         /\ \A c \in Outcomes :
              flush'[o].held[c] = flush[o].held[c] + (flush[o].current[c] - baseline[p][c])
<1>1. /\ \A x \in Outcomes \ {o} : flush'[x] = flush[x]
      /\ flush[o].at = "merge" /\ flush'[o].at = "save"
      /\ flush'[o].current = flush[o].current
      /\ flush'[o].held = MergeBanditDelta(flush[o].held, flush[o].current, baseline[p])
  BY DEF TypeOK, Merge
<1> QED BY <1>1 DEF MergeBanditDelta

LEMMA SaveEffect ==
  ASSUME TypeOK, NEW o \in Outcomes, Save(o)
  PROVE  /\ \A x \in Outcomes \ {o} : flush'[x] = flush[x]
         /\ stored' = flush[o].held
         /\ \/ /\ flush[o].at = "save" /\ flush'[o].at = "adopt"
               /\ flush'[o].current = flush[o].current /\ flush'[o].held = flush[o].held
            \/ flush[o].at = "orphan" /\ flush'[o] = NoFlush
<1>1. CASE flush[o].at = "save"
  BY <1>1 DEF TypeOK, Save
<1>2. CASE flush[o].at = "orphan"
  BY <1>2 DEF TypeOK, Save
<1> QED BY <1>1, <1>2 DEF Save

LEMMA EndEffect ==
  ASSUME TypeOK, NEW p \in Procs, NEW o \in Outcomes, Adopt(p, o) \/ FlushFails(p, o)
  PROVE  /\ \A x \in Outcomes \ {o} : flush'[x] = flush[x]
         /\ flush'[o] = NoFlush
BY DEF TypeOK, Adopt, FlushFails

LEMMA RestartEffect ==
  ASSUME TypeOK, NEW p \in Procs, Restart(p), NEW x \in Outcomes
  PROVE  \/ /\ x \in Of(p) /\ flush[x].at = "save" /\ flush'[x].at = "orphan"
            /\ flush'[x].held = flush[x].held
         \/ x \in Of(p) /\ flush[x].at # "orphan" /\ flush'[x] = NoFlush
         \/ (x \notin Of(p) \/ flush[x].at = "orphan") /\ flush'[x] = flush[x]
<1>1. PICK made \in SUBSET {y \in Of(p) : flush[y].at = "save"} :
        flush' = [y \in Outcomes |->
                    IF y \in made THEN [flush[y] EXCEPT !.at = "orphan"]
                    ELSE IF y \in Of(p) /\ flush[y].at # "orphan" THEN NoFlush
                    ELSE flush[y]]
  BY DEF Restart
<1>2. CASE x \in made
  BY <1>1, <1>2 DEF TypeOK
<1>3. CASE x \notin made
  BY <1>1, <1>3
<1> QED BY <1>2, <1>3

LEMMA NoFlushIsEmpty == NoFlush.at = "none" /\ \A o \in Outcomes : NoFlush.held[o] = 0
BY DEF NoFlush, EmptyBanditState

\* An outcome is learned where it was unknown, and sets off a flush or none.
LEMMA LearnEffect ==
  ASSUME TypeOK, Owners, NEW p \in Procs, NEW o \in Outcomes, LearnOnline(p, o)
  PROVE  /\ by[o] = {} /\ by' = [by EXCEPT ![o] = {p}] /\ flush[o].at = "none"
         /\ \A q \in Procs \ {p} : learned'[q] = learned[q]
         /\ \A c \in Outcomes \ {o} : learned'[p][c] = learned[p][c]
         /\ learned'[p][o] = learned[p][o] + 1
         /\ \A x \in Outcomes \ {o} : flush'[x] = flush[x]
         /\ \/ flush'[o] = flush[o]
            \/ /\ MayFlush(p) /\ flush'[o].at = "load"
               /\ \A c \in Outcomes :
                    flush'[o].current[c] = learned'[p][c] /\ flush'[o].held[c] = 0
<1>1. /\ by[o] = {} /\ by' = [by EXCEPT ![o] = {p}] /\ flush[o].at = "none"
      /\ learned' = [learned EXCEPT ![p] = Update(learned[p], o)]
  BY DEF LearnOnline, Owners
<1>2. /\ \A q \in Procs \ {p} : learned'[q] = learned[q]
      /\ learned'[p] = Update(learned[p], o)
  BY <1>1 DEF TypeOK
<1>3. /\ \A c \in Outcomes \ {o} : learned'[p][c] = learned[p][c]
      /\ learned'[p][o] = learned[p][o] + 1
  BY <1>2 DEF TypeOK, Update, Sums
<1>4. /\ \A x \in Outcomes \ {o} : flush'[x] = flush[x]
      /\ \/ flush'[o] = flush[o]
         \/ /\ MayFlush(p)
            /\ flush'[o] = [at |-> "load", current |-> Update(learned[p], o),
                            held |-> EmptyBanditState]
  BY DEF TypeOK, LearnOnline
<1> QED BY <1>1, <1>2, <1>3, <1>4 DEF EmptyBanditState

-----------------------------------------------------------------------------
\* Owners is kept by every step: an outcome is learned once.
LEMMA OwnersStep == ASSUME TypeOK, Owners, [Next]_vars PROVE Owners'
<1>1. ASSUME NEW p \in Procs, NEW o \in Outcomes, LearnOnline(p, o) PROVE Owners'
  <2>1. by' = [by EXCEPT ![o] = {p}] /\ \A x \in Outcomes \ {o} : flush'[x] = flush[x]
    BY <1>1 DEF TypeOK, LearnOnline
  <2> QED BY <2>1 DEF TypeOK, Owners
<1>2. ASSUME NEW o \in Outcomes, Load(o) \/ Save(o) PROVE Owners'
  BY <1>2, LoadEffect, SaveEffect, NoFlushIsEmpty DEF Owners, Load, Save
<1>3. ASSUME NEW p \in Procs, NEW o \in Outcomes, Merge(p, o) \/ Adopt(p, o) \/ FlushFails(p, o)
      PROVE Owners'
  BY <1>3 DEF TypeOK, Owners, Merge, Adopt, FlushFails
<1>4. ASSUME NEW p \in Procs, Restart(p) PROVE Owners'
  <2>1. \A x \in Outcomes : flush[x].at = "none" => flush'[x].at = "none"
    BY <1>4, RestartEffect, NoFlushIsEmpty
  <2> QED BY <1>4, <2>1 DEF Owners, Restart
<1>5. CASE UNCHANGED vars
  BY <1>5 DEF Owners, vars
<1> QED BY <1>1, <1>2, <1>3, <1>4, <1>5 DEF Next

\* A process has one flush at a time, where flushes do not overlap.
LEMMA OneFlushStep ==
  ASSUME TypeOK, Owners, OneFlush, overlap # "any", [Next]_vars PROVE OneFlush'
<1>1. ASSUME NEW p \in Procs, NEW o \in Outcomes, LearnOnline(p, o) PROVE OneFlush'
  <2>1. ASSUME NEW q \in Procs, NEW x \in Of(q)', Active(x)'
        PROVE (x = o /\ q = p) \/ (x \in Of(q) /\ Active(x))
    BY <1>1, <2>1, LearnEffect DEF TypeOK, Of, Active
  <2>2. Active(o)' => ~Flushing(p)
    BY <1>1, LearnEffect DEF MayFlush, Flushing, InFlight, Of, Active
  <2>3. \A x \in Of(p) : Active(x) => Flushing(p)
    BY DEF Flushing, InFlight, Active, Of
  <2>4. \A x \in Outcomes : Active(x) => x # o
    BY <1>1, LearnEffect DEF Active
  <2> QED BY <2>1, <2>2, <2>3, <2>4 DEF OneFlush
<1>2. ASSUME by' = by, \A x \in Outcomes : Active(x)' => Active(x) PROVE OneFlush'
  BY <1>2 DEF OneFlush, Of
<1>3. ASSUME NEW o \in Outcomes, Load(o) PROVE OneFlush'
  <2>1. \A x \in Outcomes : Active(x)' => Active(x)
    BY <1>3, LoadEffect DEF Active
  <2> QED BY <1>2, <1>3, <2>1 DEF Load
<1>4. ASSUME NEW o \in Outcomes, Save(o) PROVE OneFlush'
  <2>1. \A x \in Outcomes : Active(x)' => Active(x)
    BY <1>4, SaveEffect, NoFlushIsEmpty DEF Active
  <2> QED BY <1>2, <1>4, <2>1 DEF Save
<1>5. ASSUME NEW p \in Procs, NEW o \in Outcomes, Merge(p, o) PROVE OneFlush'
  <2>1. \A x \in Outcomes : Active(x)' => Active(x)
    BY <1>5, MergeEffect DEF Active
  <2> QED BY <1>2, <1>5, <2>1 DEF Merge
<1>6. ASSUME NEW p \in Procs, NEW o \in Outcomes, Adopt(p, o) \/ FlushFails(p, o) PROVE OneFlush'
  <2>1. \A x \in Outcomes : Active(x)' => Active(x)
    BY <1>6, EndEffect, NoFlushIsEmpty DEF Active
  <2> QED BY <1>2, <1>6, <2>1 DEF Adopt, FlushFails
<1>7. ASSUME NEW p \in Procs, Restart(p) PROVE OneFlush'
  <2>1. \A x \in Outcomes : Active(x)' => Active(x)
    BY <1>7, RestartEffect, NoFlushIsEmpty DEF Active
  <2> QED BY <1>2, <1>7, <2>1 DEF Restart
<1>8. CASE UNCHANGED vars
  BY <1>8 DEF OneFlush, Of, Active, vars
<1> QED BY <1>1, <1>3, <1>4, <1>5, <1>6, <1>7, <1>8 DEF Next

-----------------------------------------------------------------------------
\* Clean is kept by every step, about every outcome c whose save is known to be answered.
LEMMA CleanLoad ==
  ASSUME TypeOK, NEW o \in Outcomes, Load(o), NEW c \in Outcomes, Clean(c)
  PROVE  Clean(c)'
<1>1. /\ UNCHANGED <<stored, learned, baseline, by>>
      /\ \A p \in Procs : Of(p)' = Of(p)
  BY DEF Load, Of
<1>2. AtMostOnce(c)'
  BY <1>1, LoadEffect DEF Clean, AtMostOnce, Active, Of
<1>3. by[c] = {} => Unknown(c)'
  BY <1>1, LoadEffect DEF Clean, Unknown
<1>4. ASSUME NEW p \in Procs, Told(p, c) PROVE Told(p, c)'
  BY <1>1, <1>4, LoadEffect DEF Told, Of
<1>5. ASSUME NEW p \in Procs, OnlyAt(p, c) PROVE OnlyAt(p, c)'
  BY <1>1, <1>5, LoadEffect DEF OnlyAt
<1> QED BY <1>1, <1>2, <1>3, <1>4, <1>5 DEF Clean, Pending

LEMMA CleanMerge ==
  ASSUME TypeOK, Owners, OneFlush, NEW p \in Procs, NEW o \in Outcomes, Merge(p, o),
         NEW c \in Outcomes, Clean(c)
  PROVE  Clean(c)'
<1>1. /\ UNCHANGED <<stored, learned, baseline, by>>
      /\ \A q \in Procs : Of(q)' = Of(q)
      /\ o \in Of(p) /\ Active(o)
  BY DEF Merge, Of, Active
<1>2. /\ baseline[p][c] \in 0..1 /\ learned[p][c] \in 0..1 /\ flush[o].current[c] \in Int
      /\ baseline[p][c] <= flush[o].current[c] /\ flush[o].current[c] <= learned[p][c]
      /\ flush[o].held[c] \in 0..1
  BY <1>1 DEF TypeOK, Sums, Clean, AtMostOnce
<1>3. Pending(p, c) => OnlyAt(p, c) /\ flush[o].held[c] = 0
  BY <1>1, MergeEffect DEF Clean, Told, OnlyAt, OneFlush, Active
<1>4. flush'[o].held[c] = flush[o].held[c] + (flush[o].current[c] - baseline[p][c])
  BY MergeEffect
<1>5. flush'[o].held[c] \in 0..1
  BY <1>2, <1>3, <1>4 DEF Pending
<1>6. AtMostOnce(c)'
  BY <1>1, <1>5, MergeEffect DEF Clean, AtMostOnce, Active, Of
<1>7. by[c] = {} => Unknown(c)'
  <2>1. by[c] = {} => flush'[o].held[c] = 0
    BY <1>2, <1>4 DEF Clean, Unknown
  <2> QED BY <1>1, <2>1, MergeEffect DEF Clean, Unknown
<1>8. ASSUME NEW q \in Procs, Told(q, c) PROVE Told(q, c)'
  BY <1>1, <1>8, MergeEffect DEF Told, Of
<1>9. ASSUME NEW q \in Procs, Pending(q, c), OnlyAt(q, c) PROVE OnlyAt(q, c)'
  <2>1. CASE q = p
    <3>1. flush'[o].held[c] = flush[o].current[c]
      BY <1>2, <1>3, <1>4, <1>9, <2>1 DEF Pending
    <3> QED BY <1>1, <1>9, <2>1, <3>1, MergeEffect DEF OnlyAt
  <2>2. CASE q # p
    <3>1. o \notin Of(q)
      BY <1>1, <2>2 DEF Owners, Of
    <3>2. flush'[o].held[c] = 0
      BY <1>2, <1>4, <1>9, <2>2, <3>1 DEF OnlyAt
    <3> QED BY <1>1, <1>9, <3>1, <3>2, MergeEffect DEF OnlyAt
  <2> QED BY <2>1, <2>2
<1> QED BY <1>1, <1>6, <1>7, <1>8, <1>9 DEF Clean, Pending

LEMMA CleanSave ==
  ASSUME TypeOK, NEW o \in Outcomes, Save(o), NEW c \in Outcomes, Clean(c)
  PROVE  Clean(c)'
<1>1. /\ UNCHANGED <<learned, baseline, by>>
      /\ \A q \in Procs : Of(q)' = Of(q)
      /\ stored'[c] = flush[o].held[c]
  BY SaveEffect DEF Save, Of
<1>2. AtMostOnce(c)'
  BY <1>1, SaveEffect, NoFlushIsEmpty DEF Clean, AtMostOnce, Active, Of
<1>3. by[c] = {} => Unknown(c)'
  BY <1>1, SaveEffect, NoFlushIsEmpty DEF Clean, Unknown
<1>4. ASSUME NEW q \in Procs, Told(q, c) PROVE Told(q, c)'
  BY <1>1, <1>4, SaveEffect DEF Told, Of
<1>5. ASSUME NEW q \in Procs, Pending(q, c), OnlyAt(q, c) PROVE Told(q, c)' \/ OnlyAt(q, c)'
  <2>1. CASE flush[o].at = "save" /\ o \in Of(q)
    <3>1. /\ flush[o].held[c] = flush[o].current[c]
          /\ flush'[o].at = "adopt" /\ flush'[o].current = flush[o].current
          /\ flush'[o].held = flush[o].held
      BY <1>5, <2>1, SaveEffect DEF OnlyAt
    <3>2. baseline[q][c] = 0
      BY <1>5 DEF Clean, AtMostOnce, Pending
    <3>3. CASE flush[o].current[c] = 0
      BY <1>1, <1>5, <3>1, <3>3, SaveEffect DEF OnlyAt
    <3>4. CASE flush[o].current[c] # 0
      BY <1>1, <2>1, <3>1, <3>2, <3>4 DEF Told
    <3> QED BY <3>3, <3>4
  <2>2. CASE ~(flush[o].at = "save" /\ o \in Of(q))
    BY <1>1, <1>5, <2>2, SaveEffect, NoFlushIsEmpty DEF OnlyAt
  <2> QED BY <2>1, <2>2
<1> QED BY <1>1, <1>2, <1>3, <1>4, <1>5 DEF Clean, Pending

LEMMA CleanAdopt ==
  ASSUME TypeOK, Owners, OneFlush, NEW p \in Procs, NEW o \in Outcomes, Adopt(p, o),
         NEW c \in Outcomes, Clean(c)
  PROVE  Clean(c)'
<1>1. /\ UNCHANGED <<stored, by>>
      /\ \A q \in Procs : Of(q)' = Of(q)
      /\ o \in Of(p) /\ Active(o) /\ flush[o].at = "adopt"
      /\ \A q \in Procs \ {p} : learned'[q] = learned[q] /\ baseline'[q] = baseline[q]
      /\ learned'[p] = flush[o].held /\ baseline'[p] = flush[o].held
  BY DEF Adopt, Of, Active, TypeOK
<1>2. AtMostOnce(c)'
  <2>1. ASSUME NEW q \in Procs, NEW x \in Of(q), Active(x)' PROVE q # p /\ x # o /\ Active(x)
    BY <1>1, <2>1, EndEffect, NoFlushIsEmpty DEF Active, OneFlush, Of
  <2>2. \A x \in Outcomes : flush'[x].held[c] \in 0..1
    BY EndEffect, NoFlushIsEmpty DEF Clean, AtMostOnce
  <2>3. \A q \in Procs : baseline'[q][c] \in 0..1 /\ learned'[q][c] \in 0..1
                         /\ baseline'[q][c] <= learned'[q][c]
    BY <1>1 DEF Clean, AtMostOnce
  <2>4. ASSUME NEW q \in Procs, NEW x \in Of(q), Active(x)'
        PROVE baseline'[q][c] <= flush'[x].current[c] /\ flush'[x].current[c] <= learned'[q][c]
    BY <1>1, <2>1, <2>4, EndEffect DEF Clean, AtMostOnce, Of
  <2> QED BY <1>1, <2>2, <2>3, <2>4 DEF Clean, AtMostOnce
<1>3. by[c] = {} => Unknown(c)'
  BY <1>1, EndEffect, NoFlushIsEmpty DEF Clean, Unknown
<1>4. \A q \in Procs : Pending(q, c)' => q # p /\ Pending(q, c)
  BY <1>1 DEF Pending
<1>5. ASSUME NEW q \in Procs \ {p}, Told(q, c) PROVE Told(q, c)'
  BY <1>1, <1>5, EndEffect DEF Told, Of, Owners
<1>6. ASSUME NEW q \in Procs \ {p}, OnlyAt(q, c) PROVE OnlyAt(q, c)'
  BY <1>1, <1>6, EndEffect, NoFlushIsEmpty DEF OnlyAt
<1> QED BY <1>1, <1>2, <1>3, <1>4, <1>5, <1>6 DEF Clean

LEMMA CleanFlushFails ==
  ASSUME TypeOK, NEW p \in Procs, NEW o \in Outcomes, FlushFails(p, o), Owners,
         NEW c \in Outcomes \ unsure', Clean(c)
  PROVE  Clean(c)'
<1>1. /\ UNCHANGED <<stored, by, learned, baseline>>
      /\ \A q \in Procs : Of(q)' = Of(q)
      /\ o \in Of(p)
  BY DEF FlushFails, Of
<1>2. AtMostOnce(c)'
  BY <1>1, EndEffect, NoFlushIsEmpty DEF Clean, AtMostOnce, Active, Of
<1>3. by[c] = {} => Unknown(c)'
  BY <1>1, EndEffect, NoFlushIsEmpty DEF Clean, Unknown
<1>4. flush[o].at = "adopt" => flush[o].current[c] = baseline[p][c]
  BY DEF FlushFails, Delta
<1>5. ASSUME NEW q \in Procs, Told(q, c) PROVE Told(q, c)'
  <2>1. PICK x \in Of(q) : flush[x].at = "adopt" /\ flush[x].current[c] # baseline[q][c]
    BY <1>5 DEF Told
  <2>2. x # o
    BY <1>1, <1>4, <2>1 DEF Owners, Of
  <2> QED BY <1>1, <2>1, <2>2, EndEffect DEF Told, Of
<1>6. ASSUME NEW q \in Procs, OnlyAt(q, c) PROVE OnlyAt(q, c)'
  BY <1>1, <1>6, EndEffect, NoFlushIsEmpty DEF OnlyAt
<1> QED BY <1>1, <1>2, <1>3, <1>5, <1>6 DEF Clean, Pending

LEMMA CleanRestart ==
  ASSUME TypeOK, Owners, NEW p \in Procs, Restart(p), NEW c \in Outcomes, Clean(c)
  PROVE  Clean(c)'
<1>1. /\ UNCHANGED <<stored, by>>
      /\ \A q \in Procs : Of(q)' = Of(q)
      /\ \A q \in Procs \ {p} : learned'[q] = learned[q] /\ baseline'[q] = baseline[q]
      /\ learned'[p] = stored /\ baseline'[p] = stored
  BY DEF Restart, Of, TypeOK
<1>2. \A x \in Outcomes : flush'[x].held[c] = flush[x].held[c] \/ flush'[x].held[c] = 0
  BY RestartEffect, NoFlushIsEmpty
<1>3. ASSUME NEW x \in Outcomes, x \notin Of(p) PROVE flush'[x] = flush[x]
  BY <1>3, RestartEffect
<1>4. ASSUME NEW x \in Of(p) PROVE ~Active(x)' /\ flush'[x].at # "save"
  BY <1>4, RestartEffect, NoFlushIsEmpty DEF Active, Of
<1>5. \A q \in Procs \ {p} : \A x \in Of(q) : x \notin Of(p)
  BY DEF Owners, Of
<1>6. AtMostOnce(c)'
  <2>1. \A q \in Procs : baseline'[q][c] \in 0..1 /\ learned'[q][c] \in 0..1
                         /\ baseline'[q][c] <= learned'[q][c]
    BY <1>1 DEF Clean, AtMostOnce
  <2>2. \A x \in Outcomes : flush'[x].held[c] \in 0..1
    BY <1>2 DEF Clean, AtMostOnce
  <2>3. ASSUME NEW q \in Procs, NEW x \in Of(q), Active(x)'
        PROVE baseline'[q][c] <= flush'[x].current[c] /\ flush'[x].current[c] <= learned'[q][c]
    BY <1>1, <1>3, <1>4, <1>5, <2>3 DEF Clean, AtMostOnce, Active, Of
  <2> QED BY <1>1, <2>1, <2>2, <2>3 DEF Clean, AtMostOnce
<1>7. by[c] = {} => Unknown(c)'
  BY <1>1, <1>2 DEF Clean, Unknown
<1>8. \A q \in Procs : Pending(q, c)' => q # p /\ Pending(q, c)
  BY <1>1 DEF Pending
<1>9. ASSUME NEW q \in Procs \ {p}, Told(q, c) PROVE Told(q, c)'
  BY <1>1, <1>3, <1>5, <1>9 DEF Told, Of
<1>10. ASSUME NEW q \in Procs \ {p}, OnlyAt(q, c) PROVE OnlyAt(q, c)'
  <2>1. ASSUME NEW x \in Of(p) PROVE flush'[x].held[c] = 0
    BY <1>2, <1>5, <1>10 DEF OnlyAt, Of
  <2> QED BY <1>1, <1>3, <1>5, <1>10, <2>1 DEF OnlyAt
<1> QED BY <1>1, <1>6, <1>7, <1>8, <1>9, <1>10 DEF Clean

LEMMA CleanLearn ==
  ASSUME TypeOK, Owners, NEW p \in Procs, NEW o \in Outcomes, LearnOnline(p, o),
         NEW c \in Outcomes, Clean(c)
  PROVE  Clean(c)'
<1>1. UNCHANGED <<stored, baseline>>
  BY DEF LearnOnline
<1>2. /\ by[o] = {} /\ flush[o].at = "none"
      /\ \A q \in Procs \ {p} : Of(q)' = Of(q)
      /\ Of(p)' = Of(p) \union {o}
  BY LearnEffect DEF Of, TypeOK
<1>3. /\ \A x \in Outcomes \ {o} : flush'[x] = flush[x]
      /\ flush'[o] = flush[o] \/ (flush'[o].at = "load" /\ flush'[o].current[c] = learned'[p][c]
                                   /\ flush'[o].held[c] = 0)
  BY LearnEffect
<1>4. /\ \A q \in Procs \ {p} : learned'[q] = learned[q]
      /\ c # o => learned'[p][c] = learned[p][c]
      /\ c = o => learned[p][c] = 0 /\ learned'[p][c] = 1 /\ baseline[p][c] = 0
  BY <1>2, LearnEffect DEF Clean, Unknown, AtMostOnce
<1>5. AtMostOnce(c)'
  <2>1. \A q \in Procs : baseline'[q][c] \in 0..1 /\ learned'[q][c] \in 0..1
                         /\ baseline'[q][c] <= learned'[q][c]
    BY <1>1, <1>4 DEF Clean, AtMostOnce
  <2>2. \A x \in Outcomes : flush'[x].held[c] \in 0..1
    BY <1>3 DEF Clean, AtMostOnce
  <2>3. ASSUME NEW q \in Procs, NEW x \in Of(q)', Active(x)'
        PROVE baseline'[q][c] <= flush'[x].current[c] /\ flush'[x].current[c] <= learned'[q][c]
    <3>1. CASE x = o
      <4>1. q = p
        BY <1>2, <3>1 DEF Of
      <4>2. flush'[x].current[c] = learned'[p][c]
        BY <1>2, <1>3, <2>3, <3>1 DEF Active
      <4> QED BY <2>1, <4>1, <4>2
    <3>2. CASE x # o
      <4>1. x \in Of(q) /\ flush'[x] = flush[x] /\ Active(x)
        BY <1>2, <1>3, <2>3, <3>2 DEF Of, Active
      <4>2. flush[x].current[c] \in Int
        BY <4>1 DEF TypeOK, Sums, Of
      <4> QED BY <1>1, <1>4, <4>1, <4>2 DEF Clean, AtMostOnce
    <3> QED BY <3>1, <3>2
  <2> QED BY <1>1, <2>1, <2>2, <2>3 DEF Clean, AtMostOnce
<1>6. CASE c = o
  <2>1. Unknown(c) /\ p \in by'[c]
    BY <1>2, <1>6, LearnEffect DEF Clean, TypeOK
  <2>2. \A q \in Procs : Pending(q, c)' => q = p
    <3>1. \A q \in Procs : baseline[q][c] = 0
      BY <2>1 DEF Clean, AtMostOnce, Unknown
    <3> QED BY <1>1, <1>4, <2>1, <3>1 DEF Pending, Unknown
  <2>3. \A x \in Outcomes : flush'[x].held[c] = 0
    BY <1>3, <2>1 DEF Unknown
  <2>4. ASSUME NEW x \in Of(p)', flush'[x].at = "save" PROVE flush'[x].current[c] = 0
    <3>1. x # o /\ x \in Of(p) /\ flush'[x] = flush[x] /\ Active(x)
      BY <1>2, <1>3, <2>4 DEF Active, Of
    <3>2. flush[x].current[c] \in Int
      BY <3>1 DEF TypeOK, Sums, Of
    <3> QED BY <1>4, <1>6, <3>1, <3>2 DEF Clean, AtMostOnce
  <2>5. OnlyAt(p, c)'
    BY <1>1, <1>4, <2>1, <2>3, <2>4 DEF OnlyAt, Unknown
  <2> QED BY <1>5, <2>1, <2>2, <2>5 DEF Clean
<1>7. CASE c # o
  <2>1. by'[c] = by[c] /\ \A q \in Procs : learned'[q][c] = learned[q][c]
    BY <1>4, <1>7, LearnEffect DEF TypeOK
  <2>2. by[c] = {} => Unknown(c)'
    BY <1>1, <1>3, <2>1 DEF Clean, Unknown
  <2>3. ASSUME NEW q \in Procs, Told(q, c) PROVE Told(q, c)'
    BY <1>1, <1>2, <1>3, <2>3 DEF Told, Of
  <2>4. ASSUME NEW q \in Procs, OnlyAt(q, c) PROVE OnlyAt(q, c)'
    <3>1. flush'[o].held[c] = 0 /\ flush'[o].at # "save"
      BY <1>2, <1>3, <2>4 DEF OnlyAt
    <3> QED BY <1>1, <1>2, <1>3, <2>1, <2>4, <3>1 DEF OnlyAt
  <2> QED BY <1>1, <1>5, <2>1, <2>2, <2>3, <2>4 DEF Clean, Pending
<1> QED BY <1>6, <1>7

\* Sound is kept by every step.
LEMMA SoundStep == ASSUME TypeOK, Owners, Sound, [Next]_vars PROVE Sound'
<1>1. SUFFICES ASSUME overlap # "any", overlap' = overlap, NEW c \in Outcomes \ unsure'
               PROVE Clean(c)'
  <2>1. overlap' = overlap
    BY DEF Next, LearnOnline, Load, Merge, Save, Adopt, FlushFails, Restart, vars
  <2> QED BY <2>1, OneFlushStep DEF Sound
<1>2. c \notin unsure
  BY DEF Next, LearnOnline, Load, Merge, Save, Adopt, FlushFails, Restart, vars
<1>3. OneFlush /\ Clean(c)
  BY <1>1, <1>2 DEF Sound
<1>4. CASE UNCHANGED vars
  BY <1>3, <1>4 DEF Clean, AtMostOnce, Unknown, Told, OnlyAt, Pending, Active, Of, vars
<1>5. CASE Next
  BY <1>1, <1>3, <1>5, CleanLoad, CleanSave, CleanLearn, CleanMerge, CleanAdopt,
     CleanFlushFails, CleanRestart DEF Next
<1> QED BY <1>4, <1>5

LEMMA InitIInv == Init => IInv
<1> SUFFICES ASSUME Init PROVE IInv
  OBVIOUS
<1>1. /\ \A o \in Outcomes : EmptyBanditState[o] = 0
      /\ EmptyBanditState \in Sums /\ NoFlush.at = "none" /\ NoFlush.held = EmptyBanditState
      /\ NoFlush \in [at : Stages, current : Sums, held : Sums]
  BY DEF EmptyBanditState, Sums, NoFlush, Stages
<1>2. TypeOK
  BY <1>1, FlywheelAssumption DEF Init, TypeOK
<1>3. Owners
  BY <1>1 DEF Init, Owners
<1>4. OneFlush /\ \A o \in Outcomes : AtMostOnce(o) /\ Unknown(o)
  BY <1>1 DEF Init, OneFlush, AtMostOnce, Unknown, Active, Of
<1>5. \A o \in Outcomes, p \in Procs : ~Pending(p, o)
  BY DEF Init, Pending
<1> QED BY <1>2, <1>3, <1>4, <1>5 DEF IInv, Sound, Clean

\* The sums of every bandit, baseline, flush and of the row are sums, whatever fails when.
THEOREM TypeCorrect == Spec => []TypeOK
<1>1. Init => TypeOK
  BY InitIInv DEF IInv
<1>2. TypeOK /\ [Next]_vars => TypeOK'
  BY TypeStep
<1> QED BY <1>1, <1>2, PTL DEF Spec

LEMMA InvariantHolds == Spec => []IInv
<1>1. IInv /\ [Next]_vars => IInv'
  BY TypeStep, OwnersStep, SoundStep DEF IInv
<1> QED BY <1>1, InitIInv, PTL DEF Spec

\* flushBanditState counts no outcome twice, in the row or in a bandit, as long as a process
\* has one flush at a time and learns of its saves: for any processes that overwrite each
\* other's rows, fail and restart.
THEOREM CountedOnce == Spec => []NeverCountedTwice
<1>1. IInv => NeverCountedTwice
  BY DEF IInv, Sound, Clean, AtMostOnce, NeverCountedTwice
<1> QED BY <1>1, InvariantHolds, PTL

-----------------------------------------------------------------------------
\* Where no two flushes overlap, a flush knows the row it replaces.
OneInFlight == \A x, y \in Outcomes : InFlight(x) /\ InFlight(y) => x = y

Kept(o) ==
  /\ \A x \in Outcomes :
       /\ flush[x].at \in {"merge", "adopt"} => flush[x].held[o] = stored[o]
       /\ flush[x].at \in {"save", "orphan"} => flush[x].held[o] >= stored[o]
  /\ \A p \in Procs : \A x \in Of(p) :
       flush[x].at \in {"save", "adopt"} /\ flush[x].current[o] # baseline[p][o]
         => flush[x].held[o] = 1
  /\ \A p \in by[o] : stored[o] = 1 \/ Pending(p, o)

Serial ==
  overlap = "none" => OneInFlight /\ \A o \in Outcomes \ (dropped \union unsure) : Kept(o)

\* OneInFlight is kept by every step: a flush begins when there is none.
LEMMA OneInFlightStep ==
  ASSUME TypeOK, Owners, OneInFlight, overlap = "none", [Next]_vars PROVE OneInFlight'
<1>1. ASSUME NEW p \in Procs, NEW o \in Outcomes, LearnOnline(p, o) PROVE OneInFlight'
  <2>1. \A x \in Outcomes : x # o => InFlight(x)' = InFlight(x)
    BY <1>1, LearnEffect DEF InFlight
  <2>2. InFlight(o)' => \A x \in Outcomes : ~InFlight(x)
    BY <1>1, LearnEffect DEF MayFlush, InFlight
  <2> QED BY <2>1, <2>2 DEF OneInFlight
<1>2. ASSUME \A x \in Outcomes : InFlight(x)' => InFlight(x) PROVE OneInFlight'
  BY <1>2 DEF OneInFlight
<1>3. ASSUME NEW o \in Outcomes, Load(o) PROVE OneInFlight'
  BY <1>2, <1>3, LoadEffect DEF InFlight
<1>4. ASSUME NEW o \in Outcomes, Save(o) PROVE OneInFlight'
  BY <1>2, <1>4, SaveEffect, NoFlushIsEmpty DEF InFlight
<1>5. ASSUME NEW p \in Procs, NEW o \in Outcomes, Merge(p, o) PROVE OneInFlight'
  BY <1>2, <1>5, MergeEffect DEF InFlight
<1>6. ASSUME NEW p \in Procs, NEW o \in Outcomes, Adopt(p, o) \/ FlushFails(p, o)
      PROVE OneInFlight'
  BY <1>2, <1>6, EndEffect, NoFlushIsEmpty DEF InFlight
<1>7. ASSUME NEW p \in Procs, Restart(p) PROVE OneInFlight'
  BY <1>2, <1>7, RestartEffect, NoFlushIsEmpty DEF InFlight
<1>8. CASE UNCHANGED vars
  BY <1>8 DEF OneInFlight, InFlight, vars
<1> QED BY <1>1, <1>3, <1>4, <1>5, <1>6, <1>7, <1>8 DEF Next

\* Kept is kept by every step, about every outcome c that stays unexcused.
LEMMA KeptLoad ==
  ASSUME TypeOK, NEW o \in Outcomes, Load(o), NEW c \in Outcomes, Kept(c)
  PROVE  Kept(c)'
<1>1. UNCHANGED <<stored, learned, baseline, by>> /\ \A p \in Procs : Of(p)' = Of(p)
  BY DEF Load, Of
<1>2. \A x \in Outcomes : flush'[x].at \in {"merge", "adopt"} => flush'[x].held[c] = stored[c]
  BY LoadEffect DEF Kept
<1>3. \A x \in Outcomes : flush'[x].at \in {"save", "orphan"} => flush'[x].held[c] >= stored[c]
  BY LoadEffect DEF Kept
<1>4. \A p \in Procs : \A x \in Of(p) :
        flush'[x].at \in {"save", "adopt"} /\ flush'[x].current[c] # baseline[p][c]
          => flush'[x].held[c] = 1
  BY LoadEffect DEF Kept, Of
<1> QED BY <1>1, <1>2, <1>3, <1>4 DEF Kept, Pending

LEMMA KeptMerge ==
  ASSUME TypeOK, Owners, OneFlush, NEW p \in Procs, NEW o \in Outcomes, Merge(p, o),
         NEW c \in Outcomes, Clean(c), Kept(c)
  PROVE  Kept(c)'
<1>1. /\ UNCHANGED <<stored, learned, baseline, by>> /\ \A q \in Procs : Of(q)' = Of(q)
      /\ o \in Of(p) /\ Active(o)
  BY DEF Merge, Of, Active
<1>2. /\ baseline[p][c] \in 0..1 /\ learned[p][c] \in 0..1 /\ flush[o].current[c] \in Int
      /\ baseline[p][c] <= flush[o].current[c] /\ flush[o].current[c] <= learned[p][c]
      /\ stored[c] \in 0..1
  BY <1>1 DEF TypeOK, Sums, Clean, AtMostOnce
<1>3. Pending(p, c) => flush[o].held[c] = 0
  BY <1>1, MergeEffect DEF Clean, Told, OnlyAt, OneFlush, Active
<1>4. /\ flush'[o].held[c] = flush[o].held[c] + (flush[o].current[c] - baseline[p][c])
      /\ flush[o].held[c] = stored[c]
  BY MergeEffect DEF Kept
<1>5. flush'[o].held[c] >= stored[c]
  BY <1>2, <1>4
<1>6. flush[o].current[c] # baseline[p][c] => flush'[o].held[c] = 1
  BY <1>2, <1>3, <1>4 DEF Pending
<1>7. \A q \in Procs : o \in Of(q) => q = p
  BY <1>1 DEF Owners, Of
<1>8. \A x \in Outcomes : flush'[x].at \in {"merge", "adopt"} => flush'[x].held[c] = stored[c]
  BY MergeEffect DEF Kept
<1>9. \A x \in Outcomes : flush'[x].at \in {"save", "orphan"} => flush'[x].held[c] >= stored[c]
  BY <1>5, MergeEffect DEF Kept
<1>10. \A q \in Procs : \A x \in Of(q) :
         flush'[x].at \in {"save", "adopt"} /\ flush'[x].current[c] # baseline[q][c]
           => flush'[x].held[c] = 1
  BY <1>6, <1>7, MergeEffect DEF Kept, Of
<1> QED BY <1>1, <1>8, <1>9, <1>10 DEF Kept, Pending

LEMMA KeptSave ==
  ASSUME TypeOK, OneInFlight, NEW o \in Outcomes, Save(o), NEW c \in Outcomes, Clean(c), Kept(c)
  PROVE  Kept(c)'
<1>1. /\ UNCHANGED <<learned, baseline, by>> /\ \A q \in Procs : Of(q)' = Of(q)
      /\ stored'[c] = flush[o].held[c]
  BY SaveEffect DEF Save, Of
<1>2. \A x \in Outcomes \ {o} : flush'[x].at = "none"
  BY SaveEffect DEF OneInFlight, InFlight
<1>3. stored[c] \in 0..1 /\ stored'[c] \in 0..1 /\ stored'[c] >= stored[c]
  BY <1>1, SaveEffect DEF Clean, AtMostOnce, Kept
<1>4. \A x \in Outcomes : flush'[x].at \in {"merge", "adopt"} => flush'[x].held[c] = stored'[c]
  BY <1>1, <1>2, SaveEffect, NoFlushIsEmpty
<1>5. \A x \in Outcomes : flush'[x].at \notin {"save", "orphan"}
  BY <1>2, SaveEffect, NoFlushIsEmpty
<1>6. \A q \in Procs : \A x \in Of(q) :
        flush'[x].at \in {"save", "adopt"} /\ flush'[x].current[c] # baseline[q][c]
          => flush'[x].held[c] = 1
  BY <1>2, SaveEffect, NoFlushIsEmpty DEF Kept, Of
<1>7. \A q \in by[c] : stored'[c] = 1 \/ Pending(q, c)
  BY <1>3 DEF Kept
<1> QED BY <1>1, <1>4, <1>5, <1>6, <1>7 DEF Kept, Pending

LEMMA KeptEnd ==
  ASSUME TypeOK, OneInFlight, NEW p \in Procs, NEW o \in Outcomes,
         Adopt(p, o) \/ FlushFails(p, o), NEW c \in Outcomes \ dropped', Kept(c)
  PROVE  Kept(c)'
<1>1. UNCHANGED <<stored, by>> /\ \A q \in Procs : Of(q)' = Of(q) /\ o \in Of(p)
  BY DEF Adopt, FlushFails, Of
<1>2. \A q \in Procs \ {p} : learned'[q] = learned[q] /\ baseline'[q] = baseline[q]
  BY DEF Adopt, FlushFails, TypeOK
<1>3. \A x \in Outcomes : flush'[x].at \in {"merge", "adopt"} => flush'[x].held[c] = stored[c]
  BY EndEffect, NoFlushIsEmpty DEF Kept
<1>4. \A x \in Outcomes : flush'[x].at \in {"save", "orphan"} => flush'[x].held[c] >= stored[c]
  BY EndEffect, NoFlushIsEmpty DEF Kept
<1>5. CASE FlushFails(p, o)
  <2>1. UNCHANGED <<learned, baseline>>
    BY <1>5 DEF FlushFails
  <2>2. \A q \in Procs : \A x \in Of(q) :
          flush'[x].at \in {"save", "adopt"} /\ flush'[x].current[c] # baseline[q][c]
            => flush'[x].held[c] = 1
    BY EndEffect, NoFlushIsEmpty DEF Kept, Of
  <2> QED BY <1>1, <1>3, <1>4, <2>1, <2>2 DEF Kept, Pending
<1>6. CASE Adopt(p, o)
  <2>1. flush[o].at = "adopt" /\ learned[p][c] = flush[o].current[c]
    BY <1>6 DEF Adopt, Overtaken
  <2>2. p \in by[c] => stored[c] = 1
    BY <1>1, <2>1 DEF Kept, Pending
  <2>3. \A q \in by[c] : stored'[c] = 1 \/ Pending(q, c)'
    <3>1. by[c] \subseteq Procs
      BY DEF TypeOK
    <3> QED BY <1>1, <1>2, <2>2, <3>1 DEF Kept, Pending
  <2>4. ASSUME NEW q \in Procs, NEW x \in Of(q), flush'[x].at \in {"save", "adopt"},
               flush'[x].current[c] # baseline'[q][c]
        PROVE flush'[x].held[c] = 1
    <3>1. x # o /\ flush'[x] = flush[x] /\ InFlight(x) /\ InFlight(o)
      BY <2>1, <2>4, EndEffect, NoFlushIsEmpty DEF InFlight, Of
    <3> QED BY <3>1 DEF OneInFlight, Of
  <2> QED BY <1>1, <1>3, <1>4, <2>3, <2>4 DEF Kept
<1> QED BY <1>5, <1>6

LEMMA KeptRestart ==
  ASSUME TypeOK, Owners, NEW p \in Procs, Restart(p),
         NEW c \in Outcomes \ dropped', Kept(c)
  PROVE  Kept(c)'
<1>1. /\ UNCHANGED <<stored, by>>
      /\ \A q \in Procs : Of(q)' = Of(q)
      /\ \A q \in Procs \ {p} : learned'[q] = learned[q] /\ baseline'[q] = baseline[q]
  BY DEF Restart, Of, TypeOK
<1>2. ~Pending(p, c)
  BY DEF Restart, Delta, Pending
<1>3. \A q \in by[c] : stored[c] = 1 \/ Pending(q, c)'
  <2>1. by[c] \subseteq Procs
    BY DEF TypeOK
  <2> QED BY <1>1, <1>2, <2>1 DEF Kept, Pending
<1>4. \A x \in Outcomes : flush'[x].at \in {"merge", "adopt"} => flush'[x].held[c] = stored[c]
  BY RestartEffect, NoFlushIsEmpty DEF Kept
<1>5. \A x \in Outcomes : flush'[x].at \in {"save", "orphan"} => flush'[x].held[c] >= stored[c]
  BY RestartEffect, NoFlushIsEmpty DEF Kept
<1>6. ASSUME NEW q \in Procs, NEW x \in Of(q), flush'[x].at \in {"save", "adopt"},
             flush'[x].current[c] # baseline'[q][c]
      PROVE flush'[x].held[c] = 1
  <2>1. x \notin Of(p) /\ flush'[x] = flush[x]
    BY <1>6, RestartEffect, NoFlushIsEmpty DEF Of
  <2> QED BY <1>1, <1>6, <2>1 DEF Kept
<1> QED BY <1>1, <1>3, <1>4, <1>5, <1>6 DEF Kept

LEMMA KeptLearn ==
  ASSUME TypeOK, Owners, NEW p \in Procs, NEW o \in Outcomes, LearnOnline(p, o),
         NEW c \in Outcomes, Clean(c), Kept(c)
  PROVE  Kept(c)'
<1>1. UNCHANGED <<stored, baseline>>
  BY DEF LearnOnline
<1>2. \A x \in Outcomes : flush'[x].at \in {"merge", "adopt", "save", "orphan"}
                            => x # o /\ flush'[x] = flush[x]
  BY LearnEffect
<1>3. \A q \in Procs : \A x \in Of(q)' : x # o => x \in Of(q)
  BY LearnEffect DEF Of, TypeOK
<1>4. \A q \in by'[c] : stored[c] = 1 \/ Pending(q, c)'
  <2>1. CASE c = o
    <3>1. by'[c] = {p} /\ learned'[p][c] = 1 /\ baseline[p][c] = 0
      BY <2>1, LearnEffect DEF TypeOK, Clean, Unknown, AtMostOnce
    <3> QED BY <1>1, <3>1 DEF Pending
  <2>2. CASE c # o
    <3>1. by'[c] = by[c] /\ by[c] \subseteq Procs
      BY <2>2, LearnEffect DEF TypeOK
    <3>2. ASSUME NEW q \in Procs PROVE learned'[q][c] = learned[q][c]
      BY <2>2, LearnEffect
    <3> QED BY <1>1, <3>1, <3>2 DEF Kept, Pending
  <2> QED BY <2>1, <2>2
<1>5. \A q \in Procs : \A x \in Of(q)' :
        flush'[x].at \in {"save", "adopt"} /\ flush'[x].current[c] # baseline[q][c]
          => flush'[x].held[c] = 1
  BY <1>2, <1>3 DEF Kept, Of
<1>6. \A x \in Outcomes :
        /\ flush'[x].at \in {"merge", "adopt"} => flush'[x].held[c] = stored[c]
        /\ flush'[x].at \in {"save", "orphan"} => flush'[x].held[c] >= stored[c]
  BY <1>2 DEF Kept
<1> QED BY <1>1, <1>4, <1>5, <1>6 DEF Kept

\* Serial is kept by every step.
LEMMA SerialStep == ASSUME IInv, Serial, [Next]_vars PROVE Serial'
<1>1. overlap' = overlap /\ dropped \union unsure \subseteq dropped' \union unsure'
  BY DEF Next, LearnOnline, Load, Merge, Save, Adopt, FlushFails, Restart, vars
<1>2. SUFFICES ASSUME overlap = "none", NEW c \in Outcomes \ (dropped' \union unsure')
               PROVE Kept(c)'
  BY <1>1, OneInFlightStep DEF IInv, Serial
<1>3. TypeOK /\ Owners /\ OneFlush /\ OneInFlight /\ Clean(c) /\ Kept(c)
  BY <1>1, <1>2 DEF IInv, Sound, Serial
<1>4. CASE UNCHANGED vars
  BY <1>3, <1>4 DEF Kept, Pending, Of, vars
<1>5. CASE Next
  BY <1>3, <1>5, KeptLoad, KeptSave, KeptLearn, KeptMerge, KeptEnd, KeptRestart DEF Next
<1> QED BY <1>4, <1>5

\* What was learned is in the row, or will be in the next flush of the process that learned
\* it, where flushes do not overlap: a flush that fails costs nothing (flushBanditState).
THEOREM NothingLearnedIsLost == Spec => []NothingIsLost
<1>1. Init => Serial
  <2>1. ASSUME Init PROVE OneInFlight /\ \A o \in Outcomes : Kept(o)
    BY <2>1, NoFlushIsEmpty DEF Init, OneInFlight, InFlight, Kept, Of
  <2> QED BY <2>1 DEF Serial
<1>2. IInv /\ Serial /\ [Next]_vars => Serial'
  BY SerialStep
<1>3. Serial => NothingIsLost
  BY DEF Serial, Kept, NothingIsLost
<1> QED BY <1>1, <1>2, <1>3, InvariantHolds, PTL DEF Spec
=============================================================================
