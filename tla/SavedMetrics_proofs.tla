-------------------------- MODULE SavedMetrics_proofs --------------------------
(* For any records, workers and bounds: a run is superseded once, and a paused  *)
(* policy publishes nothing; for any tenants, what the queue of their cycles    *)
(* tells a shutdown is exact; for any batches and records, an event of the      *)
(* inbox has one record, a processed batch is complete, and an install is       *)
(* attributed to its click whichever came first.                                *)
(*                                                                              *)
(* The first two rest on what a calculation holds from its start to its commit: *)
(* the lock of the run it supersedes, so that no other calculation supersedes   *)
(* it, and the row of the policy, so that no pause is saved meanwhile.  The     *)
(* third rests on the tenants that wait or run being there once each (PoolInv), *)
(* the others on what a drain has decided and not yet written (InboxInv).       *)
EXTENDS MetricCycles, FiniteSetTheorems, SequenceTheorems, WellFoundedInduction, TLAPS

\* The fields of an item that the argument reads.
HasFields(item) ==
  {"source", "kind", "state"} \subseteq DOMAIN item

SequencesOK ==
  /\ \E S : runs \in Seq(S)
  /\ \E S : items \in Seq(S)
  /\ \A i \in DOMAIN items : HasFields(items[i])
  /\ \A n \in DOMAIN runs : "of" \in DOMAIN runs[n]

Calculating == {w \in Workers : worker[w].at = "calculating"}
Source(w) == items[worker[w].item].source

\* The lineage begins with the schedule's run: before it there is nothing to do.
ScheduleFirst ==
  /\ "state" \in DOMAIN schedule
  /\ schedule.state # "computed" => runs = <<>>
  /\ runs = <<>> => items = <<>>

WorkersOK ==
  /\ worker = [w \in Workers |-> worker[w]]
  /\ \A w \in Workers :
       worker[w].at # "idle" => worker[w].item \in DOMAIN items

\* What a calculation holds.
LocksHeld ==
  /\ \A w \in Calculating : ~Superseded(Source(w))
  /\ \A v, w \in Calculating : Source(v) = Source(w) => v = w
  /\ \A w \in Calculating : Automatic(worker[w].item) => enabled

IInv == SequencesOK /\ ScheduleFirst /\ WorkersOK /\ LocksHeld /\ NoForks

\* What every step but Publish does to an item that is there: it stays the item
\* it is and is not completed.
ItemsStay ==
  \A i \in DOMAIN items :
    /\ i \in DOMAIN items'
    /\ items'[i].source = items[i].source /\ items'[i].kind = items[i].kind
Uncompleted ==
  \A i \in DOMAIN items :
    items'[i].state = "completed" => items[i].state = "completed"

-----------------------------------------------------------------------------
LEMMA Initially ==
  Init => IInv
<1> SUFFICES ASSUME Init
             PROVE  IInv
  OBVIOUS
<1>1. runs \in Seq({}) /\ DOMAIN runs = {} /\ items \in Seq({}) /\ DOMAIN items = {}
  BY DEF Init
<1>2. \A w \in Workers : worker[w].at = "idle"
  BY DEF Init, Idle
<1> QED
  BY <1>1, <1>2 DEF Init, IInv, SequencesOK, ScheduleFirst, WorkersOK,
       LocksHeld, NoForks, Calculating

\* The items rewritten at their places, and one appended.
LEMMA ItemsRewritten ==
  ASSUME IInv, items' = [i \in DOMAIN items |-> items'[i]],
         \A i \in DOMAIN items : HasFields(items'[i])
  PROVE  /\ \E S : items' \in Seq(S)
         /\ DOMAIN items' = DOMAIN items
         /\ \A i \in DOMAIN items' : HasFields(items'[i])
         /\ items = <<>> => items' = <<>>
<1>1. PICK S : items \in Seq(S)
  BY DEF IInv, SequencesOK
<1> DEFINE T == {items'[i] : i \in DOMAIN items}
<1>2. DOMAIN items = 1..Len(items) /\ Len(items) \in Nat
  BY <1>1
<1>3. DOMAIN items' = DOMAIN items
  OBVIOUS
<1>4. items' \in [1..Len(items) -> T]
  BY <1>2
<1>5. items' \in Seq(T)
  BY <1>2, <1>4
<1>6. items = <<>> => items' = <<>>
  BY <1>2, <1>3, <1>5
<1> QED
  BY <1>3, <1>5, <1>6

LEMMA ItemAppended ==
  ASSUME IInv, NEW item, HasFields(item), items' = Append(items, item)
  PROVE  /\ \E S : items' \in Seq(S)
         /\ \A i \in DOMAIN items' : HasFields(items'[i])
         /\ ItemsStay /\ Uncompleted
<1>1. PICK S : items \in Seq(S)
  BY DEF IInv, SequencesOK
<1>2. items \in Seq(S \cup {item}) /\ item \in S \cup {item}
  BY <1>1
<1>3. items' \in Seq(S \cup {item})
  BY <1>2
<1>4. /\ DOMAIN items' = DOMAIN items \cup {Len(items) + 1}
      /\ \A i \in DOMAIN items : items'[i] = items[i]
      /\ items'[Len(items) + 1] = item
  BY <1>2
<1> QED
  BY <1>3, <1>4 DEF IInv, SequencesOK, ItemsStay, Uncompleted

\* A step that publishes nothing and in which no calculation begins.
LEMMA QuietKeeps ==
  ASSUME IInv, UNCHANGED runs,
         \/ schedule' = schedule
         \/ /\ items = <<>> /\ runs = <<>> /\ UNCHANGED items
            /\ "state" \in DOMAIN schedule',
         \E S : items' \in Seq(S), \A i \in DOMAIN items' : HasFields(items'[i]),
         ItemsStay, runs = <<>> => UNCHANGED items,
         worker' = [w \in Workers |-> worker'[w]],
         \A w \in Workers : \/ worker'[w] = worker[w]
                            \/ worker'[w].at = "idle"
                            \/ /\ worker'[w].at = "claimed"
                               /\ worker'[w].item \in DOMAIN items,
         enabled' = enabled \/ PolicyFree
  PROVE  IInv'
<1>1. SequencesOK'
  BY DEF IInv, SequencesOK
<1>2. ScheduleFirst'
  BY DEF IInv, ScheduleFirst
<1>3. WorkersOK'
  BY DEF IInv, WorkersOK, ItemsStay
<1>4. ASSUME NEW w \in Calculating'
      PROVE  /\ w \in Calculating /\ worker'[w] = worker[w]
             /\ worker[w].item \in DOMAIN items
             /\ Source(w)' = Source(w)
             /\ Automatic(worker[w].item)' = Automatic(worker[w].item)
  BY DEF IInv, WorkersOK, ItemsStay, Calculating, Source, Automatic
<1>5. LocksHeld'
  <2>1. \A w \in Calculating' : ~Superseded(Source(w))'
    BY <1>4 DEF IInv, LocksHeld, Superseded
  <2>2. \A v, w \in Calculating' : Source(v)' = Source(w)' => v = w
    BY <1>4 DEF IInv, LocksHeld
  <2>3. \A w \in Calculating' : Automatic(worker[w].item)' => enabled'
    BY <1>4 DEF IInv, LocksHeld, PolicyFree, Calculating
  <2> QED
    BY <2>1, <2>2, <2>3 DEF LocksHeld
<1>6. NoForks'
  BY DEF IInv, NoForks
<1> QED
  BY <1>1, <1>2, <1>3, <1>5, <1>6 DEF IInv

-----------------------------------------------------------------------------
\* What a rewritten item keeps.
LEMMA EndedKeeps ==
  ASSUME NEW item, HasFields(item), NEW reached
  PROVE  /\ HasFields(Ended(item, reached))
         /\ Ended(item, reached).source = item.source
         /\ Ended(item, reached).kind = item.kind
         /\ Ended(item, reached).state = reached
BY DEF HasFields, Ended

LEMMA ExhaustKeeps ==
  ASSUME IInv
  PROVE  /\ DOMAIN Exhaust = DOMAIN items
         /\ \A i \in DOMAIN items :
              /\ HasFields(Exhaust[i])
              /\ Exhaust[i].source = items[i].source
              /\ Exhaust[i].kind = items[i].kind
              /\ Exhaust[i].state = "completed" => items[i].state = "completed"
BY EndedKeeps DEF Exhaust, IInv, SequencesOK

\* The steps outside the workers' own.
LEMMA OthersKeep ==
  ASSUME IInv, UNCHANGED <<runs, items, worker>>,
         enabled' = enabled \/ PolicyFree,
         \/ schedule' = schedule
         \/ /\ schedule.state # "computed" /\ "state" \in DOMAIN schedule'
  PROVE  IInv' /\ Uncompleted
<1>1. ItemsStay /\ Uncompleted
  BY DEF ItemsStay, Uncompleted
<1>2. schedule.state # "computed" => items = <<>> /\ runs = <<>>
  BY DEF IInv, ScheduleFirst
<1>3. /\ \E S : items' \in Seq(S)
      /\ \A i \in DOMAIN items' : HasFields(items'[i])
      /\ worker' = [w \in Workers |-> worker'[w]]
  BY DEF IInv, SequencesOK, WorkersOK
<1> QED
  BY <1>1, <1>2, <1>3, QuietKeeps

\* An item that is appended, by a recognition, a plan or a request.
LEMMA AppendingKeeps ==
  ASSUME IInv, UNCHANGED <<runs, worker, schedule, enabled>>, runs # <<>>,
         NEW item, HasFields(item), items' = Append(items, item)
  PROVE  IInv' /\ Uncompleted
<1>1. /\ \E S : items' \in Seq(S)
      /\ \A i \in DOMAIN items' : HasFields(items'[i])
      /\ ItemsStay /\ Uncompleted
  BY ItemAppended
<1>2. worker' = [w \in Workers |-> worker'[w]]
  BY DEF IInv, WorkersOK
<1> QED
  BY <1>1, <1>2, QuietKeeps

LEMMA ItemHasFields ==
  ASSUME NEW kind, NEW source, NEW sources, NEW watermark, NEW reached
  PROVE  HasFields(Item(kind, source, sources, watermark, reached))
BY DEF HasFields, Item

\* A worker that claims, ends or gives up, with items rewritten at their places.
LEMMA RewritingKeeps ==
  ASSUME IInv, UNCHANGED <<runs, schedule, enabled>>,
         items' = [i \in DOMAIN items |-> items'[i]],
         \A i \in DOMAIN items :
           /\ HasFields(items'[i])
           /\ items'[i].source = items[i].source /\ items'[i].kind = items[i].kind
           /\ items'[i].state = "completed" => items[i].state = "completed",
         worker' = [w \in Workers |-> worker'[w]],
         \A w \in Workers : \/ worker'[w] = worker[w]
                            \/ worker'[w].at = "idle"
                            \/ /\ worker'[w].at = "claimed"
                               /\ worker'[w].item \in DOMAIN items
  PROVE  IInv' /\ Uncompleted
<1>1. /\ \E S : items' \in Seq(S)
      /\ DOMAIN items' = DOMAIN items
      /\ \A i \in DOMAIN items' : HasFields(items'[i])
  BY ItemsRewritten
<1>2. ItemsStay /\ Uncompleted
  BY <1>1 DEF ItemsStay, Uncompleted
<1>3. runs = <<>> => UNCHANGED items
  <2>1. ASSUME runs = <<>>
        PROVE  items = <<>> /\ items' = <<>>
    <3>1. items = <<>>
      BY <2>1 DEF IInv, ScheduleFirst, NoForks
    <3> QED
      BY <3>1, ItemsRewritten
  <2> QED
    BY <2>1
<1> QED
  BY <1>1, <1>2, <1>3, QuietKeeps

\* A calculation begins with the lock of its run, the policy's row and the item.
LEMMA BeginKeeps ==
  ASSUME IInv, NEW w \in Workers, Begin(w)
  PROVE  IInv' /\ Uncompleted
<1>0. PICK i : i = worker[w].item
  OBVIOUS
<1>1. /\ i \in DOMAIN items /\ UNCHANGED <<runs, items, schedule, enabled>>
      /\ \A v \in Calculating : Source(v) # items[i].source
      /\ ~Superseded(items[i].source)
      /\ Automatic(i) => enabled
  BY <1>0 DEF Begin, IInv, WorkersOK, RunLocked, Calculates, Calculating, Source,
       saved, policy
<1>2. /\ worker' = [v \in Workers |-> worker'[v]]
      /\ worker'[w].at = "calculating" /\ worker'[w].item = i
      /\ \A v \in Workers : v # w => worker'[v] = worker[v]
  BY <1>0 DEF Begin, IInv, WorkersOK
<1>3. WorkersOK'
  BY <1>1, <1>2 DEF IInv, WorkersOK
<1>4. /\ Calculating' = Calculating \cup {w} /\ w \notin Calculating
      /\ Source(w)' = items[i].source
      /\ \A v \in Calculating : v # w /\ Source(v)' = Source(v)
  BY <1>1, <1>2 DEF Begin, Calculating, Source
<1>5. LocksHeld'
  <2>0. ASSUME NEW v \in Calculating
        PROVE  /\ ~Superseded(Source(v))' /\ v # w
               /\ Automatic(worker[v].item)' => enabled'
    <3>1. v # w /\ Source(v)' = Source(v) /\ worker'[v] = worker[v]
      BY <1>2, <1>4 DEF Calculating
    <3>2. ~Superseded(Source(v)) /\ (Automatic(worker[v].item) => enabled)
      BY DEF IInv, LocksHeld
    <3> QED
      BY <1>1, <3>1, <3>2 DEF Superseded, Automatic
  <2>1. ~Superseded(Source(w))'
    BY <1>1, <1>4 DEF Superseded
  <2>2. \A u, v \in Calculating' : Source(u)' = Source(v)' => u = v
    BY <1>1, <1>4 DEF IInv, LocksHeld
  <2>3. Automatic(worker[w].item)' => enabled'
    BY <1>1, <1>2 DEF Automatic
  <2> QED
    BY <1>4, <2>0, <2>1, <2>2, <2>3 DEF LocksHeld
<1>6. SequencesOK' /\ ScheduleFirst' /\ NoForks' /\ Uncompleted
  BY <1>1 DEF IInv, SequencesOK, ScheduleFirst, NoForks, Uncompleted
<1> QED
  BY <1>3, <1>5, <1>6 DEF IInv

\* The run that is published supersedes one that nothing else supersedes, and no
\* other calculation is on its way to supersede it.
LEMMA PublishKeeps ==
  ASSUME IInv, NEW w \in Workers, Publish(w)
  PROVE  /\ IInv'
         /\ \A j \in DOMAIN items :
              items'[j].state = "completed" /\ items[j].state # "completed"
                => j = worker[w].item
<1> DEFINE i == worker[w].item
           run == [of |-> items[i].source, evidence |-> worker[w].evidence,
                   counted |-> worker[w].counted, watermark |-> items[i].watermark]
<1>1. /\ i \in DOMAIN items /\ w \in Calculating /\ Source(w) = items[i].source
      /\ UNCHANGED <<schedule, enabled>>
  BY DEF Publish, IInv, WorkersOK, Calculating, Source, policy
<1>2. /\ items' = [j \in DOMAIN items |-> items'[j]]
      /\ \A j \in DOMAIN items :
           items'[j] = IF j = i THEN Ended(items[j], "completed") ELSE items[j]
  BY DEF Publish
<1>3. \A j \in DOMAIN items :
        /\ HasFields(items'[j])
        /\ items'[j].source = items[j].source /\ items'[j].kind = items[j].kind
  BY <1>2, EndedKeeps DEF IInv, SequencesOK
<1>4. /\ \E S : items' \in Seq(S)
      /\ DOMAIN items' = DOMAIN items
      /\ \A j \in DOMAIN items' : HasFields(items'[j])
  BY <1>2, <1>3, ItemsRewritten
<1>5. PICK S : runs \in Seq(S)
  BY DEF IInv, SequencesOK
<1>6. /\ runs \in Seq(S \cup {run}) /\ run \in S \cup {run}
      /\ runs' = Append(runs, run)
  BY <1>5 DEF Publish
<1>7. /\ runs' \in Seq(S \cup {run}) /\ runs' # <<>>
      /\ DOMAIN runs' = DOMAIN runs \cup {Len(runs) + 1}
      /\ Len(runs) + 1 \notin DOMAIN runs
      /\ \A n \in DOMAIN runs : runs'[n] = runs[n]
      /\ runs'[Len(runs) + 1] = run
  <2> HIDE DEF run
  <2> QED
    BY <1>6
<1>8. run.of = Source(w) /\ "of" \in DOMAIN run
  BY <1>1
<1> HIDE DEF run
<1>9. \A n \in DOMAIN runs' :
        \/ n \in DOMAIN runs /\ runs'[n] = runs[n]
        \/ n = Len(runs) + 1 /\ runs'[n] = run
  BY <1>7
<1>10. \A n \in DOMAIN runs : runs[n].of # Source(w)
  BY <1>1 DEF IInv, LocksHeld, Superseded
<1>11. NoForks'
  BY <1>8, <1>9, <1>10 DEF IInv, NoForks
<1>12. SequencesOK'
  BY <1>4, <1>7, <1>8, <1>9 DEF IInv, SequencesOK
<1>13. ScheduleFirst'
  <2>1. items # <<>>
    BY <1>1
  <2> QED
    BY <1>1, <1>7, <2>1 DEF IInv, ScheduleFirst
<1>14. /\ worker' = [v \in Workers |-> worker'[v]]
       /\ worker'[w] = Idle
       /\ \A v \in Workers : v # w => worker'[v] = worker[v]
  BY DEF Publish, IInv, WorkersOK
<1>15. WorkersOK'
  BY <1>4, <1>14 DEF IInv, WorkersOK, Idle
<1>16. ASSUME NEW v \in Calculating'
       PROVE  /\ v \in Calculating /\ v # w /\ worker'[v] = worker[v]
              /\ worker[v].item \in DOMAIN items
              /\ Source(v)' = Source(v) /\ Source(v) # Source(w)
              /\ Automatic(worker[v].item)' = Automatic(worker[v].item)
  <2>1. /\ v \in Calculating /\ v # w /\ worker'[v] = worker[v]
        /\ worker[v].item \in DOMAIN items
    BY <1>14 DEF Calculating, Idle, IInv, WorkersOK
  <2> QED
    BY <1>1, <1>3, <2>1 DEF IInv, LocksHeld, Source, Automatic
<1>17. LocksHeld'
  <2>1. \A v \in Calculating' : ~Superseded(Source(v))'
    BY <1>8, <1>9, <1>16 DEF IInv, LocksHeld, Superseded
  <2>2. \A u, v \in Calculating' : Source(u)' = Source(v)' => u = v
    BY <1>16 DEF IInv, LocksHeld
  <2>3. \A v \in Calculating' : Automatic(worker[v].item)' => enabled'
    BY <1>1, <1>16 DEF IInv, LocksHeld
  <2> QED
    BY <2>1, <2>2, <2>3 DEF LocksHeld
<1> QED
  BY <1>2, <1>11, <1>12, <1>13, <1>15, <1>17 DEF IInv

\* The schedule's run is the first one.
LEMMA PersistKeeps ==
  ASSUME IInv, Persist
  PROVE  IInv' /\ Uncompleted
<1> DEFINE run == [of |-> 0, evidence |-> schedule.evidence,
                   counted |-> schedule.counted, watermark |-> schedule.watermark]
<1>1. /\ items = <<>> /\ runs' = <<run>> /\ UNCHANGED <<items, worker, enabled>>
      /\ schedule'.state = "computed" /\ "state" \in DOMAIN schedule'
  BY DEF Persist, IInv, ScheduleFirst, policy
<1>2. runs' \in Seq({run}) /\ DOMAIN runs' = {1} /\ runs'[1] = run
  <2> HIDE DEF run
  <2> QED
    BY <1>1
<1>3. SequencesOK' /\ NoForks'
  <2>1. NoForks'
    BY <1>2 DEF NoForks
  <2>2. (\E S : runs' \in Seq(S)) /\ \A n \in DOMAIN runs' : "of" \in DOMAIN runs'[n]
    BY <1>2
  <2>3. (\E S : items' \in Seq(S)) /\ \A i \in DOMAIN items' : HasFields(items'[i])
    BY <1>1 DEF IInv, SequencesOK
  <2> QED
    BY <2>1, <2>2, <2>3 DEF SequencesOK
<1>4. ScheduleFirst' /\ Uncompleted
  BY <1>1 DEF ScheduleFirst, Uncompleted
<1>5. DOMAIN items = {}
  BY <1>1
<1>6. Calculating' = {} /\ WorkersOK'
  BY <1>1, <1>5 DEF IInv, WorkersOK, Calculating
<1> QED
  BY <1>3, <1>4, <1>6 DEF IInv, LocksHeld

-----------------------------------------------------------------------------
\* A worker's step that only ends what it had, with one item rewritten.
LEMMA EndingKeeps ==
  ASSUME IInv, NEW w \in Workers, UNCHANGED <<runs, schedule, enabled>>,
         worker' = [worker EXCEPT ![w] = Idle],
         NEW i, NEW item, HasFields(item), item.state # "completed",
         i \in DOMAIN items => item.source = items[i].source
                               /\ item.kind = items[i].kind,
         items' = items \/ items' = [items EXCEPT ![i] = item]
  PROVE  IInv' /\ Uncompleted
<1>1. /\ worker' = [v \in Workers |-> worker'[v]]
      /\ \A v \in Workers : worker'[v] = worker[v] \/ worker'[v].at = "idle"
  BY DEF Idle, IInv, WorkersOK
<1>2. /\ items' = [j \in DOMAIN items |-> items'[j]]
      /\ \A j \in DOMAIN items :
           items'[j] = items[j] \/ (j = i /\ items'[j] = item)
  <2>1. items = [j \in DOMAIN items |-> items[j]]
    BY DEF IInv, SequencesOK
  <2> QED
    BY <2>1
<1>3. \A j \in DOMAIN items :
        /\ HasFields(items'[j])
        /\ items'[j].source = items[j].source /\ items'[j].kind = items[j].kind
        /\ items'[j].state = "completed" => items[j].state = "completed"
  BY <1>2 DEF IInv, SequencesOK
<1> QED
  BY <1>1, <1>2, <1>3, RewritingKeeps

LEMMA ClaimKeeps ==
  ASSUME IInv, NEW w \in Workers,
         (\E i \in DOMAIN items : ClaimNext(w, i)) \/ NothingToClaim(w)
  PROVE  IInv' /\ Uncompleted
<1>1. ASSUME NEW i \in DOMAIN items, ClaimNext(w, i)
      PROVE  IInv' /\ Uncompleted
  <2>1. /\ UNCHANGED <<runs, schedule, enabled>>
        /\ worker' = [worker EXCEPT ![w] = [at |-> "claimed", item |-> i]]
    BY <1>1 DEF ClaimNext, saved, policy
  <2>2. /\ worker' = [v \in Workers |-> worker'[v]]
        /\ \A v \in Workers :
             worker'[v] = worker[v] \/ (worker'[v].at = "claimed" /\ worker'[v].item = i)
    BY <2>1 DEF IInv, WorkersOK
  <2> DEFINE E == Exhaust
  <2>3. items' = [E EXCEPT ![i].state = "processing", ![i].attempts = @ + 1,
                           ![i].holder = w, ![i].live = TRUE]
    BY <1>1 DEF ClaimNext
  <2>4. /\ DOMAIN E = DOMAIN items
        /\ \A j \in DOMAIN items :
             /\ HasFields(E[j])
             /\ E[j].source = items[j].source /\ E[j].kind = items[j].kind
             /\ E[j].state = "completed" => items[j].state = "completed"
    BY ExhaustKeeps
  <2> HIDE DEF E
  <2>5. items' = [j \in DOMAIN items |-> items'[j]]
    BY <2>3, <2>4
  <2>6. /\ \A j \in DOMAIN items : j # i => items'[j] = E[j]
        /\ HasFields(items'[i]) /\ items'[i].source = E[i].source
        /\ items'[i].kind = E[i].kind /\ items'[i].state = "processing"
    BY <2>3, <2>4 DEF HasFields
  <2>7. \A j \in DOMAIN items :
          /\ HasFields(items'[j])
          /\ items'[j].source = items[j].source /\ items'[j].kind = items[j].kind
          /\ items'[j].state = "completed" => items[j].state = "completed"
    BY <2>4, <2>6
  <2> QED
    BY <2>1, <2>2, <2>5, <2>7, RewritingKeeps
<1>2. ASSUME NothingToClaim(w)
      PROVE  IInv' /\ Uncompleted
  <2>1. /\ UNCHANGED <<runs, schedule, enabled, worker>> /\ items' = Exhaust
    BY <1>2 DEF NothingToClaim, saved, policy
  <2>2. items' = [j \in DOMAIN items |-> items'[j]]
    BY <2>1 DEF Exhaust
  <2>3. worker' = [v \in Workers |-> worker'[v]]
    BY <2>1 DEF IInv, WorkersOK
  <2> QED
    BY <2>1, <2>2, <2>3, ExhaustKeeps, RewritingKeeps
<1> QED
  BY <1>1, <1>2

LEMMA EndEarlyKeeps ==
  ASSUME IInv, NEW w \in Workers, EndEarly(w)
  PROVE  IInv' /\ Uncompleted
<1>0. PICK i : i = worker[w].item
  OBVIOUS
<1>1. /\ i \in DOMAIN items /\ UNCHANGED <<runs, schedule, enabled>>
      /\ worker' = [worker EXCEPT ![w] = Idle]
      /\ items' = items \/ items' = [items EXCEPT ![i] = EndedEarly(i)]
  BY <1>0 DEF EndEarly, IInv, WorkersOK, saved, policy
<1>2. HasFields(items[i])
  BY <1>1 DEF IInv, SequencesOK
<1>3. \A reached : /\ HasFields(Ended(items[i], reached))
                   /\ Ended(items[i], reached).source = items[i].source
                   /\ Ended(items[i], reached).kind = items[i].kind
                   /\ Ended(items[i], reached).state = reached
  BY <1>2, EndedKeeps
<1>4. /\ HasFields(EndedEarly(i)) /\ EndedEarly(i).state # "completed"
      /\ EndedEarly(i).source = items[i].source
      /\ EndedEarly(i).kind = items[i].kind
  <2>1. CASE Automatic(i) /\ ~enabled
    <3> DEFINE e == Ended(items[i], "queued")
    <3>1. EndedEarly(i) = [e EXCEPT !.attempts = @ - 1]
      BY <2>1 DEF EndedEarly
    <3>2. /\ HasFields(e) /\ e.source = items[i].source
          /\ e.kind = items[i].kind /\ e.state = "queued"
      BY <1>3
    <3> HIDE DEF e
    <3> QED
      BY <3>1, <3>2 DEF HasFields
  <2>2. CASE ~(Automatic(i) /\ ~enabled)
    BY <1>3, <2>2 DEF EndedEarly, Retried
  <2> QED
    BY <2>1, <2>2
<1> QED
  BY <1>1, <1>4, EndingKeeps

LEMMA FailKeeps ==
  ASSUME IInv, NEW w \in Workers, Fail(w)
  PROVE  IInv' /\ Uncompleted
<1>0. PICK i : i = worker[w].item
  OBVIOUS
<1>1. /\ i \in DOMAIN items /\ UNCHANGED <<runs, schedule, enabled>>
      /\ worker' = [worker EXCEPT ![w] = Idle]
      /\ items' = items \/ items' = [items EXCEPT ![i] = Retried(items[i])]
  BY <1>0 DEF Fail, IInv, WorkersOK, saved, policy
<1>2. /\ HasFields(Retried(items[i])) /\ Retried(items[i]).state # "completed"
      /\ Retried(items[i]).source = items[i].source
      /\ Retried(items[i]).kind = items[i].kind
  BY <1>1, EndedKeeps DEF IInv, SequencesOK, Retried
<1> QED
  BY <1>1, <1>2, EndingKeeps

LEMMA ExpireKeeps ==
  ASSUME IInv, NEW i \in DOMAIN items, Expire(i)
  PROVE  IInv' /\ Uncompleted
<1>1. /\ UNCHANGED <<runs, schedule, enabled, worker>>
      /\ items' = [items EXCEPT ![i].live = FALSE]
  BY DEF Expire, saved, policy
<1>2. /\ items' = [j \in DOMAIN items |-> items'[j]]
      /\ \A j \in DOMAIN items :
           /\ HasFields(items'[j])
           /\ items'[j].source = items[j].source /\ items'[j].kind = items[j].kind
           /\ items'[j].state = items[j].state
  BY <1>1 DEF IInv, SequencesOK, HasFields
<1>3. worker' = [v \in Workers |-> worker'[v]]
  BY <1>1 DEF IInv, WorkersOK
<1> QED
  BY <1>1, <1>2, <1>3, RewritingKeeps

-----------------------------------------------------------------------------
LEMMA NextKeeps ==
  ASSUME IInv, [Next]_vars
  PROVE  /\ IInv'
         /\ \/ Uncompleted
            \/ \E w \in Workers : Publish(w)
<1>1. ASSUME NEW r \in Records,
             Receive(r) \/ Commit(r) \/ Purged(r) \/ PlanFails(r)
      PROVE  IInv' /\ Uncompleted
  BY <1>1, OthersKeep DEF Receive, Commit, Purged, PlanFails, saved, policy
<1>2. ASSUME NEW r \in Records, Recognize(r)
      PROVE  IInv' /\ Uncompleted
  <2>1. UNCHANGED <<runs, worker, schedule, enabled>>
    BY <1>2 DEF Recognize, saved, policy
  <2>2. CASE InHead(r)
    <3> DEFINE item == Item("privacy", Newest, {r}, runs[Newest].watermark, "queued")
    <3>1. items' = Append(items, item) /\ runs # <<>>
      BY <1>2, <2>2 DEF Recognize, InHead
    <3>2. HasFields(item)
      BY ItemHasFields
    <3> HIDE DEF item
    <3> QED
      BY <2>1, <3>1, <3>2, AppendingKeeps
  <2>3. CASE ~InHead(r)
    BY <1>2, <2>1, <2>3, OthersKeep DEF Recognize
  <2> QED
    BY <2>2, <2>3
<1>3. ASSUME NEW r \in Records, Plan(r)
      PROVE  IInv' /\ Uncompleted
  <2>1. UNCHANGED <<runs, worker, schedule, enabled>>
    BY <1>3 DEF Plan, saved, policy
  <2>2. CASE r \in Withdrawn \/ runs = <<>> \/ Included(r)
    BY <1>3, <2>1, <2>2, OthersKeep DEF Plan
  <2>3. CASE ~(r \in Withdrawn \/ runs = <<>> \/ Included(r))
    <3> DEFINE item == Item("late", Newest, {r}, Cutoff(r),
                            IF EvidenceLost(Newest) THEN "unavailable" ELSE "queued")
    <3>1. items' = Append(items, item) /\ runs # <<>>
      BY <1>3, <2>3 DEF Plan
    <3>2. HasFields(item)
      BY ItemHasFields
    <3> HIDE DEF item
    <3> QED
      BY <2>1, <3>1, <3>2, AppendingKeeps
  <2> QED
    BY <2>2, <2>3
<1>4. ASSUME ClaimDate \/ Compute \/ ComputeDies
      PROVE  IInv' /\ Uncompleted
  <2>1. /\ UNCHANGED <<runs, items, worker, enabled>>
        /\ schedule.state # "computed" /\ "state" \in DOMAIN schedule'
    BY <1>4 DEF ClaimDate, Compute, ComputeDies, policy, IInv, ScheduleFirst
  <2> QED
    BY <2>1, OthersKeep
<1>5. ASSUME Persist
      PROVE  IInv' /\ Uncompleted
  BY <1>5, PersistKeeps
<1>6. ASSUME NEW w \in Workers,
             (\E i \in DOMAIN items : ClaimNext(w, i)) \/ NothingToClaim(w)
      PROVE  IInv' /\ Uncompleted
  BY <1>6, ClaimKeeps
<1>7. ASSUME NEW w \in Workers, Begin(w) \/ EndEarly(w) \/ Fail(w)
      PROVE  IInv' /\ Uncompleted
  BY <1>7, BeginKeeps, EndEarlyKeeps, FailKeeps
<1>8. ASSUME NEW w \in Workers, Publish(w)
      PROVE  IInv'
  BY <1>8, PublishKeeps
<1>9. ASSUME NEW w \in Workers, Die(w)
      PROVE  IInv' /\ Uncompleted
  <2>1. /\ UNCHANGED <<runs, schedule, enabled, items>>
        /\ worker' = [worker EXCEPT ![w] = Idle]
    BY <1>9 DEF Die, saved, policy
  <2>2. /\ worker' = [v \in Workers |-> worker'[v]]
        /\ \A v \in Workers : worker'[v] = worker[v] \/ worker'[v].at = "idle"
    BY <2>1 DEF IInv, WorkersOK, Idle
  <2>3. /\ items' = [j \in DOMAIN items |-> items'[j]]
        /\ \A j \in DOMAIN items : HasFields(items'[j]) /\ items'[j] = items[j]
    BY <2>1 DEF IInv, SequencesOK
  <2> QED
    BY <2>1, <2>2, <2>3, RewritingKeeps
<1>10. ASSUME NEW i \in DOMAIN items, Expire(i)
       PROVE  IInv' /\ Uncompleted
  BY <1>10, ExpireKeeps
<1>11. ASSUME NEW watermark \in Watermarks, Request(watermark)
       PROVE  IInv' /\ Uncompleted
  <2> DEFINE item == Item("cost", Newest, {}, watermark, "queued")
  <2>1. UNCHANGED <<runs, worker, schedule, enabled>> /\ items' = Append(items, item)
    BY <1>11 DEF Request, saved, policy
  <2>2. HasFields(item) /\ runs # <<>>
    BY ItemHasFields DEF Watermarks
  <2> HIDE DEF item
  <2> QED
    BY <2>1, <2>2, AppendingKeeps
<1>12. ASSUME SetPolicy
       PROVE  IInv' /\ Uncompleted
  BY <1>12, OthersKeep DEF SetPolicy, saved
<1>13. CASE UNCHANGED vars
  BY <1>13, OthersKeep DEF vars, saved, policy
<1> QED
  BY <1>1, <1>2, <1>3, <1>4, <1>5, <1>6, <1>7, <1>8, <1>9, <1>10, <1>11,
     <1>12, <1>13 DEF Next, Step

LEMMA Invariance == Spec => []IInv
<1>1. Init => IInv
  BY Initially
<1>2. IInv /\ [Next]_vars => IInv'
  BY NextKeeps
<1> QED
  BY <1>1, <1>2, PTL DEF Spec

\* Of the runs of a lineage no two supersede the same one, whatever asked for
\* them, however often an item is claimed again and by however many workers.
THEOREM LineageHasNoForks == Spec => []NoForks
<1>1. IInv => NoForks
  BY DEF IInv
<1> QED
  BY <1>1, Invariance, PTL

\* An automatic correction is published only while the policy is enabled: a
\* pause is saved when no automatic calculation is on its way.
THEOREM PauseHolds == Spec => PausePublishesNothing
<1>1. IInv /\ [Next]_vars =>
        [\A i \in DOMAIN items :
           (Automatic(i) /\ items[i].state # "completed"
                         /\ items'[i].state = "completed") => enabled]_vars
  <2> SUFFICES ASSUME IInv, [Next]_vars, NEW i \in DOMAIN items, Automatic(i),
                      items[i].state # "completed", items'[i].state = "completed"
               PROVE  enabled
    OBVIOUS
  <2>1. ~Uncompleted
    BY DEF Uncompleted
  <2>2. PICK w \in Workers : Publish(w)
    BY <2>1, NextKeeps
  <2>3. i = worker[w].item
    BY <2>2, PublishKeeps
  <2>4. w \in Calculating
    BY <2>2 DEF Publish, Calculating
  <2> QED
    BY <2>3, <2>4 DEF IInv, LocksHeld
<1> QED
  BY <1>1, Invariance, PTL DEF Spec, PausePublishesNothing

-----------------------------------------------------------------------------
(* Types.  Two of them need an argument of their own: attempts stay within the  *)
(* maximum because what is claimed or planned has one left (ReceiptsTyped,      *)
(* Fits), and a pause gives an attempt back only to a claim that lives, which   *)
(* has counted one (Fits).                                                      *)

RecordsTyped ==
  /\ now \in Nat
  /\ record \in [Records -> {"unseen", "received", "committed", "withdrawn"}]
  /\ receivedAt \in [Records -> 0..now]
  /\ purging \subseteq Withdrawn /\ stale \subseteq Withdrawn

\* A receipt is captured with its record, and one that waits has an attempt left.
ReceiptStates ==
  {"none", "queued", "retry", "completed", "unmatched", "unavailable", "failed"}
ReceiptsTyped ==
  /\ receipts \in [Records -> [state : ReceiptStates, attempts : 0..MaximumAttempts]]
  /\ \A r \in Records :
       /\ record[r] \in {"unseen", "received"} =>
            receipts[r].state = "none" /\ receipts[r].attempts = 0
       /\ receipts[r].state \in {"queued", "retry"} =>
            receipts[r].attempts < MaximumAttempts

Watermark == 0..(now + Ahead)
ScheduleTyped ==
  schedule \in [state : {"idle", "pending", "computing", "computed"},
                watermark : 0..now, evidence : SUBSET Records,
                counted : SUBSET Records]

Runs(n) == [of : 0..(n - 1), evidence : SUBSET Records, counted : SUBSET Records,
            watermark : Watermark]
RunsTyped == \A n \in DOMAIN runs : runs[n] \in Runs(n)

ItemType ==
  [source : DOMAIN runs, kind : {"late", "cost", "privacy"},
   inputs : SUBSET Records, watermark : Watermark,
   state : ItemStates, attempts : 0..MaximumAttempts,
   holder : Workers \cup {Nobody}, live : BOOLEAN]

\* A claim that lives has counted its attempt.
Fits(item) == item \in ItemType /\ (item.live => item.attempts >= 1)
ItemsTyped == \A i \in DOMAIN items : Fits(items[i])

WorkersTyped ==
  \A w \in Workers :
    /\ worker[w].at \in {"idle", "claimed", "calculating"}
    /\ worker[w].at = "calculating" => /\ worker[w].evidence \subseteq Records
                                       /\ worker[w].counted \subseteq Records

Typed ==
  RecordsTyped /\ ReceiptsTyped /\ ScheduleTyped /\ RunsTyped /\ ItemsTyped /\ WorkersTyped

\* The last run of a lineage is one that nothing supersedes.
LEMMA NewestIsARun ==
  ASSUME IInv, RunsTyped, runs # <<>>
  PROVE  Newest \in DOMAIN runs
<1>1. PICK S : runs \in Seq(S)
  BY DEF IInv, SequencesOK
<1>2. /\ Len(runs) \in Nat /\ DOMAIN runs = 1..Len(runs) /\ Len(runs) \in DOMAIN runs
  BY <1>1
<1>3. ~Superseded(Len(runs))
  <2> SUFFICES ASSUME NEW m \in DOMAIN runs, runs[m].of = Len(runs)
               PROVE  FALSE
    BY DEF Superseded
  <2>1. runs[m].of \in 0..(m - 1) /\ m \in Nat /\ m <= Len(runs)
    BY <1>2 DEF RunsTyped, Runs
  <2> QED
    BY <1>2, <2>1
<1> QED
  BY <1>2, <1>3 DEF Newest

\* Time goes on.
LEMMA TimePasses ==
  ASSUME Ahead \in Nat, now \in Nat, now' \in Nat, now <= now'
  PROVE  Watermark \subseteq Watermark' /\ 0..now \subseteq 0..now'
<1>1. PICK a \in Nat, b \in Nat, c \in Nat : a = now /\ b = now' /\ c = Ahead
  OBVIOUS
<1>2. a <= b
  BY <1>1
<1>3. 0..a \subseteq 0..b /\ 0..(a + c) \subseteq 0..(b + c)
  BY <1>2
<1> QED
  BY <1>1, <1>3 DEF Watermark

LEMMA ItemStaysTyped ==
  ASSUME Ahead \in Nat, now \in Nat, now' \in Nat, now <= now',
         DOMAIN runs \subseteq DOMAIN runs', NEW item, Fits(item)
  PROVE  Fits(item)'
<1>1. Watermark \subseteq Watermark'
  BY TimePasses
<1> QED
  BY <1>1 DEF Fits, ItemType

LEMMA EndedFits ==
  ASSUME NEW item \in ItemType, NEW reached \in ItemStates
  PROVE  /\ Fits(Ended(item, reached)) /\ Ended(item, reached).live = FALSE
         /\ Ended(item, reached).attempts = item.attempts
         /\ Fits(Retried(item))
<1>1. \A st \in ItemStates :
        /\ Ended(item, st) \in ItemType /\ Ended(item, st).live = FALSE
        /\ Ended(item, st).attempts = item.attempts
  <2> SUFFICES ASSUME NEW st \in ItemStates
               PROVE  /\ Ended(item, st) \in ItemType /\ Ended(item, st).live = FALSE
                      /\ Ended(item, st).attempts = item.attempts
    OBVIOUS
  <2>1. Nobody \in Workers \cup {Nobody} /\ FALSE \in BOOLEAN
    OBVIOUS
  <2> QED
    BY <2>1 DEF ItemType, Ended
<1>2. "failed" \in ItemStates /\ "retry" \in ItemStates
  BY DEF ItemStates, Open
<1> QED
  BY <1>1, <1>2 DEF Fits, Retried

LEMMA NewItemFits ==
  ASSUME MetricAssumption, NEW kind \in {"late", "cost", "privacy"},
         NEW source \in DOMAIN runs,
         NEW sources \in SUBSET Records, NEW watermark \in Watermark,
         NEW reached \in {"queued", "unavailable"}
  PROVE  Fits(Item(kind, source, sources, watermark, reached))
<1>1. reached \in ItemStates /\ 0 \in 0..MaximumAttempts
  BY DEF ItemStates, Open, MetricAssumption
<1>2. Nobody \in Workers \cup {Nobody} /\ FALSE \in BOOLEAN
  OBVIOUS
<1> QED
  BY <1>1, <1>2 DEF Item, ItemType, Fits

\* What is written at an item's place, or after the last one.
LEMMA AppendedItemsFit ==
  ASSUME IInv, ItemsTyped, MetricAssumption, now \in Nat, now' \in Nat, now <= now',
         UNCHANGED runs, NEW item, Fits(item)', items' = Append(items, item)
  PROVE  ItemsTyped'
<1>1. PICK S : items \in Seq(S)
  BY DEF IInv, SequencesOK
<1>2. /\ DOMAIN items' = DOMAIN items \cup {Len(items) + 1}
      /\ \A i \in DOMAIN items : items'[i] = items[i]
      /\ items'[Len(items) + 1] = item
  BY <1>1
<1>3. \A i \in DOMAIN items : Fits(items[i])'
  BY <1>2, ItemStaysTyped DEF ItemsTyped, MetricAssumption
<1> QED
  BY <1>2, <1>3 DEF ItemsTyped

LEMMA RewrittenItemsFit ==
  ASSUME UNCHANGED <<runs, now>>, DOMAIN items' = DOMAIN items,
         \A i \in DOMAIN items : Fits(items'[i])
  PROVE  ItemsTyped'
BY DEF ItemsTyped, Fits, ItemType, Watermark

LEMMA TypedInitially ==
  ASSUME MetricAssumption
  PROVE  Init => Typed
<1> SUFFICES ASSUME Init
             PROVE  Typed
  OBVIOUS
<1>1. DOMAIN runs = {} /\ DOMAIN items = {}
  BY DEF Init
<1>2. 0 \in 0..MaximumAttempts /\ 0 < MaximumAttempts
  BY DEF MetricAssumption
<1>3. RecordsTyped
  BY DEF Init, RecordsTyped
<1>4. ReceiptsTyped
  BY <1>2 DEF Init, ReceiptsTyped, ReceiptStates
<1>5. ScheduleTyped /\ WorkersTyped
  BY DEF Init, ScheduleTyped, WorkersTyped, Idle
<1> QED
  BY <1>1, <1>3, <1>4, <1>5 DEF Typed, RunsTyped, ItemsTyped

-----------------------------------------------------------------------------
LEMMA RecordsStep ==
  ASSUME MetricAssumption, IInv, Typed, NEW r \in Records,
         Receive(r) \/ Commit(r) \/ Purged(r) \/ Recognize(r)
  PROVE  Typed'
<1> USE DEF inputs, policy, saved
<1>0. /\ now \in Nat /\ now' \in Nat /\ now <= now'
      /\ UNCHANGED <<runs, worker, schedule>>
  BY DEF Typed, RecordsTyped, Receive, Commit, Purged, Recognize
<1>1. /\ 0..now \subseteq 0..now' /\ Watermark \subseteq Watermark'
  BY <1>0, TimePasses DEF MetricAssumption
<1>2. ScheduleTyped' /\ RunsTyped' /\ WorkersTyped'
  BY <1>0, <1>1 DEF Typed, ScheduleTyped, RunsTyped, Runs, WorkersTyped
<1>3. RecordsTyped'
  <2>1. record' \in [Records -> {"unseen", "received", "committed", "withdrawn"}]
    BY DEF Typed, RecordsTyped, Receive, Commit, Purged, Recognize
  <2>2. receivedAt' \in [Records -> 0..now']
    <3>1. CASE Receive(r)
      <4>1. now + 1 \in 0..now'
        BY <1>0, <3>1 DEF Receive
      <4> QED
        BY <1>1, <3>1, <4>1 DEF Receive, Typed, RecordsTyped
    <3>2. CASE Commit(r) \/ Purged(r) \/ Recognize(r)
      BY <3>2 DEF Commit, Purged, Recognize, Typed, RecordsTyped
    <3> QED
      BY <3>1, <3>2
  <2>3. Withdrawn \subseteq Withdrawn' /\ (Recognize(r) => r \in Withdrawn')
    BY DEF Withdrawn, Typed, RecordsTyped, Receive, Commit, Purged, Recognize
  <2>4. purging' \subseteq Withdrawn' /\ stale' \subseteq Withdrawn'
    BY <2>3 DEF Typed, RecordsTyped, Receive, Commit, Purged, Recognize
  <2> QED
    BY <1>0, <2>1, <2>2, <2>4 DEF RecordsTyped
<1>4. ReceiptsTyped'
  <2>1. CASE Commit(r)
    <3>1. /\ record' = [record EXCEPT ![r] = "committed"]
          /\ receipts' = [receipts EXCEPT ![r].state = "queued"]
          /\ receipts[r].attempts = 0 /\ 0 < MaximumAttempts
      BY <2>1 DEF Commit, Typed, ReceiptsTyped, MetricAssumption
    <3>2. receipts' \in [Records -> [state : ReceiptStates, attempts : 0..MaximumAttempts]]
      BY <3>1 DEF Typed, ReceiptsTyped, ReceiptStates
    <3>3. /\ receipts'[r].attempts = 0 /\ receipts'[r].state = "queued"
          /\ record'[r] = "committed"
      BY <3>1 DEF Typed, ReceiptsTyped, RecordsTyped
    <3>4. \A q \in Records : q # r => receipts'[q] = receipts[q] /\ record'[q] = record[q]
      BY <3>1 DEF Typed, ReceiptsTyped, RecordsTyped
    <3> QED
      BY <3>1, <3>2, <3>3, <3>4 DEF Typed, ReceiptsTyped
  <2>2. CASE Receive(r) \/ Purged(r) \/ Recognize(r)
    <3>1. /\ UNCHANGED receipts
          /\ \A q \in Records : record'[q] \in {"unseen", "received"} =>
                                  record[q] \in {"unseen", "received"}
      BY <2>2 DEF Receive, Purged, Recognize, Typed, RecordsTyped
    <3> QED
      BY <3>1 DEF Typed, ReceiptsTyped
  <2> QED
    BY <2>1, <2>2
<1>5. ItemsTyped'
  <2>1. CASE items' = items
    BY <1>0, <2>1, ItemStaysTyped DEF Typed, ItemsTyped, MetricAssumption
  <2>2. CASE Recognize(r) /\ InHead(r)
    <3>0. PICK item : item = Item("privacy", Newest, {r}, runs[Newest].watermark, "queued")
      OBVIOUS
    <3>1. Newest \in DOMAIN runs
      BY <2>2, NewestIsARun DEF Typed, InHead
    <3>2. runs[Newest].watermark \in Watermark
      BY <3>1 DEF Typed, RunsTyped, Runs
    <3>3. Fits(item)
      BY <3>0, <3>1, <3>2, NewItemFits
    <3>4. items' = Append(items, item)
      BY <2>2, <3>0 DEF Recognize
    <3>5. Fits(item)'
      BY <1>0, <3>3, ItemStaysTyped DEF MetricAssumption
    <3> QED
      BY <1>0, <3>4, <3>5, AppendedItemsFit DEF Typed
  <2> QED
    BY <2>1, <2>2 DEF Receive, Commit, Purged, Recognize
<1> QED
  BY <1>2, <1>3, <1>4, <1>5 DEF Typed

LEMMA ScheduleStep ==
  ASSUME MetricAssumption, IInv, Typed, ClaimDate \/ Compute \/ ComputeDies \/ Persist
  PROVE  Typed'
<1> USE DEF inputs, policy, saved
<1>1. UNCHANGED <<now, record, receivedAt, purging, receipts, items, worker>>
  BY DEF ClaimDate, Compute, ComputeDies, Persist
<1>2. /\ Evidence(schedule.watermark) \subseteq Records
      /\ Counted(schedule.watermark) \subseteq Records
  BY DEF Evidence, Counted, Committed, Withdrawn
<1>3. ReceiptsTyped' /\ WorkersTyped'
  BY <1>1 DEF Typed, ReceiptsTyped, WorkersTyped
<1>4. RecordsTyped'
  <2>1. stale' \subseteq Withdrawn
    BY DEF ClaimDate, Compute, ComputeDies, Persist, Typed, RecordsTyped
  <2> QED
    BY <1>1, <2>1 DEF Typed, RecordsTyped, Withdrawn
<1>5. ScheduleTyped'
  BY <1>1, <1>2 DEF Typed, ScheduleTyped, ClaimDate, Compute, ComputeDies, Persist
<1>6. CASE ClaimDate \/ Compute \/ ComputeDies
  <2>1. UNCHANGED runs
    BY <1>6 DEF ClaimDate, Compute, ComputeDies
  <2>2. RunsTyped' /\ ItemsTyped'
    BY <1>1, <2>1 DEF Typed, RunsTyped, Runs, ItemsTyped, Fits, ItemType, Watermark
  <2> QED
    BY <1>3, <1>4, <1>5, <2>2 DEF Typed
<1>7. CASE Persist
  <2> DEFINE run == [of |-> 0, evidence |-> schedule.evidence,
                     counted |-> schedule.counted, watermark |-> schedule.watermark]
  <2>1. items = <<>> /\ runs' = <<run>>
    BY <1>7 DEF Persist, IInv, ScheduleFirst
  <2>2. run \in Runs(1)
    <3>1. /\ schedule.evidence \in SUBSET Records /\ schedule.counted \in SUBSET Records
          /\ schedule.watermark \in 0..now
      BY DEF Typed, ScheduleTyped
    <3>2. 0..now \subseteq Watermark /\ 0 \in 0..(1 - 1)
      BY DEF Typed, RecordsTyped, MetricAssumption, Watermark
    <3> QED
      BY <3>1, <3>2 DEF Runs
  <2> HIDE DEF run
  <2>3. DOMAIN runs' = {1} /\ runs'[1] = run
    BY <2>1
  <2>4. RunsTyped'
    BY <1>1, <2>2, <2>3 DEF RunsTyped, Runs, Watermark
  <2>5. DOMAIN items = {}
    BY <2>1
  <2>6. ItemsTyped'
    BY <1>1, <2>5 DEF ItemsTyped
  <2> QED
    BY <1>3, <1>4, <1>5, <2>4, <2>6 DEF Typed
<1> QED
  BY <1>6, <1>7

LEMMA PlanStep ==
  ASSUME MetricAssumption, IInv, Typed, NEW r \in Records, Plan(r) \/ PlanFails(r)
  PROVE  Typed'
<1> USE DEF inputs, policy, saved
<1>0. /\ now \in Nat /\ receivedAt[r] \in 0..now /\ Ahead \in Nat
  BY DEF Typed, RecordsTyped, MetricAssumption
<1>1. Cutoff(r) = now + 1
  <2> DEFINE S == {receivedAt[r], now + 1}
  <2>1. now + 1 \in S /\ \A y \in S : now + 1 >= y
    BY <1>0
  <2>2. Max(S) \in S /\ \A y \in S : Max(S) >= y
    BY <2>1 DEF Max
  <2>3. Max(S) >= now + 1 /\ (Max(S) = receivedAt[r] \/ Max(S) = now + 1)
    BY <2>1, <2>2
  <2> QED
    BY <1>0, <2>3 DEF Cutoff
<1>2. /\ now' \in Nat /\ now <= now'
      /\ UNCHANGED <<record, receivedAt, purging, runs, stale, schedule, worker>>
  BY <1>0, <1>1 DEF Plan, PlanFails
<1>3. 0..now \subseteq 0..now' /\ Watermark \subseteq Watermark'
  BY <1>0, <1>2, TimePasses
<1>4. RecordsTyped' /\ ScheduleTyped' /\ RunsTyped' /\ WorkersTyped'
  <2>1. RecordsTyped'
    BY <1>2, <1>3 DEF Typed, RecordsTyped, Withdrawn
  <2> QED
    BY <1>2, <1>3, <2>1 DEF Typed, ScheduleTyped, RunsTyped, Runs, WorkersTyped
<1>5. receipts[r].attempts \in 0..MaximumAttempts /\ MaximumAttempts \in Nat \ {0}
  BY DEF Typed, ReceiptsTyped, MetricAssumption
<1>6. /\ receipts[r].state \in {"queued", "retry"} /\ receipts[r].attempts < MaximumAttempts
      /\ record[r] \notin {"unseen", "received"}
  <2>1. receipts[r].state \in {"queued", "retry"}
    BY DEF Plan, PlanFails, Plannable
  <2> QED
    BY <2>1 DEF Typed, ReceiptsTyped
<1>7. ReceiptsTyped'
  <2>1. PICK value : receipts' = [receipts EXCEPT ![r] = value]
                     /\ value \in [state : ReceiptStates, attempts : 0..MaximumAttempts]
                     /\ (value.state \in {"queued", "retry"} => value.attempts < MaximumAttempts)
    <3>1. CASE Plan(r)
      <4> DEFINE end == CASE r \in Withdrawn -> "unavailable"
                          [] runs = <<>> -> "unmatched"
                          [] OTHER -> "completed"
      <4>1. receipts' = [receipts EXCEPT ![r] = [state |-> end, attempts |-> 0]]
        BY <3>1 DEF Plan
      <4>2. end \in {"unavailable", "unmatched", "completed"}
        OBVIOUS
      <4>3. PICK value : value = [state |-> end, attempts |-> 0]
        OBVIOUS
      <4> HIDE DEF end
      <4>4. /\ value \in [state : ReceiptStates, attempts : 0..MaximumAttempts]
            /\ value.state \notin {"queued", "retry"}
        BY <1>5, <4>2, <4>3 DEF ReceiptStates
      <4> QED
        BY <4>1, <4>3, <4>4
    <3>2. CASE PlanFails(r)
      <4> DEFINE n == receipts[r].attempts + 1
                 end == IF n >= MaximumAttempts THEN "failed" ELSE "retry"
      <4>1. receipts' = [receipts EXCEPT ![r] = [state |-> end, attempts |-> n]]
        BY <3>2 DEF PlanFails
      <4>2. n \in 0..MaximumAttempts /\ (end = "retry" => n < MaximumAttempts)
            /\ end \in {"failed", "retry"}
        BY <1>5, <1>6
      <4>3. PICK value : value = [state |-> end, attempts |-> n]
        OBVIOUS
      <4> HIDE DEF n, end
      <4>4. /\ value \in [state : ReceiptStates, attempts : 0..MaximumAttempts]
            /\ value.state \in {"queued", "retry"} => value.attempts < MaximumAttempts
        BY <4>2, <4>3 DEF ReceiptStates
      <4> QED
        BY <4>1, <4>3, <4>4
    <3> QED
      BY <3>1, <3>2
  <2> QED
    BY <1>2, <1>6, <2>1 DEF Typed, ReceiptsTyped
<1>8. ItemsTyped'
  <2>1. CASE items' = items
    BY <1>0, <1>2, <2>1, ItemStaysTyped DEF Typed, ItemsTyped
  <2>2. CASE Plan(r) /\ ~(r \in Withdrawn \/ runs = <<>> \/ Included(r))
    <3>0. PICK reached \in {"queued", "unavailable"} :
            reached = IF EvidenceLost(Newest) THEN "unavailable" ELSE "queued"
      OBVIOUS
    <3>1. PICK item : item = Item("late", Newest, {r}, now + 1, reached)
      OBVIOUS
    <3>2. items' = Append(items, item)
      BY <1>1, <2>2, <3>0, <3>1 DEF Plan
    <3>3. items' # items
      <4>1. PICK S : items \in Seq(S)
        BY DEF IInv, SequencesOK
      <4>2. items \in Seq(S \cup {item}) /\ item \in S \cup {item}
        BY <4>1
      <4>3. Len(items') = Len(items) + 1 /\ Len(items) \in Nat
        BY <3>2, <4>2
      <4> QED
        BY <4>3
    <3>4. now' = now + 1
      BY <1>1, <2>2, <3>3 DEF Plan
    <3>5. Newest \in DOMAIN runs
      BY <2>2, NewestIsARun DEF Typed
    <3>6. now + 1 \in Watermark'
      BY <1>0, <3>4 DEF Watermark
    <3>7. item \in ItemType' /\ item.live = FALSE
      <4>1. reached \in ItemStates /\ 0 \in 0..MaximumAttempts
        BY <1>5 DEF ItemStates, Open
      <4>2. Nobody \in Workers \cup {Nobody} /\ FALSE \in BOOLEAN
        OBVIOUS
      <4> QED
        BY <1>2, <3>1, <3>5, <3>6, <4>1, <4>2 DEF Item, ItemType
    <3>8. Fits(item)'
      BY <3>7 DEF Fits
    <3> QED
      BY <1>0, <1>2, <3>2, <3>8, AppendedItemsFit DEF Typed
  <2> QED
    BY <2>1, <2>2 DEF Plan, PlanFails
<1> QED
  BY <1>4, <1>7, <1>8 DEF Typed

-----------------------------------------------------------------------------
LEMMA OnlyItemsStep ==
  ASSUME MetricAssumption, Typed, UNCHANGED <<now, inputs, receipts, saved>>,
         ItemsTyped', WorkersTyped'
  PROVE  Typed'
BY DEF Typed, inputs, saved, RecordsTyped, Withdrawn, ReceiptsTyped, ScheduleTyped,
       RunsTyped, Runs, Watermark

LEMMA ExhaustFits ==
  ASSUME IInv, ItemsTyped
  PROVE  DOMAIN Exhaust = DOMAIN items /\ \A i \in DOMAIN items : Fits(Exhaust[i])
<1>1. "failed" \in ItemStates
  BY DEF ItemStates
<1> QED
  BY <1>1, EndedFits DEF Exhaust, ItemsTyped, Fits

LEMMA ClaimStep ==
  ASSUME MetricAssumption, IInv, Typed, NEW w \in Workers,
         (\E i \in DOMAIN items : ClaimNext(w, i)) \/ NothingToClaim(w)
  PROVE  Typed'
<1>1. CASE NothingToClaim(w)
  <2>1. UNCHANGED <<now, inputs, receipts, saved, worker>> /\ items' = Exhaust
    BY <1>1 DEF NothingToClaim
  <2>2. ItemsTyped'
    BY <2>1, ExhaustFits, RewrittenItemsFit DEF Typed, saved
  <2>3. WorkersTyped'
    BY <2>1 DEF Typed, WorkersTyped
  <2> QED
    BY <2>1, <2>2, <2>3, OnlyItemsStep
<1>2. ASSUME NEW i \in DOMAIN items, ClaimNext(w, i)
      PROVE  Typed'
  <2>1. /\ UNCHANGED <<now, inputs, receipts, saved>>
        /\ worker' = [worker EXCEPT ![w] = [at |-> "claimed", item |-> i]]
    BY <1>2 DEF ClaimNext
  <2>2. WorkersTyped'
    BY <2>1 DEF Typed, WorkersTyped, IInv, WorkersOK
  <2> DEFINE E == Exhaust
  <2>3. items' = [E EXCEPT ![i].state = "processing", ![i].attempts = @ + 1,
                           ![i].holder = w, ![i].live = TRUE]
    BY <1>2 DEF ClaimNext
  <2>4. DOMAIN E = DOMAIN items /\ \A j \in DOMAIN items : Fits(E[j])
    BY ExhaustFits DEF Typed
  <2>5. E[i] = items[i] /\ items[i].attempts < MaximumAttempts
    <3>1. items[i].attempts \in 0..MaximumAttempts /\ MaximumAttempts \in Nat
      BY DEF Typed, ItemsTyped, Fits, ItemType, MetricAssumption
    <3>2. items[i].attempts < MaximumAttempts
      BY <1>2 DEF ClaimNext, Claimable
    <3>3. ~Exhausted(i)
      BY <3>1, <3>2 DEF Exhausted
    <3> QED
      BY <3>2, <3>3 DEF Exhaust
  <2> HIDE DEF E
  <2>6. /\ DOMAIN items' = DOMAIN items
        /\ \A j \in DOMAIN items : j # i => items'[j] = E[j]
        /\ items'[i] = [items[i] EXCEPT !.state = "processing", !.attempts = @ + 1,
                                        !.holder = w, !.live = TRUE]
    BY <2>3, <2>4, <2>5
  <2>7. Fits(items'[i])
    <3>1. items[i] \in ItemType /\ items[i].attempts \in 0..MaximumAttempts
      BY DEF Typed, ItemsTyped, Fits, ItemType
    <3>2. items[i].attempts + 1 \in 0..MaximumAttempts /\ items[i].attempts + 1 >= 1
      BY <2>5, <3>1 DEF MetricAssumption
    <3>3. "processing" \in ItemStates /\ w \in Workers \cup {Nobody} /\ TRUE \in BOOLEAN
      BY DEF ItemStates, Open
    <3>4. items'[i] \in ItemType /\ items'[i].attempts = items[i].attempts + 1
      BY <2>6, <3>1, <3>2, <3>3 DEF ItemType
    <3> QED
      BY <3>2, <3>4 DEF Fits
  <2>8. ItemsTyped'
    BY <2>1, <2>4, <2>6, <2>7, RewrittenItemsFit DEF saved
  <2> QED
    BY <2>1, <2>2, <2>8, OnlyItemsStep
<1> QED
  BY <1>1, <1>2

\* One item, or none, is rewritten by a worker that goes on to something else.
LEMMA OneItemStep ==
  ASSUME MetricAssumption, IInv, Typed, UNCHANGED <<now, inputs, receipts, saved>>,
         WorkersTyped', NEW i, NEW item,
         i \in DOMAIN items => Fits(item),
         items' = items \/ items' = [items EXCEPT ![i] = item]
  PROVE  Typed'
<1>1. /\ DOMAIN items' = DOMAIN items
      /\ \A j \in DOMAIN items : items'[j] = items[j] \/ (j = i /\ items'[j] = item)
  OBVIOUS
<1>2. \A j \in DOMAIN items : Fits(items'[j])
  BY <1>1 DEF Typed, ItemsTyped
<1>3. ItemsTyped'
  BY <1>1, <1>2, RewrittenItemsFit DEF saved
<1> QED
  BY <1>3, OnlyItemsStep

LEMMA WorkerStep ==
  ASSUME MetricAssumption, IInv, Typed, NEW w \in Workers,
         Begin(w) \/ EndEarly(w) \/ Fail(w) \/ Die(w)
  PROVE  Typed'
<1>1. UNCHANGED <<now, inputs, receipts, saved>>
  BY DEF Begin, EndEarly, Fail, Die
<1>2. WorkersTyped'
  <2>1. \A i : /\ Evidence(items[i].watermark) \subseteq Records
               /\ Counted(items[i].watermark) \subseteq Records
    BY DEF Evidence, Counted, Committed, Withdrawn
  <2> QED
    BY <2>1 DEF Typed, WorkersTyped, Begin, EndEarly, Fail, Die, Idle, IInv, WorkersOK
<1>0. PICK i : i = worker[w].item
  OBVIOUS
<1>3. CASE Begin(w) \/ Die(w)
  <2>1. items' = items
    BY <1>3 DEF Begin, Die
  <2> QED
    BY <1>1, <1>2, <2>1, OneItemStep DEF Typed, ItemsTyped
<1>4. i \in DOMAIN items => Fits(items[i]) /\ items[i] \in ItemType
  BY DEF Typed, ItemsTyped, Fits
<1>5. CASE Fail(w)
  <2>1. items' = items \/ items' = [items EXCEPT ![i] = Retried(items[i])]
    BY <1>0, <1>5 DEF Fail
  <2>2. "failed" \in ItemStates
    BY DEF ItemStates
  <2>3. i \in DOMAIN items => Fits(Retried(items[i]))
    BY <1>4, <2>2, EndedFits
  <2> QED
    BY <1>1, <1>2, <2>1, <2>3, OneItemStep
<1>6. CASE EndEarly(w)
  <2>1. items' = IF Owned(w, i) THEN [items EXCEPT ![i] = EndedEarly(i)] ELSE items
    BY <1>0, <1>6 DEF EndEarly
  <2>2. CASE Owned(w, i)
    <3>1. ASSUME i \in DOMAIN items
          PROVE  Fits(EndedEarly(i))
      <4>1. items[i].live /\ items[i].attempts >= 1
            /\ items[i].attempts \in 0..MaximumAttempts /\ MaximumAttempts \in Nat
        BY <1>4, <2>2, <3>1 DEF Owned, Fits, ItemType, MetricAssumption
      <4>2. \A reached \in ItemStates :
              /\ Fits(Ended(items[i], reached)) /\ Ended(items[i], reached).live = FALSE
              /\ Ended(items[i], reached).attempts = items[i].attempts
              /\ Fits(Retried(items[i]))
        BY <1>4, <3>1, EndedFits
      <4>3. {"queued", "unavailable", "skipped"} \subseteq ItemStates
        BY DEF ItemStates, Open
      <4>4. CASE Automatic(i) /\ ~enabled
        <5>1. PICK item : item = Ended(items[i], "queued")
          OBVIOUS
        <5>2. /\ item \in ItemType /\ item.live = FALSE
              /\ item.attempts = items[i].attempts
          BY <4>2, <4>3, <5>1 DEF Fits
        <5>3. item.attempts - 1 \in 0..MaximumAttempts
          BY <4>1, <5>2
        <5>4. [item EXCEPT !.attempts = @ - 1] \in ItemType
              /\ [item EXCEPT !.attempts = @ - 1].live = FALSE
          BY <5>2, <5>3 DEF ItemType
        <5> QED
          BY <4>4, <5>1, <5>4 DEF EndedEarly, Fits
      <4>5. CASE ~(Automatic(i) /\ ~enabled)
        BY <4>2, <4>3, <4>5 DEF EndedEarly
      <4> QED
        BY <4>4, <4>5
    <3> QED
      BY <1>1, <1>2, <2>1, <2>2, <3>1, OneItemStep
  <2>3. CASE ~Owned(w, i)
    BY <1>1, <1>2, <1>4, <2>1, <2>3, OneItemStep
  <2> QED
    BY <2>2, <2>3
<1> QED
  BY <1>3, <1>5, <1>6

\* The published run supersedes one that was there before it.
LEMMA PublishStep ==
  ASSUME MetricAssumption, IInv, Typed, NEW w \in Workers, Publish(w)
  PROVE  Typed'
<1>0. PICK i : i = worker[w].item
  OBVIOUS
<1>1. /\ i \in DOMAIN items /\ items[i] \in ItemType /\ worker[w].evidence \subseteq Records
      /\ worker[w].counted \subseteq Records
      /\ UNCHANGED <<now, inputs, receipts, stale, schedule>>
  BY <1>0 DEF Publish, IInv, WorkersOK, Typed, ItemsTyped, Fits, WorkersTyped
<1>2. PICK run : run = [of |-> items[i].source, evidence |-> worker[w].evidence,
                        counted |-> worker[w].counted, watermark |-> items[i].watermark]
  OBVIOUS
<1>3. PICK S : runs \in Seq(S)
  BY DEF IInv, SequencesOK
<1>4. runs \in Seq(S \cup {run}) /\ run \in S \cup {run} /\ runs' = Append(runs, run)
  BY <1>0, <1>2, <1>3 DEF Publish
<1>5. /\ Len(runs) \in Nat /\ DOMAIN runs = 1..Len(runs)
      /\ DOMAIN runs' = DOMAIN runs \cup {Len(runs) + 1}
      /\ \A n \in DOMAIN runs : runs'[n] = runs[n]
      /\ runs'[Len(runs) + 1] = run
  BY <1>4
<1>6. run \in Runs(Len(runs) + 1)
  <2>1. items[i].source \in 0..(Len(runs) + 1 - 1) /\ items[i].watermark \in Watermark
    BY <1>1, <1>5 DEF ItemType
  <2> QED
    BY <1>1, <1>2, <2>1 DEF Runs
<1>7. RunsTyped'
  BY <1>1, <1>5, <1>6 DEF Typed, RunsTyped, Runs, Watermark
<1>8. RecordsTyped' /\ ReceiptsTyped' /\ ScheduleTyped'
  BY <1>1 DEF Typed, RecordsTyped, ReceiptsTyped, ScheduleTyped, Withdrawn, inputs
<1>9. WorkersTyped'
  BY DEF Publish, Typed, WorkersTyped, Idle, IInv, WorkersOK
<1>10. ItemsTyped'
  <2>1. items' = [items EXCEPT ![i] = Ended(items[i], "completed")]
    BY <1>0, <1>1 DEF Publish
  <2>2. "completed" \in ItemStates
    BY DEF ItemStates
  <2>3. \A j \in DOMAIN items : Fits(items'[j]) /\ DOMAIN items' = DOMAIN items
    BY <1>1, <2>1, <2>2, EndedFits DEF Typed, ItemsTyped
  <2>4. now \in Nat
    BY DEF Typed, RecordsTyped
  <2> QED
    BY <1>1, <1>5, <2>1, <2>3, <2>4 DEF ItemsTyped, Fits, ItemType, Watermark
<1> QED
  BY <1>7, <1>8, <1>9, <1>10 DEF Typed

LEMMA TypedStep ==
  ASSUME MetricAssumption, IInv, Typed, [Next]_vars
  PROVE  Typed'
<1>1. ASSUME NEW i \in DOMAIN items, Expire(i)
      PROVE  Typed'
  <2>1. UNCHANGED <<now, inputs, receipts, saved, worker>>
    BY <1>1 DEF Expire
  <2>2. PICK item : item = [items[i] EXCEPT !.live = FALSE]
    OBVIOUS
  <2>3. items' = [items EXCEPT ![i] = item]
    BY <1>1, <2>2 DEF Expire
  <2>4. items[i] \in ItemType
    BY DEF Typed, ItemsTyped, Fits
  <2>5. Fits(item)
    BY <2>2, <2>4 DEF Fits, ItemType
  <2>6. WorkersTyped'
    BY <2>1 DEF Typed, WorkersTyped
  <2> QED
    BY <2>1, <2>3, <2>5, <2>6, OneItemStep
<1>2. ASSUME NEW watermark \in Watermarks, Request(watermark)
      PROVE  Typed'
  <2>1. UNCHANGED <<now, inputs, receipts, saved, worker>> /\ now \in Nat
    BY <1>2 DEF Request, Typed, RecordsTyped
  <2>2. runs # <<>> /\ Newest \in DOMAIN runs
    BY NewestIsARun DEF Watermarks, Typed
  <2>3. watermark \in Watermark
    BY <2>1, <2>2 DEF Watermarks, Watermark, MetricAssumption, Typed, RunsTyped, Runs
  <2>4. PICK item : item = Item("cost", Newest, {}, watermark, "queued")
    OBVIOUS
  <2>5. Fits(item)
    BY <2>2, <2>3, <2>4, NewItemFits
  <2>6. items' = Append(items, item)
    BY <1>2, <2>4 DEF Request
  <2>7. Fits(item)'
    BY <2>1, <2>5 DEF Fits, ItemType, Watermark, saved
  <2>8. now' \in Nat /\ now <= now' /\ runs' = runs
    BY <2>1 DEF saved
  <2>9. ItemsTyped'
    BY <2>1, <2>6, <2>7, <2>8, AppendedItemsFit DEF Typed
  <2>10. WorkersTyped'
    BY <2>1 DEF Typed, WorkersTyped
  <2> QED
    BY <2>1, <2>9, <2>10, OnlyItemsStep
<1>3. CASE SetPolicy \/ UNCHANGED vars
  <2>1. UNCHANGED <<now, inputs, receipts, saved, items, worker>>
    BY <1>3 DEF SetPolicy, vars
  <2>2. ItemsTyped' /\ WorkersTyped'
    BY <2>1 DEF Typed, ItemsTyped, Fits, ItemType, Watermark, WorkersTyped, saved
  <2> QED
    BY <2>1, <2>2, OnlyItemsStep
<1> QED
  BY <1>1, <1>2, <1>3, RecordsStep, ScheduleStep, PlanStep, ClaimStep, WorkerStep,
     PublishStep DEF Next, Step

\* Types, for any records, workers and bounds: attempts stay within the maximum
\* through retries, pauses and lapsed claims, and what a run supersedes is older.
THEOREM MetricTypes ==
  ASSUME MetricAssumption
  PROVE  Spec => []TypeOK
<1>1. Init => IInv /\ Typed
  BY Initially, TypedInitially
<1>2. IInv /\ Typed /\ [Next]_vars => (IInv /\ Typed)'
  BY NextKeeps, TypedStep
<1>3. IInv /\ Typed => TypeOK
  BY DEF Typed, RecordsTyped, ReceiptsTyped, ReceiptStates, RunsTyped, Runs, ItemsTyped,
         Fits, ItemType, WorkersTyped, Watermark, TypeOK
<1> QED
  BY <1>1, <1>2, <1>3, PTL DEF Spec

-----------------------------------------------------------------------------
(* The queue of the tenants' cycles, which shares no state with the metrics    *)
(* and decides when they are looked for: a drain that waits is woken exactly   *)
(* when nothing is running and nothing is left that could run.                 *)

\* A nonempty set of numbers has a least one.
LEMMA Least ==
  ASSUME NEW S \in SUBSET Nat, S # {}
  PROVE  \E m \in S : \A q \in S : m <= q
<1> DEFINE R == OpToRel(<, Nat)
<1>1. IsWellFoundedOn(R, Nat)
  BY NatLessThanWellFounded
<1>2. PICK m \in S : \A q \in S : <<q, m>> \notin R
  BY <1>1, WFMin
<1>3. \A a, b \in Nat : <<a, b>> \in R <=> a < b
  BY DEF OpToRel
<1> HIDE DEF R
<1>4. ASSUME NEW q \in S PROVE m <= q
  <2>1. m \in Nat /\ q \in Nat /\ ~(q < m)
    BY <1>2, <1>3, <1>4
  <2> QED
    BY <2>1
<1> QED
  BY <1>4

\* The operators of FiniteSets, as the instance names them.
LEMMA SameCardinality ==
  \A S : /\ Pool!IsFiniteSet(S) <=> IsFiniteSet(S)
         /\ Pool!Cardinality(S) = Cardinality(S)
<1>1. \A S : Pool!IsFiniteSet(S) <=> IsFiniteSet(S)
  BY DEF Pool!IsFiniteSet, IsFiniteSet
<1>2. \A S : Pool!Cardinality(S) = Cardinality(S)
  BY Zenon DEF Pool!Cardinality, Cardinality
<1> QED
  BY <1>1, <1>2

LEMMA FirstIsOfThem ==
  ASSUME Pool!CoordinatorAssumption, NEW S \in SUBSET Tenant, S # {}
  PROVE  Pool!First(S) \in S
<1>1. S \in SUBSET Nat
  BY DEF Pool!CoordinatorAssumption
<1>2. PICK m \in S : \A q \in S : m <= q
  BY <1>1, Least
<1> QED
  BY <1>2 DEF Pool!First

\* Every tenant once, in the queue or at work; the counter counts those at work.
Distinct(q) == \A i, j \in 1..Len(q) : q[i] = q[j] => i = j
Apart(q, busy) == \A i \in 1..Len(q) : q[i] \notin busy
OneTurnEach ==
  /\ queue \in Seq(Tenant) /\ Distinct(queue) /\ Apart(queue, running)
  /\ running \in SUBSET Tenant /\ IsFiniteSet(running) /\ active = Cardinality(running)
  /\ active <= Concurrency
  /\ pendingTenants = Pool!Range(queue) \cup running

\* The shutdown waits from the moment that nothing more is submitted.
WaitIsExact ==
  /\ closed = stopping /\ (stopping <=> idleWaiter # "none")
  /\ stopping => (idleWaiter = "resolved" <=> Pool!Idle)
  /\ exit # "no" => stopping
  /\ exit = "clean" => Pool!Idle /\ pollInFlight = "none"

PoolInv == Pool!TypeOK /\ OneTurnEach /\ WaitIsExact

\* What Pump leaves of the queue q, where the tenants busy are at work.
Pumped(q, busy) ==
  /\ queue' \in Seq(Tenant) /\ Distinct(queue)' /\ Apart(queue, running)'
  /\ running' \in SUBSET Tenant /\ IsFiniteSet(running') /\ active' = Cardinality(running')
  /\ active' <= Concurrency
  /\ (Pool!Range(queue) \cup running)' = Pool!Range(q) \cup busy
  /\ idleWaiter' = IF Pool!Idle' /\ idleWaiter = "waiting" THEN "resolved" ELSE idleWaiter

\* Starting the first k of the queue.
LEMMA PumpKeeps ==
  ASSUME Pool!CoordinatorAssumption, NEW q \in Seq(Tenant), Distinct(q),
         NEW busy \in SUBSET Tenant, IsFiniteSet(busy), Apart(q, busy),
         NEW n \in 0..Concurrency, n = Cardinality(busy), Pool!Pump(q, n, busy)
  PROVE  Pumped(q, busy)
<1> DEFINE free == Concurrency - n
           k == IF Len(q) < free THEN Len(q) ELSE free
           started == SubSeq(q, 1, k)
           rest == SubSeq(q, k + 1, Len(q))
<1>1. Len(q) \in Nat /\ DOMAIN q = 1..Len(q) /\ \A i \in 1..Len(q) : q[i] \in Tenant
  BY LenProperties, ElementOfSeq
<1>2. Concurrency \in Nat /\ k \in 0..Len(q) /\ n + k <= Concurrency
  BY <1>1 DEF Pool!CoordinatorAssumption
<1>3. /\ queue' = rest /\ active' = n + k /\ running' = busy \cup Pool!Range(started)
      /\ idleWaiter' = Pool!ResolveIdleWaiters(n + k, rest)
  BY DEF Pool!Pump
<1> HIDE DEF k
<1>4. /\ rest \in Seq(Tenant) /\ Len(rest) = Len(q) - k
      /\ \A i \in 1..Len(q) - k : rest[i] = q[k + i]
  <2>1. \A i \in k + 1 .. Len(q) : q[i] \in Tenant
    BY <1>1, <1>2
  <2>2. k \in Int /\ k + 1 \in Int /\ Len(q) \in Int
    BY <1>1, <1>2
  <2>3. /\ rest \in Seq(Tenant)
        /\ Len(rest) = IF k + 1 <= Len(q) THEN Len(q) - (k + 1) + 1 ELSE 0
        /\ \A i \in 1 .. Len(q) - (k + 1) + 1 : rest[i] = q[k + 1 + i - 1]
    BY <2>1, <2>2, SubSeqProperties
  <2>4. Len(rest) = Len(q) - k
    <3> DEFINE l == Len(q)
    <3>1. l \in Nat /\ k \in 0..l /\ Len(rest) = IF k + 1 <= l THEN l - (k + 1) + 1 ELSE 0
      BY <1>1, <1>2, <2>3
    <3> HIDE DEF l, rest
    <3>2. Len(rest) = l - k
      BY <3>1
    <3> QED
      BY <3>2 DEF l
  <2>5. ASSUME NEW i \in 1..Len(q) - k PROVE rest[i] = q[k + i]
    <3>1. i \in 1 .. Len(q) - (k + 1) + 1 /\ k + 1 + i - 1 = k + i
      BY <1>1, <1>2
    <3> QED
      BY <2>3, <3>1
  <2> QED
    BY <2>3, <2>4, <2>5
<1>5. /\ started \in Seq(Tenant) /\ Len(started) = k
      /\ \A i \in 1..k : started[i] = q[i]
  <2>1. \A i \in 1..k : q[i] \in Tenant
    BY <1>1, <1>2
  <2>2. k \in Int
    BY <1>1, <1>2
  <2>3. /\ started \in Seq(Tenant) /\ Len(started) = IF 1 <= k THEN k - 1 + 1 ELSE 0
        /\ \A i \in 1 .. k - 1 + 1 : started[i] = q[1 + i - 1]
    BY <2>1, <2>2, SubSeqProperties
  <2> QED
    BY <1>1, <1>2, <2>3
<1>6. DOMAIN started = 1..k /\ DOMAIN rest = 1..Len(q) - k
  BY <1>4, <1>5, LenProperties
<1> HIDE DEF started, rest
<1>7. /\ Pool!Range(started) = {q[i] : i \in 1..k}
      /\ Pool!Range(rest) = {q[i] : i \in k + 1..Len(q)}
  <2>1. Pool!Range(started) = {q[i] : i \in 1..k}
    BY <1>5, <1>6 DEF Pool!Range
  <2>2. ASSUME NEW i \in k + 1..Len(q)
        PROVE  q[i] \in Pool!Range(rest)
    <3>1. i - k \in 1..Len(q) - k /\ k + (i - k) = i
      BY <1>1, <1>2
    <3> QED
      BY <1>4, <1>6, <3>1 DEF Pool!Range
  <2>3. ASSUME NEW i \in 1..Len(q) - k
        PROVE  rest[i] \in {q[j] : j \in k + 1..Len(q)}
    BY <1>1, <1>2, <1>4
  <2> DEFINE later == {q[i] : i \in k + 1..Len(q)}
  <2>4. Pool!Range(rest) \subseteq later
    BY <1>6, <2>3 DEF Pool!Range
  <2>5. later \subseteq Pool!Range(rest)
    BY <2>2
  <2> HIDE DEF later
  <2>6. Pool!Range(rest) = later
    BY <2>4, <2>5
  <2> QED
    BY <2>1, <2>6 DEF later
<1>8. Distinct(rest) /\ Apart(rest, busy \cup Pool!Range(started))
  <2>1. ASSUME NEW i \in 1..Len(rest), NEW j \in 1..Len(rest), rest[i] = rest[j]
        PROVE  i = j
    <3>1. k + i \in 1..Len(q) /\ k + j \in 1..Len(q) /\ q[k + i] = q[k + j]
      BY <1>1, <1>2, <1>4, <2>1
    <3> QED
      BY <1>2, <3>1 DEF Distinct
  <2>2. ASSUME NEW i \in 1..Len(rest)
        PROVE  rest[i] \notin busy \cup Pool!Range(started)
    <3>1. /\ k + i \in 1..Len(q) /\ rest[i] = q[k + i]
          /\ \A j \in 1..k : j \in 1..Len(q) /\ j # k + i
      BY <1>1, <1>2, <1>4
    <3> QED
      BY <1>7, <3>1 DEF Distinct, Apart
  <2> QED
    BY <2>1, <2>2 DEF Distinct, Apart
<1>9. /\ IsFiniteSet(Pool!Range(started)) /\ Cardinality(Pool!Range(started)) = k
      /\ busy \cap Pool!Range(started) = {}
  <2>1. \A i \in 1..k : i \in 1..Len(q)
    BY <1>1, <1>2
  <2>2. [i \in 1..k |-> q[i]] \in Bijection(1..k, Pool!Range(started))
    BY <1>7, <2>1 DEF Bijection, Injection, Surjection, Distinct, IsInjective
  <2>3. IsFiniteSet(1..k) /\ Cardinality(1..k) = k
    BY <1>1, <1>2, FS_Interval
  <2>4. ExistsBijection(1..k, Pool!Range(started))
    BY <2>2 DEF ExistsBijection
  <2>5. busy \cap Pool!Range(started) = {}
    BY <1>7, <2>1 DEF Apart
  <2> QED
    BY <2>3, <2>4, <2>5, FS_Bijection
<1>10. /\ IsFiniteSet(running') /\ Cardinality(running') = n + k
  <2>1. IsFiniteSet(busy \cup Pool!Range(started)) /\ Cardinality(busy \cup Pool!Range(started))
          = Cardinality(busy) + Cardinality(Pool!Range(started)) - Cardinality({})
    BY <1>9, FS_Union
  <2> QED
    BY <1>1, <1>2, <1>3, <1>9, <2>1, FS_EmptySet
<1>11. (Pool!Range(queue) \cup running)' = Pool!Range(q) \cup busy
  <2>1. \A i : i \in 1..Len(q) <=> i \in 1..k \/ i \in k + 1..Len(q)
    BY <1>1, <1>2
  <2>2. Pool!Range(q) = {q[i] : i \in 1..k} \cup {q[i] : i \in k + 1..Len(q)}
    BY <1>1, <2>1 DEF Pool!Range
  <2>3. Pool!Range(queue)' = Pool!Range(rest)
    BY <1>3 DEF Pool!Range
  <2> QED
    BY <1>3, <1>7, <2>2, <2>3
<1>12. running' \in SUBSET Tenant
  BY <1>1, <1>2, <1>3, <1>7
<1>13. idleWaiter' = IF Pool!Idle' /\ idleWaiter = "waiting" THEN "resolved" ELSE idleWaiter
  BY <1>3 DEF Pool!ResolveIdleWaiters, Pool!Idle
<1>14. Distinct(queue)' /\ Apart(queue, running)'
  BY <1>3, <1>8 DEF Distinct, Apart
<1> QED
  BY <1>2, <1>3, <1>4, <1>10, <1>11, <1>12, <1>13, <1>14 DEF Pumped

\* A queue without repetition is no longer than the tenants are many.
LEMMA QueueFits ==
  ASSUME Pool!CoordinatorAssumption, NEW q \in Seq(Tenant), Distinct(q)
  PROVE  Len(q) <= Cardinality(Tenant)
<1>1. q \in [1..Len(q) -> Tenant] /\ Len(q) \in Nat
  BY LenProperties
<1>2. q \in Injection(1..Len(q), Tenant)
  BY <1>1 DEF Injection, Distinct, IsInjective
<1>3. IsFiniteSet(Tenant)
  BY SameCardinality DEF Pool!CoordinatorAssumption
<1>4. Cardinality(1..Len(q)) <= Cardinality(Tenant)
  BY <1>2, <1>3, FS_Injection
<1>5. Cardinality(1..Len(q)) = Len(q)
  <2>1. Cardinality(1..Len(q)) = IF 1 > Len(q) THEN 0 ELSE Len(q) - 1 + 1
    BY <1>1, FS_Interval
  <2> QED
    BY <1>1, <2>1
<1> QED
  BY <1>4, <1>5

\* What a poll adds.
LEMMA PollKeeps ==
  ASSUME Pool!CoordinatorAssumption, PoolInv, NEW S \in SUBSET Tenant, Pool!PollOn(S),
         exit = "no", UNCHANGED <<stopping, exit>>
  PROVE  PoolInv'
<1>1. CASE S = {}
  BY <1>1 DEF PoolInv, Pool!PollOn, Pool!EndPoll, Pool!coordinator, Pool!TypeOK, OneTurnEach,
       WaitIsExact, Pool!Idle, Pool!Range, Distinct, Apart
<1>2. CASE S # {}
  <2> DEFINE t == Pool!First(S)
  <2>1. t \in Tenant
    BY <1>2, FirstIsOfThem
  <2>2. /\ Pool!Submit(t) /\ pollInFlight' = "beating" /\ left' = S /\ UNCHANGED listening
    BY <1>2 DEF Pool!PollOn
  <2> HIDE DEF t
  <2>3. CASE closed \/ t \in pendingTenants
    BY <1>2, <2>2, <2>3 DEF PoolInv, Pool!Submit, Pool!coordinator, Pool!TypeOK, OneTurnEach,
         WaitIsExact, Pool!Idle, Pool!Range, Distinct, Apart
  <2>4. CASE ~(closed \/ t \in pendingTenants)
    <3> DEFINE q == Append(queue, t)
    <3>1. /\ pendingTenants' = pendingTenants \cup {t} /\ Pool!Pump(q, active, running)
          /\ closed' = closed
      BY <2>2, <2>4 DEF Pool!Submit
    <3>2. /\ queue \in Seq(Tenant) /\ Len(queue) \in Nat /\ DOMAIN queue = 1..Len(queue)
          /\ q \in Seq(Tenant) /\ Len(q) = Len(queue) + 1 /\ DOMAIN q = 1..Len(queue) + 1
          /\ \A i \in 1..Len(queue) : q[i] = queue[i]
          /\ q[Len(queue) + 1] = t
      <4>1. queue \in Seq(Tenant)
        BY DEF PoolInv, OneTurnEach
      <4>2. /\ q \in Seq(Tenant) /\ Len(q) = Len(queue) + 1
            /\ \A i \in 1..Len(queue) : q[i] = queue[i]
            /\ q[Len(queue) + 1] = t
        BY <2>1, <4>1, AppendProperties
      <4> QED
        BY <4>1, <4>2, LenProperties
    <3> HIDE DEF q
    <3>3. \A i : i \in 1..Len(q) <=> i \in 1..Len(queue) \/ i = Len(queue) + 1
      BY <3>2
    <3>4. t \notin running /\ \A i \in 1..Len(queue) : queue[i] # t
      BY <2>4, <3>2 DEF PoolInv, OneTurnEach, Pool!Range
    <3>5. Distinct(q) /\ Apart(q, running)
      <4>1. \A i \in 1..Len(queue) : i # Len(queue) + 1
        BY <3>2
      <4>2. Distinct(q)
        BY <3>2, <3>3, <3>4, <4>1 DEF PoolInv, OneTurnEach, Distinct
      <4>3. Apart(q, running)
        BY <3>2, <3>3, <3>4 DEF PoolInv, OneTurnEach, Apart
      <4> QED
        BY <4>2, <4>3
    <3>6. Pool!Range(q) = Pool!Range(queue) \cup {t}
      BY <3>2, <3>3 DEF Pool!Range
    <3>7. /\ running \in SUBSET Tenant /\ IsFiniteSet(running) /\ active \in 0..Concurrency
          /\ active = Cardinality(running)
      BY DEF PoolInv, OneTurnEach, Pool!TypeOK
    <3>8. Pumped(q, running)
      BY <3>1, <3>2, <3>5, <3>7, PumpKeeps
    <3>9. pendingTenants' = (Pool!Range(queue) \cup running)'
      BY <3>1, <3>6, <3>8 DEF PoolInv, OneTurnEach, Pumped
    <3>10. OneTurnEach'
      BY <3>8, <3>9 DEF OneTurnEach, Pumped
    <3>11. ~stopping /\ idleWaiter = "none" /\ idleWaiter' = "none"
      BY <2>4, <3>8 DEF PoolInv, WaitIsExact, Pumped
    <3>12. WaitIsExact'
      BY <3>1, <3>11 DEF PoolInv, WaitIsExact
    <3>13. Len(queue') <= Cardinality(Tenant)
      BY <3>8, QueueFits DEF Distinct, Pumped
    <3>14. active' \in 0..Concurrency
      BY <3>8, FS_CardinalityType DEF Pool!CoordinatorAssumption, Pumped
    <3>15. pendingTenants' \subseteq Tenant
      BY <2>1, <3>1 DEF PoolInv, Pool!TypeOK
    <3>16. Pool!TypeOK'
      BY <1>2, <2>2, <3>1, <3>8, <3>11, <3>13, <3>14, <3>15, SameCardinality, Zenon
         DEF PoolInv, Pool!TypeOK, Pumped
    <3> QED
      BY <3>10, <3>12, <3>16 DEF PoolInv
  <2> QED
    BY <2>3, <2>4
<1> QED
  BY <1>1, <1>2

LEMMA PoolNext ==
  ASSUME Pool!CoordinatorAssumption, PoolInv, [Pool!Next]_(Pool!vars)
  PROVE  PoolInv'
<1>1. ASSUME NEW t \in Tenant, Pool!TaskSettles(t) PROVE PoolInv'
  <2> DEFINE busy == running \ {t}
             n == active - 1
  <2>1. /\ queue \in Seq(Tenant) /\ Distinct(queue) /\ Apart(queue, running)
        /\ running \in SUBSET Tenant /\ IsFiniteSet(running) /\ active = Cardinality(running)
        /\ active <= Concurrency /\ t \in running
        /\ pendingTenants = Pool!Range(queue) \cup running
    BY <1>1 DEF PoolInv, OneTurnEach, Pool!TaskSettles
  <2>2. /\ Pool!Pump(queue, n, busy) /\ pendingTenants' = pendingTenants \ {t} /\ exit = "no"
        /\ UNCHANGED <<closed, pollInFlight, left, listening, stopping, exit>>
    BY <1>1 DEF Pool!TaskSettles
  <2>3. IsFiniteSet(busy) /\ Cardinality(busy) = n /\ busy \in SUBSET Tenant
    BY <2>1, FS_RemoveElement
  <2>4. n \in 0..Concurrency
    <3>1. active \in Nat /\ n \in Nat /\ Concurrency \in Nat
      BY <2>1, <2>3, FS_CardinalityType DEF Pool!CoordinatorAssumption
    <3> QED
      BY <2>1, <3>1
  <2>5. Apart(queue, busy)
    BY <2>1 DEF Apart
  <2> HIDE DEF n, busy
  <2>6. Pumped(queue, busy)
    BY <2>1, <2>2, <2>3, <2>4, <2>5, PumpKeeps
  <2>7. t \notin Pool!Range(queue)
    BY <2>1, LenProperties DEF Apart, Pool!Range
  <2>8. OneTurnEach'
    BY <2>1, <2>2, <2>6, <2>7 DEF OneTurnEach, busy, Pumped
  <2>9. ~Pool!Idle
    <3>1. Cardinality(running) # 0
      BY <2>1, FS_EmptySet
    <3> QED
      BY <2>1, <3>1 DEF Pool!Idle
  <2>10. WaitIsExact'
    <3>1. /\ closed' = closed /\ stopping' = stopping /\ exit' = "no"
          /\ closed = stopping /\ (stopping <=> idleWaiter # "none")
          /\ stopping => idleWaiter # "resolved"
      BY <2>2, <2>9 DEF PoolInv, WaitIsExact
    <3>2. idleWaiter \in {"none", "waiting", "resolved"}
      BY DEF PoolInv, Pool!TypeOK
    <3>3. CASE Pool!Idle'
      BY <2>6, <3>1, <3>2, <3>3 DEF WaitIsExact, Pumped
    <3>4. CASE ~Pool!Idle'
      BY <2>6, <3>1, <3>2, <3>4 DEF WaitIsExact, Pumped
    <3> QED
      BY <3>3, <3>4
  <2>11. active' \in 0..Concurrency
    BY <2>6, FS_CardinalityType DEF Pool!CoordinatorAssumption, Pumped
  <2>12. Len(queue') <= Cardinality(Tenant)
    BY <2>6, QueueFits DEF Distinct, Pumped
  <2>13. Pool!TypeOK'
    BY <2>2, <2>6, <2>11, <2>12, SameCardinality, Zenon DEF PoolInv, Pool!TypeOK, Pumped
  <2> QED
    BY <2>8, <2>10, <2>13 DEF PoolInv
<1>2. ASSUME NEW t \in Tenant, Pool!HeartbeatStored(t) PROVE PoolInv'
  <2>1. left \ {t} \in SUBSET Tenant
    BY DEF PoolInv, Pool!TypeOK
  <2> QED
    BY <1>2, <2>1, PollKeeps DEF Pool!HeartbeatStored
<1>3. CASE Pool!TenantsListed
  <2>1. PICK S \in SUBSET Tenant : Pool!PollOn(Configured \cup S)
    BY <1>3 DEF Pool!TenantsListed
  <2>2. Configured \cup S \in SUBSET Tenant
    BY DEF Pool!CoordinatorAssumption
  <2> QED
    BY <1>3, <2>1, <2>2, PollKeeps DEF Pool!TenantsListed
<1>4. CASE \/ Pool!StartPoll \/ Pool!PollFails \/ Pool!Stop \/ Pool!Drained
           \/ Pool!Deadline \/ UNCHANGED Pool!vars
  <2>1. UNCHANGED <<pendingTenants, queue, active, running>>
    BY <1>4 DEF Pool!StartPoll, Pool!PollFails, Pool!Stop, Pool!Drained, Pool!Deadline,
         Pool!vars, Pool!coordinator
  <2>2. OneTurnEach'
    BY <2>1 DEF PoolInv, OneTurnEach, Distinct, Apart, Pool!Range
  <2>3. Pool!TypeOK'
    BY <1>4, <2>1 DEF PoolInv, Pool!TypeOK, Pool!StartPoll, Pool!PollFails, Pool!EndPoll,
         Pool!Stop, Pool!Drained, Pool!Deadline, Pool!vars, Pool!coordinator
  <2>4. WaitIsExact'
    <3>1. Pool!Idle' <=> Pool!Idle
      BY <2>1 DEF Pool!Idle
    <3>2. CASE Pool!StartPoll \/ Pool!PollFails \/ UNCHANGED Pool!vars
      <4>1. /\ UNCHANGED <<closed, stopping, idleWaiter, exit>>
            /\ exit = "no" \/ pollInFlight' = pollInFlight
        BY <3>2 DEF Pool!StartPoll, Pool!PollFails, Pool!vars, Pool!coordinator
      <4> QED
        BY <3>1, <4>1 DEF PoolInv, WaitIsExact
    <3>3. CASE Pool!Stop
      <4>1. CASE Pool!Idle
        BY <3>1, <3>3, <4>1 DEF PoolInv, WaitIsExact, Pool!Stop
      <4>2. CASE ~Pool!Idle
        BY <3>1, <3>3, <4>2 DEF PoolInv, WaitIsExact, Pool!Stop
      <4> QED
        BY <4>1, <4>2
    <3>4. CASE Pool!Drained \/ Pool!Deadline
      BY <3>1, <3>4 DEF PoolInv, WaitIsExact, Pool!DrainDone, Pool!Drained, Pool!Deadline,
           Pool!coordinator
    <3> QED
      BY <1>4, <3>2, <3>3, <3>4
  <2> QED
    BY <2>2, <2>3, <2>4 DEF PoolInv
<1> QED
  BY <1>1, <1>2, <1>3, <1>4 DEF Pool!Next

LEMMA PoolInit == ASSUME Pool!CoordinatorAssumption PROVE Pool!Init => PoolInv
<1> SUFFICES ASSUME Pool!Init PROVE PoolInv
  OBVIOUS
<1>1. /\ Len(queue) = 0 /\ queue \in Seq(Tenant) /\ DOMAIN queue = {}
      /\ \A i : i \notin 1..Len(queue)
  BY EmptySeq, LenProperties DEF Pool!Init
<1>2. IsFiniteSet(Tenant) /\ IsFiniteSet({}) /\ Cardinality({}) = 0
  BY FS_EmptySet, SameCardinality DEF Pool!CoordinatorAssumption
<1>3. Cardinality(Tenant) \in Nat /\ Pool!Cardinality(Tenant) = Cardinality(Tenant)
  BY <1>2, FS_CardinalityType, SameCardinality
<1>4. Pool!TypeOK
  <2>1. 0 \in 0..Concurrency /\ Len(queue) <= Pool!Cardinality(Tenant)
    BY <1>1, <1>3 DEF Pool!CoordinatorAssumption
  <2> QED
    BY <1>1, <2>1 DEF Pool!Init, Pool!TypeOK
<1>5. OneTurnEach
  BY <1>1, <1>2 DEF Pool!Init, OneTurnEach, Distinct, Apart, Pool!Range,
       Pool!CoordinatorAssumption
<1>6. WaitIsExact
  BY DEF Pool!Init, WaitIsExact
<1> QED
  BY <1>4, <1>5, <1>6 DEF PoolInv

LEMMA PoolInvariant == ASSUME Pool!CoordinatorAssumption PROVE Pool!Spec => []PoolInv
BY PoolInit, PoolNext, PTL DEF Pool!Spec

\* The shutdown hears of idleness exactly when it is there, whatever polls,
\* failures and tenants' cycles went before.
THEOREM NoWakeUpIsLost ==
  ASSUME MetricAssumption, Pool!CoordinatorAssumption
  PROVE  Spec /\ Pool!Spec => []DrainIsExact
<1>1. PoolInv /\ TypeOK => DrainIsExact
  BY DEF PoolInv, WaitIsExact, Pool!DrainIsExact, DrainIsExact
<1> QED
  BY <1>1, PoolInvariant, MetricTypes, PTL

-----------------------------------------------------------------------------
(* The inbox whose records the metric counts, which shares no state with it:   *)
(* an event has one record, a processed batch is complete, and an install is    *)
(* attributed whichever came first.                                             *)

\* Who is there, when each came, and that no two came together.
Present(b) == state[b] # "absent"
Dated ==
  /\ arrival \in [Batch -> Nat]
  /\ \A b, c \in Batch : arrival[b] = arrival[c] /\ arrival[b] # 0 => b = c
  /\ \A b \in Batch : arrival[b] = 0 <=> ~Present(b)

\* The records that came are in one order.
LEMMA OneOrder ==
  ASSUME Inbox!InboxAssumption, Dated
  PROVE  /\ \A q, r \in Record : Inbox!Before(q, r) => ~Inbox!Before(r, q) /\ q # r
         /\ \A q, r, s \in Record : Inbox!Before(q, r) /\ Inbox!Before(r, s) => Inbox!Before(q, s)
         /\ \A q, r \in Record : Present(home[q]) =>
              q = r \/ Inbox!Before(q, r) \/ Inbox!Before(r, q)
<1>1. /\ \A r \in Record : home[r] \in Batch /\ place[r] \in Nat
      /\ \A b \in Batch : arrival[b] \in Nat
      /\ \A q, r \in Record : home[q] = home[r] /\ place[q] = place[r] => q = r
  BY DEF Inbox!InboxAssumption, Dated
<1>2. \A q, r \in Record : Inbox!Before(q, r) => ~Inbox!Before(r, q) /\ q # r
  BY <1>1 DEF Inbox!Before, Inbox!Sooner
<1>3. \A q, r, s \in Record : Inbox!Before(q, r) /\ Inbox!Before(r, s) => Inbox!Before(q, s)
  BY <1>1 DEF Inbox!Before, Inbox!Sooner
<1>4. ASSUME NEW q \in Record, NEW r \in Record, Present(home[q])
      PROVE  q = r \/ Inbox!Before(q, r) \/ Inbox!Before(r, q)
  <2>1. CASE arrival[home[q]] = arrival[home[r]]
    <3>1. home[q] = home[r]
      BY <1>1, <1>4, <2>1 DEF Dated
    <3> QED
      BY <1>1, <3>1 DEF Inbox!Before
  <2> QED
    BY <1>1, <2>1 DEF Inbox!Before, Inbox!Sooner
<1> QED
  BY <1>2, <1>3, <1>4

\* Of some that came one came first.
LEMMA EarliestIs ==
  ASSUME Inbox!InboxAssumption, Dated,
         NEW S \in SUBSET Record, S # {}, \A r \in S : Present(home[r])
  PROVE  /\ Inbox!Earliest(S) \in S
         /\ \A q \in S : q = Inbox!Earliest(S) \/ Inbox!Before(Inbox!Earliest(S), q)
<1>1. /\ \A r \in S : r \in Record /\ home[r] \in Batch /\ place[r] \in Nat
      /\ \A r \in S : arrival[home[r]] \in Nat
  BY DEF Inbox!InboxAssumption, Dated
<1> DEFINE came == {arrival[home[r]] : r \in S}
<1>2. PICK m \in came : \A n \in came : m <= n
  <2>1. came \in SUBSET Nat /\ came # {}
    BY <1>1
  <2> HIDE DEF came
  <2> QED
    BY <2>1, Least
<1> DEFINE first == {r \in S : arrival[home[r]] = m}
           places == {place[r] : r \in first}
<1>3. PICK k \in places : \A n \in places : k <= n
  <2>1. places \in SUBSET Nat /\ places # {}
    BY <1>1, <1>2
  <2> HIDE DEF places
  <2> QED
    BY <2>1, Least
<1>4. PICK r \in S : arrival[home[r]] = m /\ place[r] = k
  BY <1>3
<1>5. ASSUME NEW q \in S PROVE q = r \/ Inbox!Before(r, q)
  <2>1. m <= arrival[home[q]] /\ m \in Nat /\ k \in Nat
    BY <1>1, <1>2, <1>4
  <2>2. CASE arrival[home[q]] = m
    <3>1. k <= place[q]
      BY <1>3, <2>2
    <3>2. home[q] = home[r]
      BY <1>1, <1>4, <2>2 DEF Dated
    <3>3. place[q] = place[r] => q = r
      BY <1>1, <3>2 DEF Inbox!InboxAssumption
    <3> QED
      BY <1>1, <1>4, <2>1, <3>1, <3>2, <3>3 DEF Inbox!Before
  <2> QED
    BY <1>1, <1>4, <2>1, <2>2 DEF Inbox!Before, Inbox!Sooner
<1> QED
  BY <1>5 DEF Inbox!Earliest

LEMMA InboxCardinality ==
  \A S : /\ Inbox!IsFiniteSet(S) <=> IsFiniteSet(S)
         /\ Inbox!Cardinality(S) = Cardinality(S)
<1>1. \A S : Inbox!IsFiniteSet(S) <=> IsFiniteSet(S)
  BY DEF Inbox!IsFiniteSet, IsFiniteSet
<1>2. \A S : Inbox!Cardinality(S) = Cardinality(S)
  BY Zenon DEF Inbox!Cardinality, Cardinality
<1> QED
  BY <1>1, <1>2

\* The rows are the first of the open batches.
LEMMA RowsComeFirst ==
  ASSUME Inbox!InboxAssumption, Dated
  PROVE  /\ \A b \in Inbox!Rows : b \in Batch /\ Inbox!Open(b) /\ Present(b)
         /\ \A b \in Inbox!Rows, c \in Batch : Inbox!Open(c) /\ Inbox!Sooner(c, b) =>
              c \in Inbox!Rows
<1>1. \A b \in Inbox!Rows : b \in Batch /\ Inbox!Open(b) /\ Present(b)
  BY DEF Inbox!Rows, Inbox!Open, Present
<1>2. ASSUME NEW b \in Inbox!Rows, NEW c \in Batch, Inbox!Open(c), Inbox!Sooner(c, b)
      PROVE  c \in Inbox!Rows
  <2> DEFINE open == {x \in Batch : Inbox!Open(x)}
             S(x) == {y \in open : Inbox!Sooner(y, x)}
  <2>1. S(c) \subseteq S(b)
    <3>1. \A x \in Batch : arrival[x] \in Nat
      BY DEF Dated
    <3> QED
      BY <1>1, <1>2, <3>1 DEF Inbox!Sooner
  <2>2. IsFiniteSet(S(b))
    BY FS_Subset, <1>1, InboxCardinality DEF Inbox!InboxAssumption
  <2>3. Cardinality(S(c)) <= Cardinality(S(b)) /\ IsFiniteSet(S(c))
    BY <2>1, <2>2, FS_Subset
  <2>4. Cardinality(S(c)) \in Nat /\ Cardinality(S(b)) \in Nat /\ BatchLimit \in Nat
    BY <2>2, <2>3, FS_CardinalityType DEF Inbox!InboxAssumption
  <2>5. Cardinality(S(b)) < BatchLimit
    BY InboxCardinality DEF Inbox!Rows
  <2>6. c \in open
    BY <1>2
  <2>7. Cardinality(S(c)) < BatchLimit
    BY <2>3, <2>4, <2>5
  <2> QED
    BY <2>6, <2>7, InboxCardinality DEF Inbox!Rows
<1> QED
  BY <1>1, <1>2

\* What the steps of a drain work on.
Delivery ==
  [record : Record, accepted : BOOLEAN, resolution : Inbox!Resolutions, canonical : Record \cup {None}]
Outcome == [install : Record, reason : Inbox!Reason, click : Record \cup {None}]

\* Who has an event by these deliveries.
LEMMA UniqueHas ==
  ASSUME NEW judged, NEW r
  PROVE  r \in Inbox!Unique(judged) <=> \E d \in judged : d.record = r /\ Inbox!Accepted(d)
BY DEF Inbox!Unique

\* The candidate that decides on a record.
Fellows(r, S) == {q \in S : Inbox!SameEvent(q, r)}

\* It is of the history, or the first of the rows, and all of one event have the same.
LEMMA FirstIs ==
  ASSUME Inbox!InboxAssumption, Dated, NEW work \in SUBSET Batch, \A b \in work : Present(b),
         NEW history \in SUBSET Record, \A q \in history : Present(home[q]),
         NEW r \in Inbox!RecordsOf(work)
  PROVE  LET first == Inbox!FirstOf(r, work, history)
         IN  /\ first \in Record /\ Inbox!SameEvent(first, r)
             /\ first \in history \/ Fellows(r, history) = {}
             /\ Fellows(r, history) = {} =>
                  /\ first \in Inbox!RecordsOf(work)
                  /\ \A q \in Fellows(r, Inbox!RecordsOf(work)) : q = first
                       \/ Inbox!Before(first, q)
             /\ \A q \in Inbox!RecordsOf(work) : Inbox!SameEvent(q, r) =>
                  Inbox!FirstOf(q, work, history) = first
<1>1. Inbox!RecordsOf(work) \subseteq Record /\ \A q \in Inbox!RecordsOf(work) : Present(home[q])
  BY DEF Inbox!RecordsOf
<1>2. /\ Fellows(r, history) \in SUBSET Record
      /\ \A q \in Fellows(r, history) : Present(home[q])
      /\ Fellows(r, Inbox!RecordsOf(work)) \in SUBSET Record
      /\ \A q \in Fellows(r, Inbox!RecordsOf(work)) : Present(home[q])
      /\ r \in Fellows(r, Inbox!RecordsOf(work))
  BY <1>1 DEF Fellows, Inbox!SameEvent
<1>3. Inbox!FirstOf(r, work, history) =
        IF Fellows(r, history) # {} THEN Inbox!Earliest(Fellows(r, history))
                                    ELSE Inbox!Earliest(Fellows(r, Inbox!RecordsOf(work)))
  BY DEF Inbox!FirstOf, Fellows, Inbox!SameEvent
<1>4. ASSUME NEW q \in Inbox!RecordsOf(work), Inbox!SameEvent(q, r)
      PROVE  Inbox!FirstOf(q, work, history) = Inbox!FirstOf(r, work, history)
  <2>1. /\ Fellows(q, history) = Fellows(r, history)
        /\ Fellows(q, Inbox!RecordsOf(work)) = Fellows(r, Inbox!RecordsOf(work))
    BY <1>4 DEF Fellows, Inbox!SameEvent
  <2>2. Inbox!FirstOf(q, work, history) =
          IF Fellows(q, history) # {} THEN Inbox!Earliest(Fellows(q, history))
                                      ELSE Inbox!Earliest(Fellows(q, Inbox!RecordsOf(work)))
    BY DEF Inbox!FirstOf, Fellows, Inbox!SameEvent
  <2> QED
    BY <1>3, <2>1, <2>2
<1>5. CASE Fellows(r, history) # {}
  <2>1. Inbox!FirstOf(r, work, history) \in Fellows(r, history)
    BY <1>2, <1>3, <1>5, EarliestIs
  <2> QED
    BY <1>2, <1>4, <1>5, <2>1 DEF Fellows
<1>6. CASE Fellows(r, history) = {}
  <2> DEFINE S == Fellows(r, Inbox!RecordsOf(work))
  <2>1. S \in SUBSET Record /\ S # {} /\ \A q \in S : Present(home[q])
    BY <1>2
  <2>2. Inbox!FirstOf(r, work, history) = Inbox!Earliest(S)
    BY <1>3, <1>6
  <2>3. S \subseteq Inbox!RecordsOf(work) /\ \A q \in S : Inbox!SameEvent(q, r)
    BY DEF Fellows
  <2> HIDE DEF S
  <2>4. Inbox!Earliest(S) \in S /\ \A q \in S : q = Inbox!Earliest(S)
          \/ Inbox!Before(Inbox!Earliest(S), q)
    BY <2>1, EarliestIs
  <2>5. Inbox!Earliest(S) \in Record /\ Inbox!SameEvent(Inbox!Earliest(S), r)
          /\ Inbox!Earliest(S) \in Inbox!RecordsOf(work)
    BY <2>1, <2>3, <2>4
  <2> QED
    BY <1>4, <1>6, <2>2, <2>4, <2>5 DEF S
<1> QED
  BY <1>5, <1>6

\* Who gets the event: a record that the history does not have, the first of its
\* event.
LEMMA JudgedIs ==
  ASSUME Inbox!InboxAssumption, Dated, NEW work \in SUBSET Batch, \A b \in work : Present(b),
         NEW history \in SUBSET Record, \A q \in history : Present(home[q])
  PROVE  LET judged == Inbox!Judged(work, history)
         IN  /\ judged \in SUBSET Delivery
             /\ \A d \in judged : d.record \in Inbox!RecordsOf(work)
                  /\ d = Inbox!Judge(d.record, work, history)
             /\ \A r \in Inbox!RecordsOf(work) : \E d \in judged : d.record = r
             /\ \A d, e \in judged : d.record = e.record => d = e
             /\ \A d \in judged : d.accepted => ~fact[d.record].refused
             /\ \A r : r \in Inbox!Unique(judged) <=>
                  /\ r \in Inbox!RecordsOf(work) /\ r \notin history /\ ~fact[r].refused
                  /\ Inbox!FirstOf(r, work, history) = r
<1> DEFINE J(r) == Inbox!Judge(r, work, history)
           judged == Inbox!Judged(work, history)
<1>1. \A r \in Inbox!RecordsOf(work) : r \in Record /\ fact[r].refused \in BOOLEAN
  BY DEF Inbox!RecordsOf, Inbox!InboxAssumption, Inbox!Fact
<1>2. ASSUME NEW r \in Inbox!RecordsOf(work)
      PROVE  /\ J(r) \in Delivery /\ J(r).record = r
             /\ J(r).accepted => ~fact[r].refused
             /\ Inbox!Accepted(J(r)) <=>
                  r \notin history /\ ~fact[r].refused /\ Inbox!FirstOf(r, work, history) = r
  <2>1. Inbox!FirstOf(r, work, history) \in Record
    BY FirstIs
  <2> DEFINE first == Inbox!FirstOf(r, work, history)
  <2> HIDE DEF first
  <2>2. PICK resolution : resolution =
          IF r \in history THEN "record_id_collision"
          ELSE IF first = r THEN "unique"
          ELSE IF fact[first].digest = fact[r].digest THEN "duplicate_delivery"
          ELSE "event_id_conflict"
    OBVIOUS
  <2>3. PICK accepted \in BOOLEAN : accepted <=>
          resolution \in {"unique", "duplicate_delivery"} /\ ~fact[r].refused
    OBVIOUS
  <2>4. PICK canon : canon = IF resolution = "record_id_collision" THEN None ELSE first
    OBVIOUS
  <2>5. /\ J(r).record = r /\ J(r).resolution = resolution /\ (J(r).accepted <=> accepted)
        /\ J(r).canonical = canon
        /\ J(r).accepted \in BOOLEAN
        /\ J(r) = [record |-> J(r).record, resolution |-> J(r).resolution,
                   accepted |-> J(r).accepted, canonical |-> J(r).canonical]
    BY <2>2, <2>3, <2>4 DEF Inbox!Judge, first
  <2>6. resolution \in Inbox!Resolutions /\ canon \in Record \cup {None}
    BY <2>1, <2>2, <2>4 DEF Inbox!Resolutions, first
  <2>7. J(r) \in Delivery
    BY <1>1, <2>5, <2>6 DEF Delivery
  <2>8. Inbox!Accepted(J(r)) <=> r \notin history /\ ~fact[r].refused /\ first = r
    BY <2>2, <2>3, <2>5 DEF Inbox!Accepted
  <2> QED
    BY <2>3, <2>5, <2>7, <2>8 DEF first
<1> HIDE DEF J
<1>3. judged = {J(r) : r \in Inbox!RecordsOf(work)}
  BY DEF Inbox!Judged, J
<1>4. /\ judged \in SUBSET Delivery
      /\ \A r \in Inbox!RecordsOf(work) : \E d \in judged : d.record = r
      /\ \A d, e \in judged : d.record = e.record => d = e
      /\ \A d \in judged : d.accepted => ~fact[d.record].refused
  BY <1>2, <1>3
<1>5. \A d \in judged : d.record \in Inbox!RecordsOf(work) /\ d = J(d.record)
  BY <1>2, <1>3
<1>6. ASSUME NEW r PROVE r \in Inbox!Unique(judged) <=>
                  /\ r \in Inbox!RecordsOf(work) /\ r \notin history /\ ~fact[r].refused
                  /\ Inbox!FirstOf(r, work, history) = r
  BY <1>2, <1>3, UniqueHas
<1> QED
  BY <1>4, <1>5, <1>6 DEF J

\* The records that an evaluation may attribute or attribute to.
Readable(judged, history) == Inbox!Unique(judged) \cup {h \in history : Inbox!Semantic(h)}
ClicksIn(r, S) == {q \in S : fact[q].name = "click" /\ fact[q].click = fact[r].click}
Attributed(r, q) == [install |-> r, reason |-> "valid_install_referrer", click |-> q]

\* A valid result names one of the readable clicks, and the only one there is.
LEMMA AttributeIs ==
  ASSUME Inbox!InboxAssumption, NEW judged \in SUBSET Delivery, NEW history \in SUBSET Record,
         NEW r \in Record
  PROVE  LET a == Inbox!Attribute(r, judged, history)
             clicks == ClicksIn(r, Readable(judged, history))
         IN  /\ a \in Outcome /\ a.install = r
             /\ a.reason = "valid_install_referrer" => a.click \in clicks /\ fact[a.click].good
             /\ \A q : clicks = {q} /\ fact[q].good => a = Attributed(r, q)
<1> DEFINE clicks == ClicksIn(r, Readable(judged, history))
<1>1. clicks = {q \in Inbox!Unique(judged) \cup {h \in history : Inbox!Semantic(h)} :
                  fact[q].name = "click" /\ fact[q].click = fact[r].click}
  BY DEF ClicksIn, Readable
<1>2. clicks \subseteq Record
  BY DEF ClicksIn, Readable, Inbox!Unique, Delivery
<1>3. PICK reason : reason =
        IF clicks = {} THEN "unknown_click_id"
        ELSE IF \E p, q \in clicks : p # q THEN "ambiguous_click_id"
        ELSE IF \A q \in clicks : fact[q].good THEN "valid_install_referrer"
        ELSE "window_expired"
  OBVIOUS
<1>4. PICK click : click = IF reason = "valid_install_referrer" THEN CHOOSE q \in clicks : TRUE
                           ELSE None
  OBVIOUS
<1>5. Inbox!Attribute(r, judged, history) = [install |-> r, reason |-> reason, click |-> click]
  BY <1>1, <1>3, <1>4, Zenon DEF Inbox!Attribute
<1> HIDE DEF clicks
<1>6. reason = "valid_install_referrer" =>
        /\ click \in clicks /\ \A q \in clicks : q = click
        /\ fact[click].good
  BY <1>3, <1>4
<1>7. reason \in Inbox!Reason /\ click \in Record \cup {None}
  BY <1>2, <1>3, <1>4, <1>6 DEF Inbox!Reason
<1>8. ASSUME NEW q, clicks = {q}, fact[q].good
      PROVE  reason = "valid_install_referrer" /\ click = q
  BY <1>3, <1>4, <1>8
<1> QED
  BY <1>5, <1>6, <1>7, <1>8 DEF Outcome, Attributed, clicks

\* Every install accepted now has a result, and every pair completed now a valid one.
LEMMA AttributionsAre ==
  ASSUME Inbox!InboxAssumption, NEW judged \in SUBSET Delivery, NEW history \in SUBSET Record
  PROVE  LET found == Inbox!Attributions(judged, history)
             readable == Readable(judged, history)
         IN  /\ found \in SUBSET Outcome
             /\ \A a \in found :
                  /\ a.install \in readable
                  /\ a.reason = "valid_install_referrer" =>
                       a.click \in ClicksIn(a.install, readable) /\ fact[a.click].good
             /\ \A r \in Inbox!Unique(judged) : fact[r].name = "install" =>
                  \E a \in found : a.install = r
             /\ \A r \in readable, q \in Record :
                  /\ fact[r].name = "install" /\ ClicksIn(r, readable) = {q} /\ fact[q].good
                  /\ r \in Inbox!Unique(judged) \/ q \in Inbox!Unique(judged)
                  => Attributed(r, q) \in found
<1> DEFINE A(r) == Inbox!Attribute(r, judged, history)
           found == Inbox!Attributions(judged, history)
           readable == Readable(judged, history)
           time == {A(r) : r \in {r \in Inbox!Unique(judged) : fact[r].name = "install"}}
           before == {A(h) : h \in {h \in history : Inbox!Semantic(h) /\ fact[h].name = "install"}}
<1>1. found = time \cup {a \in before : a.click \in Inbox!Unique(judged)}
  BY DEF Inbox!Attributions
<1>2. readable \subseteq Record /\ Inbox!Unique(judged) \subseteq readable
  BY DEF Readable, Inbox!Unique, Delivery
<1>3. \A r \in readable :
        /\ A(r) \in Outcome /\ A(r).install = r
        /\ A(r).reason = "valid_install_referrer" =>
             A(r).click \in ClicksIn(r, readable) /\ fact[A(r).click].good
        /\ \A q : ClicksIn(r, readable) = {q} /\ fact[q].good => A(r) = Attributed(r, q)
  BY <1>2, AttributeIs
<1> HIDE DEF A
<1>4. \A a \in found : \E r \in readable : a = A(r)
  BY <1>1, <1>2 DEF Readable
<1>5. \A r \in Inbox!Unique(judged) : fact[r].name = "install" => A(r) \in found
  BY <1>1
<1>6. ASSUME NEW r \in readable, NEW q \in Record,
             fact[r].name = "install", ClicksIn(r, readable) = {q}, fact[q].good,
             r \in Inbox!Unique(judged) \/ q \in Inbox!Unique(judged)
      PROVE  Attributed(r, q) \in found
  <2>1. A(r) = Attributed(r, q)
    BY <1>3, <1>6
  <2>2. CASE r \in Inbox!Unique(judged)
    BY <1>5, <1>6, <2>1, <2>2
  <2>3. CASE r \notin Inbox!Unique(judged)
    <3>1. r \in history /\ Inbox!Semantic(r)
      BY <1>6, <2>3 DEF Readable
    <3>2. A(r) \in before /\ A(r).click = q
      BY <1>6, <2>1, <3>1 DEF Attributed
    <3> QED
      BY <1>1, <1>6, <2>1, <2>3, <3>2
  <2> QED
    BY <2>2, <2>3
<1> HIDE DEF found, readable
<1>7. found \in SUBSET Outcome
  BY <1>3, <1>4
<1>8. ASSUME NEW a \in found
      PROVE  /\ a.install \in readable
             /\ a.reason = "valid_install_referrer" =>
                  a.click \in ClicksIn(a.install, readable) /\ fact[a.click].good
  BY <1>3, <1>4
<1>9. \A r \in Inbox!Unique(judged) : fact[r].name = "install" => \E a \in found : a.install = r
  BY <1>2, <1>3, <1>5
<1> QED
  BY <1>6, <1>7, <1>8, <1>9 DEF found, readable

-----------------------------------------------------------------------------
(* The invariant.                                                              *)

Drains ==
  [step : {"idle", "project", "attribute", "receipt", "late", "queue"},
   work : SUBSET Batch, fresh : SUBSET Batch, judged : SUBSET Delivery,
   found : SUBSET Outcome, todo : SUBSET (Record \cup Batch \cup Outcome),
   asked : SUBSET Record]
InboxTypes == Inbox!TypeOK /\ drain \in Drains

\* The records that have an event, or will have it when the drain has written them.
Given == Inbox!Admitted \cup Inbox!Unique(drain.judged)
Written == drain.step \in {"attribute", "receipt", "late", "queue"}

\* What a drain has at each of its steps.
DrainInv ==
  /\ drain.step = "idle" => drain = Inbox!Idle
  /\ \A b \in drain.work : Present(b) /\ b \notin blocked
  /\ drain.step \in {"project", "attribute"} => \A b \in drain.work : Inbox!Open(b)
  /\ drain.step = "project" => drain.todo \subseteq Inbox!RecordsOf(drain.work)
  /\ drain.step \in {"attribute", "late"} => drain.todo \subseteq drain.found
  /\ drain.step \in {"receipt", "queue"} => drain.todo \subseteq drain.work
  /\ drain.step = "receipt" =>
       \A b \in drain.work : IF b \in drain.todo THEN Inbox!Open(b) ELSE state[b] = "post"
  /\ drain.step \in {"late", "queue"} => \A b \in drain.work : state[b] \in {"post", "processed"}
  /\ \A b \in drain.work : state[b] \in {"pending", "retry"} => b \in drain.fresh
  /\ drain.fresh \subseteq drain.work
JudgedInv ==
  /\ \A d \in drain.judged : d.record \in Inbox!RecordsOf(drain.work)
  /\ \A d \in drain.judged : d.accepted => ~fact[d.record].refused
  /\ \A d, e \in drain.judged : d.record = e.record => d = e
  /\ drain.step = "project" => \A d \in drain.judged : d.record \in drain.todo \/ d \in deliveries
  /\ Written => drain.judged \subseteq deliveries

\* The tables of the ledger agree, and what a dead drain left is known.
LedgerInv ==
  /\ \A e \in Inbox!Event : canonical[e] # None =>
       canonical[e] \in Inbox!Admitted /\ fact[canonical[e]].event = e
  /\ \A r \in Inbox!Admitted : r \in raw /\ canonical[fact[r].event] # None /\ ~fact[r].refused
  /\ \A r \in raw : Present(home[r])
  /\ \A r \in raw : state[home[r]] = "pending" => home[r] \in orphaned \cup drain.work
  /\ \A r \in erased : home[r] \in blocked

\* A second record of an event is there for a reason, and one that comes after
\* another of its event met a batch that was closed, or not yet there.
Excused(r) == retries[home[r]] > 0 \/ home[r] \in overtaken
OneEach ==
  /\ \A p, r \in Given : Inbox!SameEvent(p, r) => p = r \/ Excused(p) \/ Excused(r)
  /\ \A p, r \in Inbox!Unique(drain.judged) : Inbox!SameEvent(p, r) => p = r
  /\ \A p \in Given, r \in Record :
       /\ Inbox!SameEvent(p, r) /\ Inbox!Before(r, p) /\ Present(home[r])
       => state[home[r]] \in {"failed", "processed"} \/ Excused(r)

\* An event of which something was kept is in the ledger or was refused.
Known(r) ==
  \/ canonical[fact[r].event] # None
  \/ \E q \in Record : Inbox!SameEvent(q, r) /\ fact[q].refused
Heir(d) == \E u \in Inbox!Unique(drain.judged) \cap drain.todo :
             Inbox!SameEvent(u, d.record) /\ (u = d.record \/ Inbox!Before(u, d.record))
Conflict(d) == d.resolution = "event_id_conflict" /\ ~fact[d.record].refused
KnownInv ==
  /\ \A r \in raw : Known(r)
  /\ \A d \in deliveries : d.accepted => Known(d.record)
  /\ drain.step = "project" => \A d \in drain.judged :
       /\ d.record \in drain.todo
       /\ d.accepted \/ Conflict(d)
       => Known(d.record) \/ Heir(d)

\* A record whose event is or may be another's.
Rival(q, r) ==
  /\ Inbox!SameEvent(q, r)
  /\ home[q] \in orphaned \/ (fact[q].refused /\ Present(home[q]) /\ Inbox!Before(q, r))
Spoilt(r, S) ==
  \/ fact[r].refused
  \/ \E q \in Record : Rival(q, r)
  \/ \E q \in S : Inbox!SameEvent(q, r) /\ q # r
IsInstall(r) == fact[r].name = "install"

\* A record that nothing has spoilt is among those that its drain accepts, and at
\* the end of it has all that it needs.
FairInv ==
  \A r \in Inbox!RecordsOf(drain.work) :
    r \in Inbox!Unique(drain.judged) \/ Spoilt(r, Given)
DoneInv ==
  /\ \A r \in Record : state[home[r]] = "post" =>
       \/ Spoilt(r, Inbox!Admitted)
       \/ r \in Inbox!Admitted /\ (IsInstall(r) => result[r] # None)
  /\ \A r \in Inbox!Admitted : state[home[r]] = "processed" =>
       \/ Spoilt(r, Inbox!Admitted) \/ home[r] \in blocked
       \/ (fact[r].lookup => r \in queued) /\ (IsInstall(r) => result[r] # None)

IsValid(a) == a.reason = "valid_install_referrer"
FoundInv ==
  /\ \A r \in Inbox!Unique(drain.judged) : IsInstall(r) => \E a \in drain.found : a.install = r
  /\ \A a \in drain.found : IsValid(a) =>
       a.click \in ClicksIn(a.install, Given) /\ fact[a.click].good
  /\ drain.step = "attribute" => \A a \in drain.found : a \in drain.todo \/ result[a.install] # None
  /\ drain.step \in {"receipt", "late", "queue"} => \A a \in drain.found : result[a.install] # None
  /\ drain.step = "late" => \A a \in drain.found : IsValid(a) =>
       a \in drain.todo \/ Inbox!Valid(a.install)
  /\ drain.step = "queue" => \A a \in drain.found : IsValid(a) => Inbox!Valid(a.install)
  /\ drain.asked \subseteq queued

\* An install and its only click, both in good order.
Pair(r, q, S) ==
  /\ r \in S /\ q \in S /\ home[r] \notin blocked /\ home[q] \notin blocked
  /\ ~Spoilt(r, S) /\ ~Spoilt(q, S)
  /\ IsInstall(r) /\ ClicksIn(r, S) = {q} /\ fact[q].good
PairInv ==
  \A r, q \in Record :
    Pair(r, q, Given) /\ (r \in Inbox!Unique(drain.judged) \/ q \in Inbox!Unique(drain.judged))
    => Attributed(r, q) \in drain.found
ValidInv ==
  /\ \A r \in Record : Inbox!Valid(r) => \E q \in ClicksIn(r, Inbox!Admitted) : fact[q].good
  /\ \A r, q \in Record :
       Pair(r, q, Inbox!Admitted) /\ state[home[r]] = "processed" /\ state[home[q]] = "processed"
       => Inbox!Valid(r)

InboxInv ==
  /\ InboxTypes /\ Dated /\ DrainInv /\ JudgedInv /\ LedgerInv /\ OneEach /\ KnownInv
  /\ FairInv /\ DoneInv /\ FoundInv /\ PairInv /\ ValidInv

\* What never goes back.
Onward ==
  /\ \A b \in Batch : Present(b) => Present(b)' /\ arrival'[b] = arrival[b]
  /\ orphaned \subseteq orphaned' /\ overtaken \subseteq overtaken'
  /\ blocked \subseteq blocked' /\ deliveries \subseteq deliveries'
  /\ \A b \in Batch : retries[b] > 0 => retries'[b] > 0

\* What a step that goes on keeps.
LEMMA Kept ==
  ASSUME Inbox!InboxAssumption, Onward
  PROVE  /\ Inbox!Admitted \subseteq Inbox!Admitted'
         /\ \A r \in Record : Excused(r) => Excused(r)'
         /\ \A q, r \in Record : Present(home[q]) /\ Present(home[r]) =>
              (Inbox!Before(q, r)' <=> Inbox!Before(q, r))
         /\ \A r \in Record : Present(home[r]) => Present(home[r])'
<1>1. \A r \in Record : home[r] \in Batch
  BY DEF Inbox!InboxAssumption
<1>2. Inbox!Admitted \subseteq Inbox!Admitted'
  BY DEF Onward, Inbox!Admitted, Inbox!Unique
<1> QED
  BY <1>1, <1>2 DEF Onward, Excused, Inbox!Before, Inbox!Sooner

\* What is spoilt stays so, and what is a pair was one.
LEMMA SpoiltStays ==
  ASSUME Inbox!InboxAssumption, Onward
  PROVE  /\ \A r \in Record : Present(home[r]) /\ Spoilt(r, Inbox!Admitted) =>
              Spoilt(r, Inbox!Admitted)'
         /\ Given \subseteq Given' =>
              \A r \in Record : Present(home[r]) /\ Spoilt(r, Given) => Spoilt(r, Given)'
<1>1. \A q, r \in Record : Present(home[r]) /\ Rival(q, r) => Rival(q, r)'
  <2> SUFFICES ASSUME NEW q \in Record, NEW r \in Record, Present(home[r]), Rival(q, r)
               PROVE  Rival(q, r)'
    OBVIOUS
  <2>1. CASE home[q] \in orphaned
    BY <2>1 DEF Onward, Rival, Inbox!SameEvent
  <2>2. CASE fact[q].refused /\ Present(home[q]) /\ Inbox!Before(q, r)
    BY <2>2, Kept DEF Rival, Inbox!SameEvent
  <2> QED
    BY <2>1, <2>2 DEF Rival
<1>2. Inbox!Admitted \subseteq Inbox!Admitted'
  BY Kept
<1> QED
  BY <1>1, <1>2 DEF Spoilt, Inbox!SameEvent

LEMMA PairWas ==
  ASSUME Inbox!InboxAssumption, Onward, NEW r \in Record, NEW q \in Record,
         \A x \in Given : x \in Record /\ Present(home[x])
  PROVE  /\ Given \subseteq Given' /\ r \in Given /\ q \in Given /\ Pair(r, q, Given)' =>
              Pair(r, q, Given)
         /\ r \in Inbox!Admitted /\ q \in Inbox!Admitted /\ Pair(r, q, Inbox!Admitted)' =>
              Pair(r, q, Inbox!Admitted)
<1>1. Inbox!Admitted \subseteq Inbox!Admitted' /\ Inbox!Admitted \subseteq Given
  BY Kept DEF Given
<1>2. ASSUME r \in Inbox!Admitted, q \in Inbox!Admitted, Pair(r, q, Inbox!Admitted)'
      PROVE  Pair(r, q, Inbox!Admitted)
  <2>1. ~Spoilt(r, Inbox!Admitted) /\ ~Spoilt(q, Inbox!Admitted)
    BY <1>1, <1>2, SpoiltStays DEF Pair
  <2> QED
    BY <1>1, <1>2, <2>1 DEF Pair, Onward, ClicksIn, IsInstall
<1>3. ASSUME Given \subseteq Given', r \in Given, q \in Given, Pair(r, q, Given)'
      PROVE  Pair(r, q, Given)
  <2>1. ~Spoilt(r, Given) /\ ~Spoilt(q, Given)
    BY <1>1, <1>3, SpoiltStays DEF Pair
  <2> QED
    BY <1>1, <1>3, <2>1 DEF Pair, Onward, ClicksIn, IsInstall
<1> QED
  BY <1>2, <1>3

\* All that have an event are records that came.
LEMMA GivenCame ==
  ASSUME Inbox!InboxAssumption, InboxInv
  PROVE  /\ \A r \in Given : r \in Record /\ Present(home[r])
         /\ \A r \in Inbox!Unique(drain.judged) : r \in Inbox!RecordsOf(drain.work)
              /\ ~fact[r].refused
         /\ Inbox!Admitted \subseteq raw /\ raw \subseteq Record /\ Inbox!Admitted \subseteq Given
         /\ Written => Given = Inbox!Admitted
<1>1. Inbox!Admitted \subseteq raw /\ raw \subseteq Record /\ \A r \in raw : Present(home[r])
  BY DEF InboxInv, LedgerInv, InboxTypes, Inbox!TypeOK
<1>2. \A r \in Inbox!Unique(drain.judged) : r \in Inbox!RecordsOf(drain.work) /\ ~fact[r].refused
  BY UniqueHas DEF InboxInv, JudgedInv, Inbox!Accepted
<1>3. \A r \in Inbox!RecordsOf(drain.work) : r \in Record /\ Present(home[r])
  BY DEF InboxInv, DrainInv, Inbox!RecordsOf
<1>4. Written => Inbox!Unique(drain.judged) \subseteq Inbox!Admitted
  BY DEF InboxInv, JudgedInv, Inbox!Unique, Inbox!Admitted
<1> QED
  BY <1>1, <1>2, <1>3, <1>4 DEF Given

\* The inbox starts empty.
LEMMA Initial == ASSUME Inbox!InboxAssumption, Inbox!Init PROVE InboxInv
<1>1. /\ Inbox!Admitted = {} /\ Inbox!Unique(drain.judged) = {} /\ Given = {}
      /\ drain \in Drains /\ drain = Inbox!Idle /\ drain.step = "idle" /\ drain.work = {}
           /\ drain.found = {}
      /\ drain.fresh = {} /\ drain.judged = {} /\ drain.todo = {} /\ drain.asked = {}
      /\ \A b \in Batch : ~Present(b) /\ ~Inbox!Open(b) /\ arrival[b] = 0
      /\ \A r \in Record : result[r] = None
  BY
  DEF Inbox!Init, Inbox!Admitted, Given, Inbox!Unique, Inbox!Idle, Drains, Present, Inbox!Open
<1>2. Inbox!RecordsOf(drain.work) = {} /\ \A r \in Record : home[r] \in Batch
  BY <1>1 DEF Inbox!RecordsOf, Inbox!InboxAssumption
<1>3. InboxTypes
  <2>1. Inbox!TypeOK
    BY DEF Inbox!Init, Inbox!TypeOK, Inbox!InboxAssumption
  <2> QED
    BY <1>1, <2>1 DEF InboxTypes
<1>4. Dated
  BY <1>1 DEF Inbox!Init, Dated
<1>5. DrainInv /\ JudgedInv /\ OneEach
  BY <1>1, <1>2 DEF DrainInv, JudgedInv, OneEach
<1>6. LedgerInv /\ KnownInv
  BY <1>1, <1>2 DEF Inbox!Init, LedgerInv, KnownInv
<1>7. FairInv /\ DoneInv /\ FoundInv
  BY <1>1, <1>2 DEF Inbox!Init, FairInv, DoneInv, FoundInv
<1>8. PairInv /\ ValidInv
  <2>1. \A r \in Record : ~Inbox!Valid(r)
    BY <1>1 DEF Inbox!Init, Inbox!Valid, Inbox!InboxAssumption, Inbox!Reason
  <2> QED
    BY <1>1, <2>1 DEF PairInv, ValidInv, Pair
<1> QED
  BY <1>3, <1>4, <1>5, <1>6, <1>7, <1>8 DEF InboxInv

\* Admission.
LEMMA ReceiveKeeps ==
  ASSUME Inbox!InboxAssumption, InboxInv, NEW b \in Batch, NEW time \in Times, Inbox!Receive(b, time)
  PROVE  InboxInv'
<1>1. /\ ~Present(b) /\ arrival' = [arrival EXCEPT ![b] = time]
      /\ state' = [state EXCEPT ![b] = "pending"] /\ \A c \in Batch : arrival[c] # time
      /\ overtaken' = IF \E c \in Batch : arrival[c] > time THEN overtaken \cup {b} ELSE overtaken
      /\ UNCHANGED <<retries, blocked, raw, canonical, erased, deliveries, result, late, queued,
                     drain, throws, orphaned>>
  BY DEF Inbox!Receive, Present, Inbox!ledger
<1>2. /\ arrival \in [Batch -> Nat] /\ time \in Nat /\ time # 0
      /\ state \in [Batch -> {"absent", "pending", "retry", "failed", "post", "processed"}]
      /\ \A r \in Record : home[r] \in Batch
  BY DEF InboxInv, Dated, InboxTypes, Inbox!TypeOK, Inbox!InboxAssumption
<1>3. /\ \A c \in Batch : c # b => state'[c] = state[c] /\ arrival'[c] = arrival[c]
      /\ state'[b] = "pending" /\ arrival'[b] = time
      /\ overtaken \subseteq overtaken'
  BY <1>1, <1>2
<1>4. /\ Inbox!Admitted' = Inbox!Admitted /\ Given' = Given
           /\ Inbox!Unique(drain.judged)' = Inbox!Unique(drain.judged)
      /\ Inbox!RecordsOf(drain.work)' = Inbox!RecordsOf(drain.work) /\ (Written' <=> Written)
  BY <1>1 DEF Inbox!Admitted, Given, Inbox!Unique, Inbox!Accepted, Inbox!RecordsOf, Written
<1>5. Onward
  BY <1>1, <1>3 DEF Onward, Present
<1>6. \A c \in Batch : Present(c) => c # b
  BY <1>1
<1>7. InboxTypes'
  BY <1>1, <1>2 DEF InboxInv, InboxTypes, Inbox!TypeOK, Inbox!Event, Inbox!InboxAssumption
<1>8. Dated'
  <2>1. arrival' \in [Batch -> Nat]
    BY <1>1, <1>2
  <2> QED
    BY <1>1, <1>2, <1>3, <2>1 DEF InboxInv, Dated, Present
<1>9. DrainInv'
  BY <1>1, <1>3, <1>6 DEF InboxInv, DrainInv, Present, Inbox!Open, Inbox!Idle, Inbox!RecordsOf
<1>10. JudgedInv'
  BY <1>1, <1>4 DEF InboxInv, JudgedInv
<1>11. LedgerInv'
  <2>1. \A r \in raw : r \in Record /\ Present(home[r]) /\ home[r] # b
    BY <1>2, <1>6, GivenCame DEF InboxInv, LedgerInv
  <2> QED
    BY <1>1, <1>2, <1>3, <1>4, <2>1 DEF InboxInv, LedgerInv, Present
<1>12. OneEach'
  <2>1. \A r \in Record : Excused(r) => Excused(r)'
    BY <1>5, Kept
  <2>2. ASSUME NEW p \in Given, NEW r \in Record, Inbox!SameEvent(p, r), Inbox!Before(r, p)', Present(home[r])'
        PROVE  state'[home[r]] \in {"failed", "processed"} \/ Excused(r)'
    <3>1. p \in Record /\ Present(home[p]) /\ home[p] # b
      BY <1>2, <1>6, GivenCame
    <3>2. CASE home[r] = b
      <4>1. time < arrival[home[p]]
        BY <1>2, <1>3, <2>2, <3>1, <3>2 DEF Inbox!Before, Inbox!Sooner
      <4> QED
        BY <1>1, <1>2, <3>1, <3>2, <4>1 DEF Excused
    <3>3. CASE home[r] # b
      <4>1. Present(home[r]) /\ Inbox!Before(r, p) /\ state'[home[r]] = state[home[r]]
        BY <1>2, <1>3, <1>5, <2>2, <3>1, <3>3, Kept DEF Present
      <4> QED
        BY <2>1, <2>2, <4>1 DEF InboxInv, OneEach
    <3> QED
      BY <3>2, <3>3
  <2>3. \A p, r \in Given : Inbox!SameEvent(p, r) => p = r \/ Excused(p)' \/ Excused(r)'
    BY <2>1, GivenCame DEF InboxInv, OneEach
  <2> QED
    BY <1>4, <2>2, <2>3 DEF InboxInv, OneEach, Inbox!SameEvent
<1>13. KnownInv'
  <2>1. \A r : Known(r)' <=> Known(r)
    BY <1>1 DEF Known, Inbox!SameEvent
  <2>2. \A d \in drain.judged : Heir(d) => Heir(d)'
    <3> SUFFICES ASSUME NEW d \in drain.judged, Heir(d) PROVE Heir(d)'
      OBVIOUS
    <3>1. PICK u \in Inbox!Unique(drain.judged) \cap drain.todo :
            Inbox!SameEvent(u, d.record) /\ (u = d.record \/ Inbox!Before(u, d.record))
      BY DEF Heir
    <3>2. u \in Record /\ d.record \in Record /\ Present(home[u]) /\ Present(home[d.record])
      BY GivenCame DEF InboxInv, JudgedInv, DrainInv, Inbox!RecordsOf
    <3>3. u = d.record \/ Inbox!Before(u, d.record)'
      BY <1>5, <3>1, <3>2, Kept
    <3> QED
      BY <1>1, <1>4, <3>1, <3>3 DEF Heir, Inbox!SameEvent
  <2> QED
    BY <1>1, <2>1, <2>2 DEF InboxInv, KnownInv
<1>14. FairInv' /\ DoneInv'
  <2>1. /\ \A r \in Record : Present(home[r]) /\ Spoilt(r, Inbox!Admitted) =>
             Spoilt(r, Inbox!Admitted)'
        /\ \A r \in Record : Present(home[r]) /\ Spoilt(r, Given) => Spoilt(r, Given)'
    BY <1>4, <1>5, SpoiltStays
  <2>2. \A r \in Record : state'[home[r]] \in {"post", "processed"} =>
          state[home[r]] = state'[home[r]] /\ Present(home[r])
    BY <1>2, <1>3 DEF Present
  <2>3. \A r \in Inbox!RecordsOf(drain.work) : r \in Record /\ Present(home[r])
    BY DEF InboxInv, DrainInv, Inbox!RecordsOf
  <2> QED
    BY <1>1, <1>4, <2>1, <2>2, <2>3, GivenCame DEF InboxInv, FairInv, DoneInv, IsInstall
<1>15. FoundInv'
  BY <1>1, <1>4 DEF InboxInv, FoundInv, ClicksIn, Inbox!Valid, IsInstall, IsValid
<1>16. PairInv' /\ ValidInv'
  <2>1. \A r : Inbox!Valid(r)' <=> Inbox!Valid(r)
    BY <1>1 DEF Inbox!Valid
  <2>2. \A r, q \in Record :
          /\ Pair(r, q, Given)' => Pair(r, q, Given)
          /\ Pair(r, q, Inbox!Admitted)' => Pair(r, q, Inbox!Admitted)
    BY <1>4, <1>5, PairWas, GivenCame DEF Pair
  <2>3. \A r \in Record : state'[home[r]] = "processed" => state[home[r]] = "processed"
    BY <1>2, <1>3
  <2> QED
    BY <1>1, <1>4, <2>1, <2>2, <2>3 DEF InboxInv, PairInv, ValidInv, ClicksIn
<1> QED
  BY <1>7, <1>8, <1>9, <1>10, <1>11, <1>12, <1>13, <1>14, <1>15, <1>16 DEF InboxInv

-----------------------------------------------------------------------------
(* The steps of a drain.                                                       *)

\* The drain d at the start of a step.
Entered(d, e, step, todo) ==
  /\ e \in Drains /\ e.step = step /\ e.todo = todo
  /\ e.work = d.work /\ e.fresh = d.fresh /\ e.judged = d.judged /\ e.found = d.found
  /\ e.asked = d.asked

\* Where each step of a drain starts.
LEMMA BeginIs ==
  ASSUME NEW d \in Drains
  PROVE  /\ Entered(d, Inbox!Begin(d, "project"), "project", Inbox!RecordsOf(d.work))
         /\ Entered(d, Inbox!Begin(d, "attribute"), "attribute", d.found)
         /\ Entered(d, Inbox!Begin(d, "late"), "late", d.found)
         /\ Entered(d, Inbox!Begin(d, "receipt"), "receipt", d.work)
         /\ Entered(d, Inbox!Begin(d, "queue"), "queue", d.work)
<1>1. Inbox!RecordsOf(d.work) \subseteq Record
  BY DEF Inbox!RecordsOf
<1>2. Inbox!Begin(d, "project") = [d EXCEPT !.step = "project", !.todo = Inbox!RecordsOf(d.work)]
  BY DEF Inbox!Begin
<1>3. Inbox!Begin(d, "attribute") = [d EXCEPT !.step = "attribute", !.todo = d.found]
  BY DEF Inbox!Begin
<1>4. Inbox!Begin(d, "late") = [d EXCEPT !.step = "late", !.todo = d.found]
  BY DEF Inbox!Begin
<1>5. Inbox!Begin(d, "receipt") = [d EXCEPT !.step = "receipt", !.todo = d.work]
  BY DEF Inbox!Begin
<1>6. Inbox!Begin(d, "queue") = [d EXCEPT !.step = "queue", !.todo = d.work]
  BY DEF Inbox!Begin
<1>7. /\ Inbox!RecordsOf(d.work) \in SUBSET (Record \cup Batch \cup Outcome)
      /\ d.found \in SUBSET (Record \cup Batch \cup Outcome)
      /\ d.work \in SUBSET (Record \cup Batch \cup Outcome)
  BY <1>1 DEF Drains
<1>8. ASSUME NEW step \in {"project", "attribute", "receipt", "late", "queue"},
             NEW todo \in SUBSET (Record \cup Batch \cup Outcome)
      PROVE  Entered(d, [d EXCEPT !.step = step, !.todo = todo], step, todo)
  BY DEF Entered, Drains
<1>9. Entered(d, Inbox!Begin(d, "project"), "project", Inbox!RecordsOf(d.work))
  BY <1>2, <1>7, <1>8
<1>10. Entered(d, Inbox!Begin(d, "attribute"), "attribute", d.found)
  BY <1>3, <1>7, <1>8
<1>11. Entered(d, Inbox!Begin(d, "late"), "late", d.found)
  BY <1>4, <1>7, <1>8
<1>12. Entered(d, Inbox!Begin(d, "receipt"), "receipt", d.work)
  BY <1>5, <1>7, <1>8
<1>13. Entered(d, Inbox!Begin(d, "queue"), "queue", d.work)
  BY <1>6, <1>7, <1>8
<1> QED
  BY <1>9, <1>10, <1>11, <1>12, <1>13

\* What comes after x, and in which step.
Left(x) == Entered(drain, drain', drain.step, drain.todo \ {x}) /\ drain.todo # {x}
Turned(from, to, todo) == drain.step = from /\ Entered(drain, drain', to, todo)

\* Doing x leaves the rest of the step, or turns to the next.
LEMMA ProceedIs ==
  ASSUME drain \in Drains, drain.step # "idle", NEW x, Inbox!Proceed(x)
  PROVE  \/ Left(x)
         \/ /\ drain.todo = {x}
            /\ \/ Turned("project", "attribute", drain.found)
               \/ Turned("project", "receipt", drain.work) /\ drain.found = {}
               \/ Turned("attribute", "receipt", drain.work)
               \/ Turned("receipt", "late", drain.found)
               \/ Turned("receipt", "queue", drain.work) /\ drain.found = {}
               \/ Turned("late", "queue", drain.work)
               \/ drain.step = "queue" /\ drain' = Inbox!Idle
<1>1. CASE drain.todo # {x}
  <2>1. drain' = [drain EXCEPT !.todo = drain.todo \ {x}]
    BY <1>1 DEF Inbox!Proceed
  <2>2. Left(x)
    BY <1>1, <2>1 DEF Left, Entered, Drains
  <2> QED
    BY <2>2
<1>2. CASE drain.todo = {x}
  <2>1. drain' = Inbox!Following(drain)
    BY <1>2 DEF Inbox!Proceed
  <2>2. drain.step \in {"project", "attribute", "receipt", "late", "queue"}
    BY DEF Drains
  <2>3. CASE drain.step = "project"
    <3>1. drain' = Inbox!Begin(drain, IF drain.found = {} THEN "receipt" ELSE "attribute")
      BY <2>1, <2>3 DEF Inbox!Following
    <3> QED
      BY <1>2, <2>3, <3>1, BeginIs DEF Turned
  <2>4. CASE drain.step = "attribute"
    <3>1. drain' = Inbox!Begin(drain, "receipt")
      BY <2>1, <2>4 DEF Inbox!Following
    <3> QED
      BY <1>2, <2>4, <3>1, BeginIs DEF Turned
  <2>5. CASE drain.step = "receipt"
    <3>1. drain' = Inbox!Begin(drain, IF drain.found = {} THEN "queue" ELSE "late")
      BY <2>1, <2>5 DEF Inbox!Following
    <3> QED
      BY <1>2, <2>5, <3>1, BeginIs DEF Turned
  <2>6. CASE drain.step = "late"
    <3>1. drain' = Inbox!Begin(drain, "queue")
      BY <2>1, <2>6 DEF Inbox!Following
    <3> QED
      BY <1>2, <2>6, <3>1, BeginIs DEF Turned
  <2>7. CASE drain.step = "queue"
    BY <1>2, <2>1, <2>7 DEF Inbox!Following
  <2> QED
    BY <2>2, <2>3, <2>4, <2>5, <2>6, <2>7
<1> QED
  BY <1>1, <1>2

IdleIs(d) ==
  /\ d \in Drains /\ d.step = "idle" /\ d.work = {} /\ d.fresh = {} /\ d.judged = {}
  /\ d.found = {} /\ d.todo = {} /\ d.asked = {}

LEMMA AtRest == IdleIs(Inbox!Idle)
BY DEF Inbox!Idle, IdleIs, Drains

SameWork ==
  /\ drain' \in Drains /\ drain'.work = drain.work /\ drain'.fresh = drain.fresh
  /\ drain'.judged = drain.judged /\ drain'.found = drain.found

\* A step after the records are written.
LaterStep ==
  /\ Written
  /\ UNCHANGED <<arrival, retries, blocked, raw, canonical, erased, deliveries, throws,
                 orphaned, overtaken>>
  /\ \/ drain' = Inbox!Idle /\ \A b \in drain.work : state'[b] # "pending"
     \/ SameWork /\ Written'
  /\ state' \in [Batch -> {"absent", "pending", "retry", "failed", "post", "processed"}]
  /\ \A b \in Batch :
       \/ state'[b] = state[b]
       \/ Inbox!Open(b) /\ state'[b] = "post"
       \/ Present(b) /\ state'[b] = "processed"

\* Such a step leaves alone all that rests on the ledger.
LEMMA LaterKeeps ==
  ASSUME Inbox!InboxAssumption, InboxInv, LaterStep
  PROVE  /\ Onward /\ Inbox!Admitted' = Inbox!Admitted /\ Given' = Given /\ Given = Inbox!Admitted
         /\ Inbox!Unique(drain.judged)' \subseteq Inbox!Unique(drain.judged)
         /\ Dated' /\ JudgedInv' /\ LedgerInv' /\ OneEach' /\ KnownInv' /\ FairInv' /\ PairInv'
<1>1. /\ UNCHANGED <<arrival, retries, blocked, raw, canonical, erased, deliveries, throws,
                 orphaned, overtaken>>
      /\ \A b \in Batch :
           \/ state'[b] = state[b]
           \/ Inbox!Open(b) /\ state'[b] = "post"
           \/ Present(b) /\ state'[b] = "processed"
      /\ Written
  BY DEF LaterStep
<1>2. \A b \in Batch : Present(b)' <=> Present(b)
  BY <1>1 DEF Present, Inbox!Open
<1>3. /\ Given = Inbox!Admitted /\ Inbox!Admitted' = Inbox!Admitted
      /\ \A r \in Inbox!Admitted : r \in Record /\ Present(home[r])
      /\ \A r \in Record : home[r] \in Batch
  BY <1>1, GivenCame DEF Inbox!Admitted, Inbox!InboxAssumption
<1>4. \/ drain'.judged = {} /\ drain'.work = {} /\ drain'.found = {} /\ drain'.step = "idle"
         /\ drain' = Inbox!Idle /\ \A b \in drain.work : state'[b] # "pending"
      \/ SameWork /\ Written'
  BY AtRest DEF LaterStep, IdleIs
<1>5. Inbox!Unique(drain.judged)' \subseteq Inbox!Unique(drain.judged)
        /\ drain'.judged \subseteq drain.judged
      /\ Inbox!RecordsOf(drain.work)' \subseteq Inbox!RecordsOf(drain.work)
  BY <1>4 DEF Inbox!Unique, Inbox!Accepted, SameWork, Inbox!RecordsOf
<1>6. Given' = Given
  <2>1. Inbox!Unique(drain.judged) \subseteq Inbox!Admitted
    BY <1>3 DEF Given
  <2> QED
    BY <1>3, <1>5, <2>1 DEF Given
<1>7. Onward
  BY <1>1, <1>2 DEF Onward
<1>8. Dated'
  BY <1>1, <1>2 DEF InboxInv, Dated
<1>9. JudgedInv'
  <2>1. drain.judged \subseteq deliveries
    BY <1>1 DEF InboxInv, JudgedInv
  <2>2. \A d \in drain'.judged : d.record \in Inbox!RecordsOf(drain.work)'
    BY <1>4 DEF InboxInv, JudgedInv, SameWork, Inbox!RecordsOf
  <2>3. drain'.step # "project"
    BY <1>4 DEF Written
  <2> QED
    BY <1>1, <1>5, <2>1, <2>2, <2>3 DEF InboxInv, JudgedInv
<1>10. LedgerInv'
  <2>1. \A r \in raw : r \in Record /\ home[r] \in Batch /\ Present(home[r])
    BY <1>3, GivenCame DEF InboxInv, LedgerInv
  <2>2. ASSUME NEW r \in raw, state'[home[r]] = "pending"
        PROVE  home[r] \in orphaned \cup drain'.work
    <3>1. state[home[r]] = "pending"
      BY <1>1, <2>1, <2>2
    <3>2. home[r] \in orphaned \/ home[r] \in drain.work
      BY <2>1, <3>1 DEF InboxInv, LedgerInv
    <3> QED
      BY <1>4, <2>2, <3>2 DEF SameWork
  <2> QED
    BY <1>1, <1>2, <1>3, <2>1, <2>2 DEF InboxInv, LedgerInv
<1>11. OneEach'
  <2>1. \A r \in Record : Excused(r)' <=> Excused(r)
    BY <1>1 DEF Excused
  <2>2. \A q, r : Inbox!Before(q, r)' <=> Inbox!Before(q, r)
    BY <1>1 DEF Inbox!Before, Inbox!Sooner
  <2>3. ASSUME NEW p \in Given, NEW r \in Record, Inbox!SameEvent(p, r), Inbox!Before(r, p), Present(home[r])
        PROVE  state'[home[r]] \in {"failed", "processed"} \/ Excused(r)
    <3>1. state[home[r]] \in {"failed", "processed"} \/ Excused(r)
      BY <2>3 DEF InboxInv, OneEach
    <3> QED
      BY <1>1, <1>3, <3>1 DEF Inbox!Open
  <2>4. Given \subseteq Record
    BY <1>3
  <2> QED
    BY <1>2, <1>3, <1>5, <1>6, <2>1, <2>2, <2>3, <2>4 DEF InboxInv, OneEach, Inbox!SameEvent
<1>12. KnownInv'
  <2>1. \A r : Known(r)' <=> Known(r)
    BY <1>1 DEF Known, Inbox!SameEvent
  <2>2. drain'.step # "project"
    BY <1>4 DEF Written
  <2> QED
    BY <1>1, <2>1, <2>2 DEF InboxInv, KnownInv
<1>13. FairInv'
  <2>1. \A r \in Inbox!RecordsOf(drain.work) : r \in Record /\ Present(home[r])
    BY DEF InboxInv, DrainInv, Inbox!RecordsOf
  <2>2. \A r \in Record : Present(home[r]) /\ Spoilt(r, Given) => Spoilt(r, Given)'
    BY <1>6, <1>7, SpoiltStays
  <2>3. CASE drain'.work = {}
    BY <2>3 DEF FairInv, Inbox!RecordsOf
  <2>4. CASE SameWork
    <3>1. Inbox!RecordsOf(drain.work)' = Inbox!RecordsOf(drain.work)
            /\ Inbox!Unique(drain.judged)' = Inbox!Unique(drain.judged)
      BY <2>4 DEF SameWork, Inbox!RecordsOf, Inbox!Unique, Inbox!Accepted
    <3> QED
      BY <2>1, <2>2, <3>1 DEF InboxInv, FairInv
  <2> QED
    BY <1>4, <2>3, <2>4
<1>14. PairInv'
  <2>1. \A r, q \in Record : Pair(r, q, Given)' => Pair(r, q, Given)
    BY <1>3, <1>6, <1>7, PairWas DEF Pair
  <2>2. CASE drain'.judged = {}
    BY <2>2 DEF PairInv, Inbox!Unique
  <2>3. CASE SameWork
    BY <1>5, <2>1, <2>3 DEF InboxInv, PairInv, SameWork
  <2> QED
    BY <1>4, <2>2, <2>3
<1> QED
  BY <1>3, <1>5, <1>6, <1>7, <1>8, <1>9, <1>10, <1>11, <1>12, <1>13, <1>14

\* What a written drain may rely on.
LEMMA WhenWritten ==
  ASSUME Inbox!InboxAssumption, InboxInv, Written
  PROVE  /\ Given = Inbox!Admitted /\ drain \in Drains
         /\ \A r \in Inbox!Admitted : r \in Record /\ r \in raw /\ home[r] \in Batch
              /\ Present(home[r])
         /\ \A a \in drain.found :
              /\ a.install \in Record /\ a.reason \in Inbox!Reason /\ a.reason # None
              /\ IsValid(a) => a.click \in Record /\ a.click \in ClicksIn(a.install, Inbox!Admitted)
                               /\ fact[a.click].good
         /\ Inbox!Unique(drain.judged) \subseteq Inbox!Admitted
         /\ \A b \in drain.work : b \in Batch
<1>1. drain \in Drains /\ drain.found \subseteq Outcome /\ drain.work \subseteq Batch
  BY DEF InboxInv, InboxTypes, Drains
<1>2. Given = Inbox!Admitted /\ \A r \in Inbox!Admitted : r \in Record /\ r \in raw
        /\ Present(home[r])
  BY GivenCame
<1>3. \A a \in drain.found : a.install \in Record /\ a.reason \in Inbox!Reason /\ a.reason # None
  BY <1>1 DEF Outcome, Inbox!InboxAssumption
<1>4. \A a \in drain.found : IsValid(a) =>
        a.click \in ClicksIn(a.install, Inbox!Admitted) /\ fact[a.click].good
  BY <1>2 DEF InboxInv, FoundInv
<1> QED
  BY <1>1, <1>2, <1>3, <1>4 DEF Given, ClicksIn, Inbox!InboxAssumption

\* The first results.
LEMMA PersistAttributionKeeps ==
  ASSUME Inbox!InboxAssumption, InboxInv, NEW a, Inbox!PersistAttribution(a)
  PROVE  InboxInv'
<1>1. /\ drain.step = "attribute" /\ a \in drain.todo /\ Inbox!Proceed(a)
      /\ result' = IF result[a.install] = None
               THEN [result EXCEPT ![a.install] = a.reason] ELSE result
      /\ UNCHANGED <<arrival, state, retries, blocked, raw, canonical, erased, deliveries,
                 late, queued, throws, orphaned, overtaken>>
  BY DEF Inbox!PersistAttribution
<1>2. Written
  BY <1>1 DEF Written
<1>3. a \in drain.found /\ drain.todo \subseteq drain.found
  BY <1>1 DEF InboxInv, DrainInv
<1>4. /\ a.install \in Record /\ a.reason \in Inbox!Reason /\ a.reason # None
      /\ IsValid(a) => a.click \in ClicksIn(a.install, Inbox!Admitted) /\ fact[a.click].good
      /\ result \in [Record -> Inbox!Reason \cup {None}]
  BY <1>2, <1>3, WhenWritten DEF InboxInv, InboxTypes, Inbox!TypeOK
<1>5. /\ result' \in [Record -> Inbox!Reason \cup {None}] /\ result'[a.install] # None
      /\ \A r \in Record : result[r] # None => result'[r] = result[r]
      /\ \A r \in Record : r # a.install => result'[r] = result[r]
      /\ result'[a.install] \in {result[a.install], a.reason}
  BY <1>1, <1>4
<1>6. \/ Left(a) /\ drain'.step = "attribute"
      \/ drain.todo = {a} /\ Turned("attribute", "receipt", drain.work)
  BY <1>1, ProceedIs DEF InboxInv, InboxTypes, Left, Entered, Turned
<1>7. SameWork /\ Written'
  BY <1>6 DEF Left, Turned, Entered, SameWork, Written
<1>8. LaterStep
  BY <1>1, <1>2, <1>7 DEF LaterStep, InboxInv, InboxTypes, Inbox!TypeOK
<1>9. /\ Onward /\ Inbox!Admitted' = Inbox!Admitted /\ Given' = Given /\ Given = Inbox!Admitted
      /\ Inbox!Unique(drain.judged)' \subseteq Inbox!Unique(drain.judged)
      /\ Dated' /\ JudgedInv' /\ LedgerInv' /\ OneEach' /\ KnownInv' /\ FairInv' /\ PairInv'
  BY <1>8, LaterKeeps
<1>10. InboxTypes'
  BY <1>1, <1>5, <1>7 DEF InboxInv, InboxTypes, Inbox!TypeOK, SameWork, Inbox!Event
<1>11. DrainInv'
  <2>1. /\ \A b \in drain.work : Present(b) /\ b \notin blocked /\ Inbox!Open(b)
        /\ \A b \in drain.work : state[b] \in {"pending", "retry"} => b \in drain.fresh
        /\ drain.fresh \subseteq drain.work
    BY <1>1 DEF InboxInv, DrainInv
  <2>2. (\A b : Present(b)' <=> Present(b)) /\ (\A b : Inbox!Open(b)' <=> Inbox!Open(b))
    BY <1>1 DEF Present, Inbox!Open
  <2>3. CASE Left(a)
    BY <1>1, <1>3, <2>1, <2>2, <2>3 DEF Left, Entered, DrainInv
  <2>4. CASE Turned("attribute", "receipt", drain.work)
    BY <1>1, <2>1, <2>2, <2>4 DEF Turned, Entered, DrainInv
  <2> QED
    BY <1>6, <2>3, <2>4
<1>12. DoneInv'
  <2>1. \A r \in Record : Present(home[r]) /\ Spoilt(r, Inbox!Admitted) =>
          Spoilt(r, Inbox!Admitted)'
    BY <1>9, SpoiltStays
  <2>2. \A r \in Record : state[home[r]] \in {"post", "processed"} => Present(home[r])
    BY DEF Present
  <2> QED
    BY <1>1, <1>2, <1>5, <1>9, <2>1, <2>2, WhenWritten DEF InboxInv, DoneInv, IsInstall
<1>13. \A r \in Record : Inbox!Valid(r) => Inbox!Valid(r)'
  BY <1>1, <1>5 DEF Inbox!Valid, Inbox!InboxAssumption, Inbox!Reason
<1>14. FoundInv'
  <2>1. drain'.judged = drain.judged /\ drain'.found = drain.found
    BY <1>7 DEF SameWork
  <2>2. \A c \in drain.found : c.install \in Record /\ (c \in drain.todo
          \/ result[c.install] # None)
    BY <1>1, <1>2, WhenWritten DEF InboxInv, FoundInv
  <2>3. drain'.asked = drain.asked
    BY <1>6 DEF Left, Turned, Entered
  <2>4. CASE Left(a) /\ drain'.step = "attribute"
    BY <1>1, <1>5, <1>9, <2>1, <2>2, <2>3, <2>4
    DEF InboxInv, FoundInv, Left, Entered, ClicksIn, IsInstall, IsValid
  <2>5. CASE drain.todo = {a} /\ Turned("attribute", "receipt", drain.work)
    BY <1>1, <1>5, <1>9, <2>1, <2>2, <2>3, <2>5
    DEF InboxInv, FoundInv, Turned, Entered, ClicksIn, IsInstall, IsValid
  <2> QED
    BY <1>6, <2>4, <2>5
<1>15. ValidInv'
  <2>1. ASSUME NEW r \in Record, Inbox!Valid(r)'
        PROVE  \E q \in ClicksIn(r, Inbox!Admitted) : fact[q].good
    <3>1. CASE Inbox!Valid(r)
      BY <3>1 DEF InboxInv, ValidInv
    <3>2. CASE ~Inbox!Valid(r)
      <4>1. r = a.install /\ IsValid(a)
        BY <1>1, <1>5, <2>1, <3>2 DEF Inbox!Valid, IsValid
      <4> QED
        BY <1>4, <4>1
    <3> QED
      BY <3>1, <3>2
  <2>2. \A r, q \in Record : Pair(r, q, Inbox!Admitted)' => Pair(r, q, Inbox!Admitted)
    BY <1>9, PairWas, GivenCame DEF Pair
  <2> QED
    BY <1>1, <1>9, <1>13, <2>1, <2>2 DEF InboxInv, ValidInv, ClicksIn
<1> QED
  BY <1>9, <1>10, <1>11, <1>12, <1>14, <1>15 DEF InboxInv

\* The results that replace them.
LEMMA PersistLateAttributionKeeps ==
  ASSUME Inbox!InboxAssumption, InboxInv, NEW a, Inbox!PersistLateAttribution(a)
  PROVE  InboxInv'
<1>1. /\ drain.step = "late" /\ a \in drain.todo /\ Inbox!Proceed(a)
      /\ late' = IF result[a.install] \notin {None, a.reason} /\ IsValid(a)
                 THEN late \cup {<<a.install, a.click>>} ELSE late
      /\ UNCHANGED <<arrival, state, retries, blocked, raw, canonical, erased, deliveries,
                 result, queued, throws, orphaned, overtaken>>
  BY DEF Inbox!PersistLateAttribution, IsValid
<1>2. Written
  BY <1>1 DEF Written
<1>3. a \in drain.found /\ drain.todo \subseteq drain.found
  BY <1>1 DEF InboxInv, DrainInv
<1>4. /\ a.install \in Record /\ result[a.install] # None
      /\ IsValid(a) => a.click \in Record /\ a.click \in ClicksIn(a.install, Inbox!Admitted)
                       /\ fact[a.click].good
  BY <1>1, <1>2, <1>3, WhenWritten DEF InboxInv, FoundInv
<1>5. \/ Left(a) /\ drain'.step = "late"
      \/ drain.todo = {a} /\ Turned("late", "queue", drain.work)
  BY <1>1, ProceedIs DEF InboxInv, InboxTypes, Left, Entered, Turned
<1>6. SameWork /\ Written'
  BY <1>5 DEF Left, Turned, Entered, SameWork, Written
<1>7. LaterStep
  BY <1>1, <1>2, <1>6 DEF LaterStep, InboxInv, InboxTypes, Inbox!TypeOK
<1>8. /\ Onward /\ Inbox!Admitted' = Inbox!Admitted /\ Given' = Given /\ Given = Inbox!Admitted
      /\ Inbox!Unique(drain.judged)' \subseteq Inbox!Unique(drain.judged)
      /\ Dated' /\ JudgedInv' /\ LedgerInv' /\ OneEach' /\ KnownInv' /\ FairInv' /\ PairInv'
  BY <1>7, LaterKeeps
<1>9. InboxTypes'
  <2>1. late' \subseteq Record \X Record
    BY <1>1, <1>4 DEF InboxInv, InboxTypes, Inbox!TypeOK
  <2> QED
    BY <1>1, <1>6, <2>1 DEF InboxInv, InboxTypes, Inbox!TypeOK, SameWork, Inbox!Event
<1>10. DrainInv'
  <2>1. /\ \A b \in drain.work : Present(b) /\ b \notin blocked
             /\ state[b] \in {"post", "processed"}
        /\ \A b \in drain.work : state[b] \in {"pending", "retry"} => b \in drain.fresh
        /\ drain.fresh \subseteq drain.work
    BY <1>1 DEF InboxInv, DrainInv
  <2>2. \A b : Present(b)' <=> Present(b)
    BY <1>1 DEF Present
  <2>3. CASE Left(a)
    BY <1>1, <1>3, <2>1, <2>2, <2>3 DEF Left, Entered, DrainInv
  <2>4. CASE Turned("late", "queue", drain.work)
    BY <1>1, <2>1, <2>2, <2>4 DEF Turned, Entered, DrainInv
  <2> QED
    BY <1>5, <2>3, <2>4
<1>11. DoneInv'
  <2>1. \A r \in Record : Present(home[r]) /\ Spoilt(r, Inbox!Admitted) =>
          Spoilt(r, Inbox!Admitted)'
    BY <1>8, SpoiltStays
  <2>2. \A r \in Record : state[home[r]] \in {"post", "processed"} => Present(home[r])
    BY DEF Present
  <2> QED
    BY <1>1, <1>2, <1>8, <2>1, <2>2, WhenWritten DEF InboxInv, DoneInv, IsInstall
<1>12. \A r \in Record : Inbox!Valid(r) => Inbox!Valid(r)'
  BY <1>1 DEF Inbox!Valid
<1>13. IsValid(a) => Inbox!Valid(a.install)'
  <2>1. CASE result[a.install] = a.reason
    BY <1>1, <2>1 DEF Inbox!Valid, IsValid
  <2>2. CASE result[a.install] # a.reason
    BY <1>1, <1>4, <2>2 DEF Inbox!Valid
  <2> QED
    BY <2>1, <2>2
<1>14. FoundInv'
  <2>1. drain'.judged = drain.judged /\ drain'.found = drain.found
    BY <1>6 DEF SameWork
  <2>2. \A c \in drain.found : c.install \in Record /\ result[c.install] # None
                               /\ (IsValid(c) => c \in drain.todo \/ Inbox!Valid(c.install))
    BY <1>1, <1>2, WhenWritten DEF InboxInv, FoundInv
  <2>3. drain'.asked = drain.asked
    BY <1>5 DEF Left, Turned, Entered
  <2>4. CASE Left(a) /\ drain'.step = "late"
    BY <1>1, <1>8, <1>12, <1>13, <2>1, <2>2, <2>3, <2>4
    DEF InboxInv, FoundInv, Left, Entered, ClicksIn, IsInstall, IsValid
  <2>5. CASE drain.todo = {a} /\ Turned("late", "queue", drain.work)
    BY <1>1, <1>8, <1>12, <1>13, <2>1, <2>2, <2>3, <2>5
    DEF InboxInv, FoundInv, Turned, Entered, ClicksIn, IsInstall, IsValid
  <2> QED
    BY <1>5, <2>4, <2>5
<1>15. ValidInv'
  <2>1. ASSUME NEW r \in Record, Inbox!Valid(r)'
        PROVE  \E q \in ClicksIn(r, Inbox!Admitted) : fact[q].good
    <3>1. CASE Inbox!Valid(r)
      BY <3>1 DEF InboxInv, ValidInv
    <3>2. CASE ~Inbox!Valid(r)
      <4>1. r = a.install /\ IsValid(a)
        BY <1>1, <2>1, <3>2 DEF Inbox!Valid
      <4> QED
        BY <1>4, <4>1
    <3> QED
      BY <3>1, <3>2
  <2>2. \A r, q \in Record : Pair(r, q, Inbox!Admitted)' => Pair(r, q, Inbox!Admitted)
    BY <1>8, PairWas, GivenCame DEF Pair
  <2> QED
    BY <1>1, <1>8, <1>12, <2>1, <2>2 DEF InboxInv, ValidInv, ClicksIn
<1> QED
  BY <1>8, <1>9, <1>10, <1>11, <1>14, <1>15 DEF InboxInv

\* The queue of the lookups.
LEMMA QueueLookupKeeps ==
  ASSUME Inbox!InboxAssumption, InboxInv, NEW b, NEW r, Inbox!QueueLookup(b, r)
  PROVE  InboxInv'
<1>1. /\ drain.step = "queue" /\ r \in Inbox!Unique(drain.judged)
      /\ queued' = queued \cup {r}
      /\ drain' = [drain EXCEPT !.asked = @ \cup {r}]
      /\ UNCHANGED <<arrival, state, retries, blocked, raw, canonical, erased, deliveries,
                     result, late, throws, orphaned, overtaken>>
  BY DEF Inbox!QueueLookup, Inbox!Lookups
<1>2. Written
  BY <1>1 DEF Written
<1>3. r \in Record /\ r \in raw /\ drain \in Drains
  BY <1>1, <1>2, WhenWritten
<1>4. /\ SameWork /\ drain'.step = "queue" /\ drain'.todo = drain.todo
      /\ drain'.asked = drain.asked \cup {r}
  BY <1>1, <1>3 DEF SameWork, Drains
<1>5. LaterStep
  BY <1>1, <1>2, <1>4 DEF LaterStep, Written, InboxInv, InboxTypes, Inbox!TypeOK
<1>6. /\ Onward /\ Inbox!Admitted' = Inbox!Admitted /\ Given' = Given /\ Given = Inbox!Admitted
      /\ Inbox!Unique(drain.judged)' \subseteq Inbox!Unique(drain.judged)
      /\ Dated' /\ JudgedInv' /\ LedgerInv' /\ OneEach' /\ KnownInv' /\ FairInv' /\ PairInv'
  BY <1>5, LaterKeeps
<1>7. InboxTypes'
  BY <1>1, <1>3, <1>4 DEF InboxInv, InboxTypes, Inbox!TypeOK, SameWork, Inbox!Event
<1>8. DrainInv'
  BY <1>1, <1>4 DEF InboxInv, DrainInv, SameWork, Present
<1>9. DoneInv'
  <2>1. \A x \in Record : Present(home[x]) /\ Spoilt(x, Inbox!Admitted) =>
          Spoilt(x, Inbox!Admitted)'
    BY <1>6, SpoiltStays
  <2>2. \A x \in Record : state[home[x]] \in {"post", "processed"} => Present(home[x])
    BY DEF Present
  <2> QED
    BY <1>1, <1>2, <1>6, <2>1, <2>2, WhenWritten DEF InboxInv, DoneInv, IsInstall
<1>10. \A x : Inbox!Valid(x)' <=> Inbox!Valid(x)
  BY <1>1 DEF Inbox!Valid
<1>11. FoundInv'
  BY <1>1, <1>4, <1>6, <1>10 DEF InboxInv, FoundInv, SameWork, ClicksIn, IsInstall, IsValid
<1>12. ValidInv'
  <2>1. \A x, q \in Record : Pair(x, q, Inbox!Admitted)' => Pair(x, q, Inbox!Admitted)
    BY <1>6, PairWas, GivenCame DEF Pair
  <2> QED
    BY <1>1, <1>6, <1>10, <2>1 DEF InboxInv, ValidInv, ClicksIn
<1> QED
  BY <1>6, <1>7, <1>8, <1>9, <1>11, <1>12 DEF InboxInv

\* A batch whose records are complete.
LEMMA ReceiptKeeps ==
  ASSUME Inbox!InboxAssumption, InboxInv, NEW b, Inbox!Receipt(b)
  PROVE  InboxInv'
<1>1. /\ drain.step = "receipt" /\ b \in drain.todo /\ Inbox!Proceed(b)
      /\ state' = [state EXCEPT ![b] = "post"]
      /\ UNCHANGED <<arrival, retries, blocked, raw, canonical, erased, deliveries, result,
                     late, queued, throws, orphaned, overtaken>>
  BY DEF Inbox!Receipt, Inbox!Turn, Inbox!ledger
<1>2. Written
  BY <1>1 DEF Written
<1>3. /\ \A c \in drain.work : Present(c) /\ c \notin blocked /\ c \in Batch
      /\ drain.todo \subseteq drain.work /\ b \in Batch
      /\ \A c \in drain.work : IF c \in drain.todo THEN Inbox!Open(c) ELSE state[c] = "post"
      /\ \A c \in drain.work : state[c] \in {"pending", "retry"} => c \in drain.fresh
      /\ drain.fresh \subseteq drain.work
  BY <1>1, <1>2, WhenWritten DEF InboxInv, DrainInv
<1>4. /\ state \in [Batch -> {"absent", "pending", "retry", "failed", "post", "processed"}]
      /\ state' \in [Batch -> {"absent", "pending", "retry", "failed", "post", "processed"}]
      /\ state'[b] = "post" /\ \A c \in Batch : c # b => state'[c] = state[c]
  BY <1>1, <1>3 DEF InboxInv, InboxTypes, Inbox!TypeOK
<1>5. \/ Left(b) /\ drain'.step = "receipt"
      \/ drain.todo = {b} /\ Turned("receipt", "late", drain.found)
      \/ drain.todo = {b} /\ Turned("receipt", "queue", drain.work) /\ drain.found = {}
  BY <1>1, ProceedIs DEF InboxInv, InboxTypes, Left, Entered, Turned
<1>6. SameWork /\ Written' /\ drain'.asked = drain.asked
  BY <1>5 DEF Left, Turned, Entered, SameWork, Written
<1>7. LaterStep
  BY <1>1, <1>2, <1>3, <1>4, <1>6 DEF LaterStep
<1>8. /\ Onward /\ Inbox!Admitted' = Inbox!Admitted /\ Given' = Given /\ Given = Inbox!Admitted
      /\ Inbox!Unique(drain.judged)' \subseteq Inbox!Unique(drain.judged)
      /\ Dated' /\ JudgedInv' /\ LedgerInv' /\ OneEach' /\ KnownInv' /\ FairInv' /\ PairInv'
  BY <1>7, LaterKeeps
<1>9. InboxTypes'
  BY <1>1, <1>4, <1>6 DEF InboxInv, InboxTypes, Inbox!TypeOK, SameWork, Inbox!Event
<1>10. DrainInv'
  <2>1. \A c \in drain.work : Present(c)' /\ (c # b =>
          state'[c] = state[c] /\ (Inbox!Open(c)' <=> Inbox!Open(c)))
    BY <1>3, <1>4 DEF Present, Inbox!Open
  <2>2. CASE Left(b)
    BY <1>1, <1>3, <1>4, <2>1, <2>2 DEF Left, Entered, DrainInv
  <2>3. CASE drain.todo = {b} /\ Turned("receipt", "late", drain.found)
    BY <1>1, <1>3, <1>4, <2>1, <2>3 DEF Turned, Entered, DrainInv
  <2>4. CASE drain.todo = {b} /\ Turned("receipt", "queue", drain.work)
    BY <1>1, <1>3, <1>4, <2>1, <2>4 DEF Turned, Entered, DrainInv
  <2> QED
    BY <1>5, <2>2, <2>3, <2>4
<1>11. DoneInv'
  <2>1. \A r \in Record : Present(home[r]) /\ Spoilt(r, Inbox!Admitted) =>
          Spoilt(r, Inbox!Admitted)'
    BY <1>8, SpoiltStays
  <2>2. \A r \in Record : state[home[r]] \in {"post", "processed"} => Present(home[r])
    BY DEF Present
  <2>3. ASSUME NEW r \in Record, home[r] = b
        PROVE  Spoilt(r, Inbox!Admitted)' \/ (r \in Inbox!Admitted /\ (IsInstall(r) =>
                 result[r] # None))
    <3>1. r \in Inbox!RecordsOf(drain.work) /\ Present(home[r])
      BY <1>1, <1>3, <2>3 DEF Inbox!RecordsOf
    <3>2. CASE r \in Inbox!Unique(drain.judged)
      BY <1>1, <1>2, <3>2, WhenWritten DEF InboxInv, FoundInv
    <3>3. CASE Spoilt(r, Given)
      BY <1>8, <2>1, <3>1, <3>3 DEF Spoilt
    <3> QED
      BY <3>1, <3>2, <3>3 DEF InboxInv, FairInv
  <2>4. \A r \in Record : home[r] \in Batch
    BY DEF Inbox!InboxAssumption
  <2> QED
    BY <1>1, <1>2, <1>4, <1>8, <2>1, <2>2, <2>3, <2>4, WhenWritten
    DEF InboxInv, DoneInv, IsInstall
<1>12. \A r : Inbox!Valid(r)' <=> Inbox!Valid(r)
  BY <1>1 DEF Inbox!Valid
<1>13. FoundInv'
  <2>1. drain'.judged = drain.judged /\ drain'.found = drain.found
    BY <1>6 DEF SameWork
  <2>2. \A c \in drain.found : result[c.install] # None
    BY <1>1 DEF InboxInv, FoundInv
  <2>3. CASE Left(b) /\ drain'.step = "receipt"
    BY <1>1, <1>6, <1>8, <2>1, <2>2, <2>3
    DEF InboxInv, FoundInv, ClicksIn, IsInstall, IsValid
  <2>4. CASE Turned("receipt", "late", drain.found)
    BY <1>1, <1>6, <1>8, <2>1, <2>2, <2>4
    DEF InboxInv, FoundInv, Turned, Entered, ClicksIn, IsInstall, IsValid
  <2>5. CASE Turned("receipt", "queue", drain.work) /\ drain.found = {}
    BY <1>1, <1>6, <1>8, <2>1, <2>2, <2>5
    DEF InboxInv, FoundInv, Turned, Entered, ClicksIn, IsInstall, IsValid
  <2> QED
    BY <1>5, <2>3, <2>4, <2>5
<1>14. ValidInv'
  <2>1. \A r, q \in Record : Pair(r, q, Inbox!Admitted)' => Pair(r, q, Inbox!Admitted)
    BY <1>8, PairWas, GivenCame DEF Pair
  <2>2. \A r \in Record : state'[home[r]] = "processed" => state[home[r]] = "processed"
    BY <1>4 DEF Inbox!InboxAssumption
  <2> QED
    BY <1>1, <1>8, <1>12, <2>1, <2>2 DEF InboxInv, ValidInv, ClicksIn
<1> QED
  BY <1>8, <1>9, <1>10, <1>11, <1>13, <1>14 DEF InboxInv

\* The end of a batch: its records are spoilt, or have all they need.
LEMMA FinishKeeps ==
  ASSUME Inbox!InboxAssumption, InboxInv, NEW b, Inbox!Finish(b)
  PROVE  InboxInv'
<1>1. /\ drain.step = "queue" /\ b \in drain.todo /\ Inbox!Proceed(b)
      /\ Inbox!Lookups(b, drain.judged) \subseteq drain.asked
      /\ state' = [state EXCEPT ![b] = "processed"]
      /\ UNCHANGED <<arrival, retries, blocked, raw, canonical, erased, deliveries, result,
                     late, queued, throws, orphaned, overtaken>>
  BY DEF Inbox!Finish, Inbox!Turn, Inbox!ledger
<1>2. Written
  BY <1>1 DEF Written
<1>3. /\ \A c \in drain.work : Present(c) /\ c \notin blocked /\ c \in Batch
      /\ drain.todo \subseteq drain.work /\ b \in Batch
      /\ \A c \in drain.work : state[c] \in {"post", "processed"}
      /\ drain.fresh \subseteq drain.work
  BY <1>1, <1>2, WhenWritten DEF InboxInv, DrainInv
<1>4. /\ state \in [Batch -> {"absent", "pending", "retry", "failed", "post", "processed"}]
      /\ state' \in [Batch -> {"absent", "pending", "retry", "failed", "post", "processed"}]
      /\ state'[b] = "processed" /\ \A c \in Batch : c # b => state'[c] = state[c]
  BY <1>1, <1>3 DEF InboxInv, InboxTypes, Inbox!TypeOK
<1>5. Left(b) \/ drain' = Inbox!Idle
  BY <1>1, ProceedIs DEF InboxInv, InboxTypes, Turned
<1>6. \/ SameWork /\ drain'.step = "queue" /\ drain'.todo = drain.todo \ {b}
         /\ drain'.asked = drain.asked
      \/ drain' = Inbox!Idle /\ IdleIs(drain')
  BY <1>1, <1>5, AtRest DEF Left, Entered, SameWork
<1>7. LaterStep
  BY <1>1, <1>2, <1>3, <1>4, <1>6 DEF LaterStep, Written
<1>8. /\ Onward /\ Inbox!Admitted' = Inbox!Admitted /\ Given' = Given /\ Given = Inbox!Admitted
      /\ Inbox!Unique(drain.judged)' \subseteq Inbox!Unique(drain.judged)
      /\ Dated' /\ JudgedInv' /\ LedgerInv' /\ OneEach' /\ KnownInv' /\ FairInv' /\ PairInv'
  BY <1>7, LaterKeeps
<1>9. InboxTypes'
  BY <1>1, <1>4, <1>6 DEF InboxInv, InboxTypes, Inbox!TypeOK, SameWork, IdleIs, Inbox!Event
<1>10. DrainInv'
  <2>1. \A c \in drain.work : Present(c)' /\ state'[c] \in {"post", "processed"}
    BY <1>3, <1>4 DEF Present
  <2>2. CASE SameWork /\ drain'.step = "queue" /\ drain'.todo = drain.todo \ {b}
    BY <1>1, <1>3, <2>1, <2>2 DEF SameWork, DrainInv
  <2>3. CASE drain' = Inbox!Idle /\ IdleIs(drain')
    BY <2>3 DEF IdleIs, DrainInv
  <2> QED
    BY <1>6, <2>2, <2>3
<1>11. \A r \in Record : home[r] = b =>
         r \in Inbox!Unique(drain.judged) \/ Spoilt(r, Inbox!Admitted)
  BY <1>1, <1>3, <1>8 DEF InboxInv, FairInv, Inbox!RecordsOf, Spoilt
<1>12. DoneInv'
  <2>1. \A r \in Record : Present(home[r]) /\ Spoilt(r, Inbox!Admitted) =>
          Spoilt(r, Inbox!Admitted)'
    BY <1>8, SpoiltStays
  <2>2. \A r \in Record : state[home[r]] \in {"post", "processed"} => Present(home[r])
    BY DEF Present
  <2>3. ASSUME NEW r \in Record, home[r] = b
        PROVE  \/ Spoilt(r, Inbox!Admitted)'
               \/ (fact[r].lookup => r \in queued) /\ (IsInstall(r) => result[r] # None)
    <3>1. Present(home[r])
      BY <1>1, <1>3, <2>3
    <3>2. CASE r \in Inbox!Unique(drain.judged)
      <4>1. fact[r].lookup => r \in queued
        BY <1>1, <2>3, <3>2 DEF Inbox!Lookups, InboxInv, FoundInv
      <4> QED
        BY <1>1, <3>2, <4>1 DEF InboxInv, FoundInv
    <3>3. CASE Spoilt(r, Inbox!Admitted)
      BY <2>1, <3>1, <3>3
    <3> QED
      BY <1>11, <2>3, <3>2, <3>3
  <2>4. \A r \in Record : home[r] \in Batch
    BY DEF Inbox!InboxAssumption
  <2> QED
    BY <1>1, <1>2, <1>4, <1>8, <2>1, <2>2, <2>3, <2>4, WhenWritten
    DEF InboxInv, DoneInv, IsInstall
<1>13. \A r : Inbox!Valid(r)' <=> Inbox!Valid(r)
  BY <1>1 DEF Inbox!Valid
<1>14. FoundInv'
  <2>1. CASE SameWork /\ drain'.step = "queue" /\ drain'.asked = drain.asked
    BY <1>1, <1>8, <1>13, <2>1
    DEF InboxInv, FoundInv, SameWork, ClicksIn, IsInstall, IsValid
  <2>2. CASE IdleIs(drain')
    BY <2>2 DEF IdleIs, FoundInv, Inbox!Unique
  <2> QED
    BY <1>6, <2>1, <2>2
<1>15. ValidInv'
  <2>1. \A r, q \in Record : Pair(r, q, Inbox!Admitted)' => Pair(r, q, Inbox!Admitted)
    BY <1>8, PairWas, GivenCame DEF Pair
  <2>2. ASSUME NEW r \in Record, NEW q \in Record, Pair(r, q, Inbox!Admitted),
               state'[home[r]] = "processed", state'[home[q]] = "processed"
        PROVE  Inbox!Valid(r)
    <3>1. CASE home[r] # b /\ home[q] # b
      BY <1>4, <2>2, <3>1 DEF InboxInv, ValidInv, Inbox!InboxAssumption
    <3>2. CASE home[r] = b \/ home[q] = b
      <4>1. r \in Inbox!Unique(drain.judged) \/ q \in Inbox!Unique(drain.judged)
        BY <1>11, <2>2, <3>2 DEF Pair
      <4>2. Attributed(r, q) \in drain.found
        BY <1>8, <2>2, <4>1 DEF InboxInv, PairInv
      <4>3. IsValid(Attributed(r, q)) /\ Attributed(r, q).install = r
        BY DEF Attributed, IsValid
      <4> QED
        BY <1>1, <4>2, <4>3 DEF InboxInv, FoundInv
    <3> QED
      BY <3>1, <3>2
  <2> QED
    BY <1>1, <1>8, <1>13, <2>1, <2>2 DEF InboxInv, ValidInv, ClicksIn
<1> QED
  BY <1>8, <1>9, <1>10, <1>12, <1>14, <1>15 DEF InboxInv

\* The transaction of one record: it makes good what the drain decided for it.
LEMMA ProjectKeeps ==
  ASSUME Inbox!InboxAssumption, InboxInv, NEW d \in drain.judged, Inbox!Project(d)
  PROVE  InboxInv'
<1> DEFINE rec == d.record
           e == fact[rec].event
           kept == Inbox!Accepted(d) \/ Conflict(d)
<1>1. /\ drain.step = "project" /\ rec \in drain.todo /\ Inbox!Proceed(rec)
      /\ \A q \in drain.todo : q = rec \/ Inbox!Before(rec, q)
      /\ deliveries' = deliveries \cup {d}
      /\ raw' = IF kept THEN raw \cup {rec} ELSE raw
      /\ canonical' = IF Inbox!Accepted(d) /\ canonical[e] = None
                      THEN [canonical EXCEPT ![e] = rec] ELSE canonical
      /\ UNCHANGED <<arrival, state, retries, blocked, erased, result, late, queued,
                     throws, orphaned, overtaken>>
  BY DEF Inbox!Project, Conflict
<1>2. /\ rec \in Record /\ home[rec] \in Batch /\ home[rec] \in drain.work /\ e \in Inbox!Event
      /\ d \in Delivery /\ drain \in Drains
      /\ canonical \in [Inbox!Event -> raw \cup {None}] /\ raw \subseteq Record
           /\ None \notin Record
  <2>1. d \in Delivery /\ drain \in Drains
    BY DEF InboxInv, InboxTypes, Drains
  <2>2. rec \in Inbox!RecordsOf(drain.work)
    BY DEF InboxInv, JudgedInv
  <2> QED
    BY <2>1, <2>2
    DEF Inbox!RecordsOf, Inbox!InboxAssumption, Inbox!Event, InboxInv, InboxTypes, Inbox!TypeOK
<1>3. \A c \in drain.judged : c.record = rec => c = d
  BY DEF InboxInv, JudgedInv
<1>4. Inbox!Accepted(d) <=> rec \in Inbox!Unique(drain.judged)
  BY <1>3, UniqueHas
<1>5. Inbox!Accepted(d) => ~fact[rec].refused
  BY DEF InboxInv, JudgedInv, Inbox!Accepted
<1>6. /\ \A c \in drain.work : Present(c) /\ c \notin blocked /\ Inbox!Open(c) /\ c \in Batch
      /\ drain.todo \subseteq Inbox!RecordsOf(drain.work)
      /\ \A c \in drain.work : state[c] \in {"pending", "retry"} => c \in drain.fresh
      /\ drain.fresh \subseteq drain.work
  BY <1>1, <1>2 DEF InboxInv, DrainInv, Drains
<1> HIDE DEF rec, e, kept
<1>7. \/ Left(rec) /\ drain'.step = "project" /\ drain'.todo = drain.todo \ {rec}
      \/ drain.todo = {rec} /\ Turned("project", "attribute", drain.found)
      \/ drain.todo = {rec} /\ Turned("project", "receipt", drain.work) /\ drain.found = {}
  BY <1>1, <1>2, ProceedIs DEF Left, Entered, Turned
<1>8. SameWork /\ drain'.asked = drain.asked
  BY <1>7 DEF Left, Turned, Entered, SameWork
<1>9. /\ Inbox!Unique(drain.judged)' = Inbox!Unique(drain.judged)
      /\ Inbox!RecordsOf(drain.work)' = Inbox!RecordsOf(drain.work)
      /\ drain'.judged = drain.judged /\ drain'.work = drain.work /\ drain'.found = drain.found
      /\ drain'.fresh = drain.fresh
  BY <1>8 DEF Inbox!Unique, Inbox!Accepted, Inbox!RecordsOf, SameWork
<1>10. Inbox!Admitted' = IF Inbox!Accepted(d) THEN Inbox!Admitted \cup {rec} ELSE Inbox!Admitted
  BY <1>1 DEF Inbox!Admitted, Inbox!Unique, Inbox!Accepted, rec
<1>11. Given' = Given
  BY <1>4, <1>9, <1>10 DEF Given
<1>12. Onward
  BY <1>1 DEF Onward, Present
<1>13. canonical' \in [Inbox!Event -> raw' \cup {None}] /\ raw \subseteq raw'
         /\ raw' \subseteq Record
  BY <1>1, <1>2 DEF kept
<1>14. /\ \A x \in Inbox!Event : canonical[x] # None => canonical'[x] = canonical[x]
       /\ \A x \in Inbox!Event : x # e => canonical'[x] = canonical[x]
       /\ canonical'[e] \in {canonical[e], rec} /\ (Inbox!Accepted(d) => canonical'[e] # None)
       /\ canonical'[e] = rec /\ canonical[e] = None => Inbox!Accepted(d)
  BY <1>1, <1>2
<1>15. /\ \A c : Present(c)' <=> Present(c)
       /\ \A c : Inbox!Open(c)' <=> Inbox!Open(c)
       /\ \A q, r : Inbox!Before(q, r)' <=> Inbox!Before(q, r)
       /\ \A r : Excused(r)' <=> Excused(r)
       /\ \A r : Inbox!Valid(r)' <=> Inbox!Valid(r)
  BY <1>1 DEF Present, Inbox!Open, Inbox!Before, Inbox!Sooner, Excused, Inbox!Valid
<1>16. InboxTypes'
  <2>1. deliveries' \subseteq Delivery
    BY <1>1, <1>2 DEF InboxInv, InboxTypes, Inbox!TypeOK, Delivery
  <2>2. erased' \subseteq raw' /\ queued' \subseteq raw'
    BY <1>1, <1>13 DEF InboxInv, InboxTypes, Inbox!TypeOK
  <2> QED
    BY <1>1, <1>8, <1>13, <2>1, <2>2
    DEF InboxInv, InboxTypes, Inbox!TypeOK, SameWork, Inbox!Event, Delivery
<1>17. Dated'
  BY <1>1, <1>15 DEF InboxInv, Dated
<1>18. DrainInv'
  <2>1. CASE Left(rec) /\ drain'.step = "project" /\ drain'.todo = drain.todo \ {rec}
    BY <1>1, <1>6, <1>9, <1>15, <2>1 DEF DrainInv
  <2>2. CASE Turned("project", "attribute", drain.found)
    BY <1>1, <1>6, <1>9, <1>15, <2>2 DEF Turned, Entered, DrainInv
  <2>3. CASE Turned("project", "receipt", drain.work)
    BY <1>1, <1>6, <1>9, <1>15, <2>3 DEF Turned, Entered, DrainInv
  <2> QED
    BY <1>7, <2>1, <2>2, <2>3
<1>19. JudgedInv'
  <2>1. \A c \in drain.judged : c.record \in drain.todo \ {rec} \/ c \in deliveries'
    BY <1>1, <1>3 DEF InboxInv, JudgedInv
  <2>2. drain'.step = "project" => drain'.todo = drain.todo \ {rec}
    BY <1>7 DEF Turned, Entered
  <2>3. drain'.step # "project" => drain.todo = {rec}
    BY <1>7
  <2> QED
    BY <1>9, <2>1, <2>2, <2>3 DEF InboxInv, JudgedInv, Written
<1>20. LedgerInv'
  <2>1. \A x \in Inbox!Event : canonical'[x] # None =>
          canonical'[x] \in Inbox!Admitted' /\ fact[canonical'[x]].event = x
    <3> SUFFICES ASSUME NEW x \in Inbox!Event, canonical'[x] # None
                 PROVE  canonical'[x] \in Inbox!Admitted' /\ fact[canonical'[x]].event = x
      OBVIOUS
    <3>1. CASE canonical[x] # None
      BY <1>10, <1>14, <3>1 DEF InboxInv, LedgerInv
    <3>2. CASE canonical[x] = None
      <4>1. x = e /\ canonical'[x] = rec /\ Inbox!Accepted(d)
        BY <1>14, <3>2
      <4> QED
        BY <1>10, <4>1 DEF e
    <3> QED
      BY <3>1, <3>2
  <2>2. \A r \in Inbox!Admitted' : r \in raw' /\ canonical'[fact[r].event] # None
          /\ ~fact[r].refused
    <3>1. \A r \in Inbox!Admitted : r \in Record /\ fact[r].event \in Inbox!Event
      BY GivenCame DEF Inbox!Event
    <3>2. \A r \in Inbox!Admitted : r \in raw' /\ canonical'[fact[r].event] # None
            /\ ~fact[r].refused
      BY <1>13, <1>14, <3>1 DEF InboxInv, LedgerInv
    <3>3. Inbox!Accepted(d) =>
            rec \in raw' /\ canonical'[fact[rec].event] # None /\ ~fact[rec].refused
      BY <1>1, <1>5, <1>14 DEF kept, e
    <3> QED
      BY <1>10, <3>2, <3>3
  <2>3. \A r \in raw' : r \in raw \/ r = rec
    BY <1>1
  <2>4. Present(home[rec]) /\ home[rec] \in drain'.work
    BY <1>2, <1>6, <1>9
  <2> QED
    BY <1>1, <1>9, <1>15, <2>1, <2>2, <2>3, <2>4 DEF InboxInv, LedgerInv
<1>21. OneEach'
  <2>1. Given \subseteq Record
    BY GivenCame
  <2> QED
    BY <1>1, <1>9, <1>11, <1>15, <2>1 DEF InboxInv, OneEach, Inbox!SameEvent
<1>22. KnownInv'
  <2>1. \A r \in Record : Known(r) => Known(r)'
    BY <1>14 DEF Known, Inbox!SameEvent, Inbox!Event
  <2>2. \A r \in Record : Inbox!SameEvent(rec, r) /\ Inbox!Accepted(d) => Known(r)'
    BY <1>14 DEF Known, Inbox!SameEvent, e
  <2>0. \A c \in drain.judged :
          c.record \in drain.todo /\ (c.accepted \/ Conflict(c)) => Known(c.record) \/ Heir(c)
    BY <1>1 DEF InboxInv, KnownInv
  <2>3. d.accepted \/ kept => Known(rec)'
    <3>1. ASSUME d.accepted \/ kept PROVE Known(rec) \/ Heir(d)
      <4>1. d.record \in drain.todo /\ (d.accepted \/ Conflict(d))
        BY <1>1, <3>1 DEF kept, rec, Inbox!Accepted
      <4> QED
        BY <2>0, <4>1 DEF rec
    <3>2. ASSUME Heir(d) PROVE Inbox!Accepted(d)
      <4>1. PICK u \in Inbox!Unique(drain.judged) \cap drain.todo : u = rec \/ Inbox!Before(u, rec)
        BY <3>2 DEF Heir, rec
      <4>2. u \in Record /\ (Inbox!Before(u, rec) => ~Inbox!Before(rec, u) /\ u # rec)
        BY <1>2, <1>6, <4>1, OneOrder DEF InboxInv, Inbox!RecordsOf
      <4>3. u = rec
        BY <1>1, <4>1, <4>2
      <4> QED
        BY <1>4, <4>1, <4>3
    <3> QED
      BY <1>2, <2>1, <2>2, <3>1, <3>2 DEF Inbox!SameEvent
  <2>4. ASSUME NEW c \in drain.judged, c.record \in drain.todo \ {rec}, drain'.step = "project", Heir(c)
        PROVE  Known(c.record)' \/ Heir(c)'
    <3>1. PICK u \in Inbox!Unique(drain.judged) \cap drain.todo :
            Inbox!SameEvent(u, c.record) /\ (u = c.record \/ Inbox!Before(u, c.record))
      BY <2>4 DEF Heir
    <3>2. c.record \in Record
      BY <1>6, <2>4 DEF Inbox!RecordsOf
    <3>3. CASE u = rec
      BY <1>4, <2>2, <3>1, <3>2, <3>3
    <3>4. CASE u # rec
      <4>1. u \in drain'.todo
        BY <1>7, <2>4, <3>1, <3>4 DEF Turned, Entered
      <4> QED
        BY <1>9, <1>15, <3>1, <4>1 DEF Heir, Inbox!SameEvent
    <3> QED
      BY <3>3, <3>4
  <2>5. \A r \in raw' : Known(r)'
    BY <1>1, <1>2, <2>1, <2>3 DEF InboxInv, KnownInv
  <2>6. \A c \in deliveries' : c.accepted => Known(c.record)'
    <3>1. \A c \in deliveries : c.record \in Record
      BY DEF InboxInv, InboxTypes, Inbox!TypeOK
    <3> QED
      BY <1>1, <2>1, <2>3, <3>1 DEF InboxInv, KnownInv, rec
  <2>7. drain'.step = "project" => drain'.todo = drain.todo \ {rec}
    BY <1>7 DEF Turned, Entered
  <2>8. ASSUME drain'.step = "project", NEW c \in drain.judged, c.record \in drain.todo \ {rec},
               c.accepted \/ Conflict(c)
        PROVE  Known(c.record)' \/ Heir(c)'
    <3>1. Known(c.record) \/ Heir(c)
      BY <2>0, <2>8
    <3>2. c.record \in Record
      BY <1>6, <2>8 DEF Inbox!RecordsOf
    <3> QED
      BY <2>1, <2>4, <2>8, <3>1, <3>2
  <2> QED
    BY <1>9, <2>5, <2>6, <2>7, <2>8 DEF KnownInv, Conflict
<1>23. FairInv' /\ DoneInv'
  <2>1. /\ \A r \in Record : Present(home[r]) /\ Spoilt(r, Inbox!Admitted) =>
             Spoilt(r, Inbox!Admitted)'
        /\ \A r \in Record : Present(home[r]) /\ Spoilt(r, Given) => Spoilt(r, Given)'
    BY <1>11, <1>12, SpoiltStays
  <2>2. \A r \in Record : state[home[r]] \in {"post", "processed"} => Present(home[r])
    BY DEF Present
  <2>3. \A r \in Inbox!RecordsOf(drain.work) : r \in Record /\ Present(home[r])
    BY <1>6 DEF Inbox!RecordsOf
  <2>4. FairInv'
    BY <1>9, <2>1, <2>3 DEF InboxInv, FairInv
  <2>5. \A r \in Inbox!Admitted' : state[home[r]] = "processed" => r \in Inbox!Admitted
    BY <1>2, <1>6, <1>10 DEF Inbox!Open
  <2>6. Inbox!Admitted \subseteq Inbox!Admitted' /\ \A r \in Inbox!Admitted : r \in Record
    BY <1>10, GivenCame
  <2>7. DoneInv'
    BY <1>1, <2>1, <2>2, <2>5, <2>6 DEF InboxInv, DoneInv, IsInstall
  <2> QED
    BY <2>4, <2>7
<1>24. FoundInv'
  <2>1. CASE drain'.step = "project"
    BY <1>1, <1>8, <1>9, <1>11, <2>1 DEF InboxInv, FoundInv, ClicksIn, IsInstall, IsValid
  <2>2. CASE Turned("project", "attribute", drain.found)
    BY <1>1, <1>8, <1>9, <1>11, <2>2
    DEF InboxInv, FoundInv, ClicksIn, IsInstall, IsValid, Turned, Entered
  <2>3. CASE Turned("project", "receipt", drain.work) /\ drain.found = {}
    BY <1>1, <1>8, <1>9, <1>11, <2>3
    DEF InboxInv, FoundInv, ClicksIn, IsInstall, IsValid, Turned, Entered
  <2> QED
    BY <1>7, <2>1, <2>2, <2>3
<1>25. PairInv' /\ ValidInv'
  <2>1. \A r, q \in Record : /\ Pair(r, q, Given)' => Pair(r, q, Given)
                             /\ r \in Inbox!Admitted /\ q \in Inbox!Admitted
                                  /\ Pair(r, q, Inbox!Admitted)' => Pair(r, q, Inbox!Admitted)
    BY <1>11, <1>12, PairWas, GivenCame DEF Pair
  <2>2. \A r \in Inbox!Admitted' : state[home[r]] = "processed" => r \in Inbox!Admitted
    BY <1>2, <1>6, <1>10 DEF Inbox!Open
  <2>3. \A r, q \in Record :
          Pair(r, q, Inbox!Admitted)' /\ state'[home[r]] = "processed"
            /\ state'[home[q]] = "processed"
          => Pair(r, q, Inbox!Admitted)
    BY <1>1, <2>1, <2>2 DEF Pair
  <2>4. \A r : ClicksIn(r, Inbox!Admitted) \subseteq ClicksIn(r, Inbox!Admitted)'
    BY <1>10 DEF ClicksIn
  <2>5. PairInv'
    BY <1>9, <2>1 DEF InboxInv, PairInv
  <2>6. ValidInv'
    BY <1>1, <1>15, <2>3, <2>4 DEF InboxInv, ValidInv
  <2> QED
    BY <2>5, <2>6
<1> QED
  BY <1>16, <1>17, <1>18, <1>19, <1>20, <1>21, <1>22, <1>23, <1>24, <1>25 DEF InboxInv

-----------------------------------------------------------------------------
(* The steps that leave no drain behind.                                       *)

\* What such a step may change: batches fail, return, or end by a deletion.
RestStep ==
  /\ UNCHANGED <<arrival, raw, canonical, deliveries, result, late, queued, overtaken>>
  /\ drain' = Inbox!Idle /\ InboxTypes' /\ Onward
  /\ \A b \in Batch :
       /\ Present(b)' => Present(b)
       /\ state'[b] = "pending" => state[b] = "pending" /\ b \in orphaned' \cup (Batch \ drain.work)
       /\ state'[b] = "post" => state[b] = "post"
       /\ state'[b] = "processed" => state[b] = "processed" \/ b \in blocked
       /\ state[b] \in {"failed", "processed"} =>
            state'[b] \in {"failed", "processed"} \/ retries'[b] > 0
  /\ \A r \in erased' : home[r] \in blocked'

\* It leaves no decision behind, so what holds of the ledger is all there is.
LEMMA RestKeeps ==
  ASSUME Inbox!InboxAssumption, InboxInv, RestStep
  PROVE  InboxInv'
<1>1. /\ UNCHANGED <<arrival, raw, canonical, deliveries, result, late, queued, overtaken>>
      /\ drain' = Inbox!Idle /\ InboxTypes' /\ Onward /\ IdleIs(drain')
  BY AtRest DEF RestStep
<1>2. /\ Inbox!Admitted' = Inbox!Admitted /\ Inbox!Unique(drain.judged)' = {}
           /\ Inbox!RecordsOf(drain.work)' = {}
      /\ Given' = Inbox!Admitted
  BY <1>1 DEF Inbox!Admitted, Inbox!Unique, Inbox!Accepted, Inbox!RecordsOf, IdleIs, Given
<1>3. /\ \A r \in Record : home[r] \in Batch
      /\ \A r \in Inbox!Admitted : r \in Record /\ r \in raw /\ r \in Given
      /\ \A r \in raw : r \in Record
  BY GivenCame DEF Inbox!InboxAssumption
<1>4. Dated'
  BY <1>1 DEF InboxInv, Dated, Onward, RestStep
<1>5. DrainInv' /\ JudgedInv' /\ FoundInv'
  BY <1>1, <1>2 DEF IdleIs, DrainInv, JudgedInv, FoundInv, Written
<1>6. LedgerInv'
  <2>1. \A r \in raw : Present(home[r])'
    BY <1>1, <1>3 DEF InboxInv, LedgerInv, Onward
  <2>2. ASSUME NEW r \in raw, state'[home[r]] = "pending" PROVE home[r] \in orphaned'
    <3>1. state[home[r]] = "pending" /\ home[r] \in orphaned' \cup (Batch \ drain.work)
      BY <1>3, <2>2 DEF RestStep
    <3>2. home[r] \in orphaned \cup drain.work
      BY <3>1 DEF InboxInv, LedgerInv
    <3> QED
      BY <1>1, <3>1, <3>2 DEF Onward
  <2> QED
    BY <1>1, <1>2, <2>1, <2>2 DEF InboxInv, LedgerInv, RestStep
<1>7. OneEach'
  <2>1. \A r \in Record : Excused(r) => Excused(r)'
    BY <1>1, Kept
  <2>2. \A q, r : Inbox!Before(q, r)' <=> Inbox!Before(q, r)
    BY <1>1 DEF Inbox!Before, Inbox!Sooner
  <2>3. ASSUME NEW p \in Inbox!Admitted, NEW r \in Record,
               Inbox!SameEvent(p, r), Inbox!Before(r, p), Present(home[r])'
        PROVE  state'[home[r]] \in {"failed", "processed"} \/ Excused(r)'
    <3>1. Present(home[r])
      BY <1>3, <2>3 DEF RestStep
    <3>2. state[home[r]] \in {"failed", "processed"} \/ Excused(r)
      BY <1>3, <2>3, <3>1 DEF InboxInv, OneEach
    <3> QED
      BY <1>3, <2>1, <3>2 DEF RestStep, Excused
  <2>4. \A p, r \in Inbox!Admitted : Inbox!SameEvent(p, r) => p = r \/ Excused(p)' \/ Excused(r)'
    BY <1>3, <2>1 DEF InboxInv, OneEach
  <2> QED
    BY <1>2, <2>2, <2>3, <2>4 DEF OneEach, Inbox!SameEvent
<1>8. KnownInv'
  <2>1. \A r : Known(r)' <=> Known(r)
    BY <1>1 DEF Known, Inbox!SameEvent
  <2> QED
    BY <1>1, <2>1 DEF InboxInv, KnownInv, IdleIs
<1>9. FairInv' /\ DoneInv'
  <2>1. \A r \in Record : Present(home[r]) /\ Spoilt(r, Inbox!Admitted) =>
          Spoilt(r, Inbox!Admitted)'
    BY <1>1, SpoiltStays
  <2>2. \A r \in Record : state[home[r]] \in {"post", "processed"} => Present(home[r])
    BY DEF Present
  <2>3. \A r \in Record :
          /\ state'[home[r]] = "post" => state[home[r]] = "post"
          /\ state'[home[r]] = "processed" => state[home[r]] = "processed" \/ home[r] \in blocked'
    BY <1>1, <1>3 DEF RestStep, Onward
  <2>4. blocked \subseteq blocked'
    BY <1>1 DEF Onward
  <2> QED
    BY <1>1, <1>2, <1>3, <2>1, <2>2, <2>3, <2>4 DEF InboxInv, FairInv, DoneInv, IsInstall
<1>10. PairInv' /\ ValidInv'
  <2>1. \A r : Inbox!Valid(r)' <=> Inbox!Valid(r)
    BY <1>1 DEF Inbox!Valid
  <2>2. \A r, q \in Record : Pair(r, q, Inbox!Admitted)' => Pair(r, q, Inbox!Admitted)
    BY <1>1, <1>2, PairWas, GivenCame DEF Pair
  <2>3. \A r \in Record : state'[home[r]] = "processed" =>
          state[home[r]] = "processed" \/ home[r] \in blocked
    BY <1>3 DEF RestStep
  <2>4. \A r, q \in Record :
          Pair(r, q, Inbox!Admitted)' /\ state'[home[r]] = "processed"
            /\ state'[home[q]] = "processed"
          => Pair(r, q, Inbox!Admitted) /\ state[home[r]] = "processed"
            /\ state[home[q]] = "processed"
    BY <2>2, <2>3 DEF Pair
  <2> QED
    BY <1>1, <1>2, <2>1, <2>4 DEF InboxInv, PairInv, ValidInv, ClicksIn
<1> QED
  BY <1>1, <1>4, <1>5, <1>6, <1>7, <1>8, <1>9, <1>10 DEF InboxInv

\* A drain that throws or dies.
LEMMA AbortKeeps == ASSUME Inbox!InboxAssumption, InboxInv, Inbox!Abort PROVE InboxInv'
<1> DEFINE new == {b \in drain.fresh : state[b] \in {"pending", "retry"}}
<1>1. PICK marked \in SUBSET new :
        /\ state' = [b \in Batch |-> IF b \in marked THEN "failed" ELSE state[b]]
        /\ orphaned' = orphaned \cup {b \in new \ marked : state[b] = "pending"}
  BY DEF Inbox!Abort
<1>2. /\ drain' = Inbox!Idle /\ IdleIs(drain') /\ throws' = throws + 1
      /\ UNCHANGED <<arrival, retries, blocked, raw, canonical, erased, deliveries, result,
                     late, queued, overtaken>>
  BY AtRest DEF Inbox!Abort, Inbox!ledger
<1>3. /\ drain.fresh \subseteq Batch
      /\ state \in [Batch -> {"absent", "pending", "retry", "failed", "post", "processed"}]
      /\ \A b \in drain.work : state[b] \in {"pending", "retry"} => b \in drain.fresh
  BY DEF InboxInv, InboxTypes, Inbox!TypeOK, Drains, DrainInv
<1>4. /\ \A b \in marked : state[b] \in {"pending", "retry"} /\ state'[b] = "failed"
      /\ \A b \in Batch \ marked : state'[b] = state[b]
      /\ marked \subseteq Batch
  BY <1>1, <1>3
<1>5. orphaned \subseteq orphaned' /\ orphaned' \subseteq Batch
  BY <1>1, <1>3 DEF InboxInv, InboxTypes, Inbox!TypeOK
<1>6. state' \in [Batch -> {"absent", "pending", "retry", "failed", "post", "processed"}]
  BY <1>1, <1>3
<1>7. InboxTypes'
  BY <1>2, <1>5, <1>6 DEF InboxInv, InboxTypes, Inbox!TypeOK, Inbox!Event, IdleIs
<1>8. Onward
  BY <1>2, <1>4, <1>5 DEF Onward, Present
<1>9. \A b \in Batch : state'[b] = "pending" =>
        state[b] = "pending" /\ b \in orphaned' \cup (Batch \ drain.work)
  BY <1>1, <1>3, <1>4
<1>10. RestStep
  BY <1>2, <1>4, <1>7, <1>8, <1>9 DEF RestStep, InboxInv, LedgerInv, Present
<1> QED
  BY <1>10, RestKeeps

\* A batch that an operator returns excuses its records.
LEMMA RequestRecoveryKeeps ==
  ASSUME Inbox!InboxAssumption, InboxInv, NEW b \in Batch, Inbox!RequestRecovery(b)
  PROVE  InboxInv'
<1>1. /\ drain.step = "idle" /\ state[b] = "failed" /\ retries[b] < MaxRetries
      /\ state' = [state EXCEPT ![b] = "retry"]
      /\ retries' = [retries EXCEPT ![b] = retries[b] + 1]
      /\ UNCHANGED <<arrival, blocked, raw, canonical, erased, deliveries, result, late,
                     queued, drain, throws, orphaned, overtaken>>
  BY DEF Inbox!RequestRecovery, Inbox!ledger
<1>2. /\ state \in [Batch -> {"absent", "pending", "retry", "failed", "post", "processed"}]
      /\ retries \in [Batch -> 0..MaxRetries] /\ MaxRetries \in Nat
      /\ drain = Inbox!Idle /\ IdleIs(drain)
  BY <1>1, AtRest DEF InboxInv, InboxTypes, Inbox!TypeOK, DrainInv, Inbox!InboxAssumption
<1>3. /\ state'[b] = "retry" /\ retries'[b] > 0
      /\ \A c \in Batch : c # b => state'[c] = state[c] /\ retries'[c] = retries[c]
      /\ retries' \in [Batch -> 0..MaxRetries]
      /\ state' \in [Batch -> {"absent", "pending", "retry", "failed", "post", "processed"}]
  BY <1>1, <1>2
<1>4. InboxTypes'
  BY <1>1, <1>3 DEF InboxInv, InboxTypes, Inbox!TypeOK, Inbox!Event
<1>5. Onward
  BY <1>1, <1>3 DEF Onward, Present
<1>6. RestStep
  BY <1>1, <1>2, <1>3, <1>4, <1>5 DEF RestStep, InboxInv, LedgerInv, Present, IdleIs
<1> QED
  BY <1>6, RestKeeps

\* A deletion.
LEMMA ForgetKeeps ==
  ASSUME Inbox!InboxAssumption, InboxInv, NEW b \in Batch, Inbox!Forget(b)
  PROVE  InboxInv'
<1>1. /\ drain.step = "idle"
      /\ blocked' = blocked \cup {b} /\ erased' = erased \cup (Inbox!RecordsOf({b}) \cap raw)
      /\ UNCHANGED <<arrival, state, retries, raw, canonical, deliveries, result, late,
                     queued, drain, throws, orphaned, overtaken>>
  BY DEF Inbox!Forget
<1>2. drain = Inbox!Idle /\ IdleIs(drain)
  BY <1>1, AtRest DEF InboxInv, DrainInv
<1>3. InboxTypes'
  BY <1>1 DEF InboxInv, InboxTypes, Inbox!TypeOK, Inbox!Event
<1>4. Onward
  BY <1>1 DEF Onward, Present
<1>5. RestStep
  BY <1>1, <1>2, <1>3, <1>4 DEF RestStep, InboxInv, LedgerInv, Present, IdleIs, Inbox!RecordsOf
<1> QED
  BY <1>5, RestKeeps

-----------------------------------------------------------------------------
(* The choice of a drain's rows and what it decides for them.                  *)

\* The rows, and what the drain takes with it.
Chosen == Inbox!Rows \ (blocked \cup Unreadable)
Met == Inbox!History(Chosen)
Decided == Inbox!Judged(Chosen, Met)
ToGive == Inbox!Admitted \cup Inbox!Unique(Decided)

\* What the history has of the rows was orphaned, the rest of it owns its event.
LEMMA ChosenIs ==
  ASSUME Inbox!InboxAssumption, InboxInv, drain.step = "idle"
  PROVE  /\ Chosen \subseteq Batch /\ Met \subseteq Record
         /\ \A b \in Chosen : b \in Inbox!Rows /\ Inbox!Open(b) /\ Present(b) /\ b \notin blocked
         /\ \A r : r \in Inbox!RecordsOf(Chosen) <=> r \in Record /\ home[r] \in Chosen
         /\ \A r \in Met :
              /\ r \in raw /\ Present(home[r])
              /\ home[r] \in Chosen => home[r] \in orphaned
              /\ home[r] \notin Chosen => Inbox!Owns(r)
         /\ \A r \in raw, q \in Inbox!RecordsOf(Chosen) :
              Inbox!Owns(r) /\ Inbox!Related(q, r) => r \in Met \/ r \in Inbox!RecordsOf(Chosen)
         /\ \A r \in Record : Inbox!Owns(r) => r \in Inbox!Admitted
         /\ \A r \in Inbox!Admitted :
              /\ r \in raw /\ r \in Record /\ Present(home[r])
              /\ \E o \in Inbox!Admitted : Inbox!Owns(o) /\ Inbox!SameEvent(o, r)
         /\ drain = Inbox!Idle /\ Given = Inbox!Admitted /\ Dated
<1>1. drain = Inbox!Idle /\ IdleIs(drain) /\ Dated
  BY AtRest DEF InboxInv, DrainInv
<1>2. Given = Inbox!Admitted
  BY <1>1 DEF Given, Inbox!Unique, IdleIs
<1>3. /\ raw \subseteq Record /\ \A r \in raw : Present(home[r])
      /\ \A r \in raw : state[home[r]] = "pending" => home[r] \in orphaned
      /\ \A r \in Record : home[r] \in Batch /\ fact[r].event \in Inbox!Event /\ r # None
  BY <1>1
  DEF InboxInv, LedgerInv, InboxTypes, Inbox!TypeOK, IdleIs, Inbox!InboxAssumption, Inbox!Event
<1>4. \A b \in Chosen : b \in Batch /\ b \in Inbox!Rows /\ Inbox!Open(b) /\ Present(b)
        /\ b \notin blocked
  BY <1>1, RowsComeFirst DEF Chosen
<1>5. \A r : r \in Inbox!RecordsOf(Chosen) <=> r \in Record /\ home[r] \in Chosen
  BY DEF Inbox!RecordsOf
<1>6. \A r : r \in Met <=>
        /\ r \in raw /\ r \notin Inbox!RecordsOf(Inbox!Resumed(Chosen))
        /\ home[r] \in Chosen \/ (Inbox!Owns(r)
             /\ \E q \in Inbox!RecordsOf(Chosen) : Inbox!Related(q, r))
  BY DEF Met, Inbox!History
<1>7. \A r \in raw : r \notin Inbox!RecordsOf(Inbox!Resumed(Chosen)) /\ home[r] \in Chosen =>
        home[r] \in orphaned
  <2> SUFFICES ASSUME NEW r \in raw, r \notin Inbox!RecordsOf(Inbox!Resumed(Chosen)), home[r] \in Chosen
               PROVE  home[r] \in orphaned
    OBVIOUS
  <2>1. state[home[r]] \notin {"retry", "post"}
    BY <1>3 DEF Inbox!RecordsOf, Inbox!Resumed
  <2>2. state[home[r]] = "pending"
    BY <1>4, <2>1 DEF Inbox!Open
  <2> QED
    BY <1>3, <2>2
<1>8. \A r : r \in Inbox!RecordsOf(Inbox!Resumed(Chosen)) => r \in Inbox!RecordsOf(Chosen)
  BY DEF Inbox!RecordsOf, Inbox!Resumed
<1>9. \A r \in Record : Inbox!Owns(r) => r \in Inbox!Admitted
  BY <1>3 DEF Inbox!Owns, InboxInv, LedgerInv
<1>10. ASSUME NEW r \in Inbox!Admitted
       PROVE  \E o \in Inbox!Admitted : Inbox!Owns(o) /\ Inbox!SameEvent(o, r)
  <2>1. r \in Record /\ canonical[fact[r].event] # None
    BY GivenCame DEF InboxInv, LedgerInv
  <2>2. /\ canonical[fact[r].event] \in Inbox!Admitted
        /\ fact[canonical[fact[r].event]].event = fact[r].event
    BY <1>3, <2>1 DEF InboxInv, LedgerInv
  <2> QED
    BY <2>2 DEF Inbox!Owns, Inbox!SameEvent
<1>11. \A r \in Inbox!Admitted : r \in raw /\ r \in Record /\ Present(home[r])
  BY <1>2, GivenCame
<1> QED
  BY <1>1, <1>2, <1>3, <1>4, <1>5, <1>6, <1>7, <1>8, <1>9, <1>10, <1>11

\* Who gets an event, and before whom.
LEMMA DecidedIs ==
  ASSUME Inbox!InboxAssumption, InboxInv, drain.step = "idle"
  PROVE  /\ Decided \in SUBSET Delivery
         /\ \A d \in Decided : d.record \in Inbox!RecordsOf(Chosen)
         /\ \A d, e \in Decided : d.record = e.record => d = e
         /\ \A d \in Decided : d.accepted => ~fact[d.record].refused
         /\ \A r \in Inbox!Unique(Decided) : r \in Inbox!RecordsOf(Chosen) /\ r \notin Met
              /\ ~fact[r].refused
         /\ \A r \in Inbox!Unique(Decided), q \in Met : ~Inbox!SameEvent(q, r)
         /\ \A r \in Inbox!Unique(Decided), q \in Inbox!RecordsOf(Chosen) :
              Inbox!SameEvent(q, r) => q = r \/ Inbox!Before(r, q)
         /\ \A r \in Inbox!RecordsOf(Chosen) :
              \/ \E q \in Met : Inbox!SameEvent(q, r)
              \/ \E q \in Inbox!RecordsOf(Chosen) :
                   /\ Inbox!SameEvent(q, r) /\ (q = r \/ Inbox!Before(q, r))
                   /\ fact[q].refused \/ q \in Inbox!Unique(Decided)
<1> DEFINE First(r) == Inbox!FirstOf(r, Chosen, Met)
<1>1. /\ Chosen \in SUBSET Batch /\ \A b \in Chosen : Present(b)
      /\ Met \in SUBSET Record /\ \A q \in Met : Present(home[q])
      /\ Dated
  BY ChosenIs
<1>2. /\ Decided \in SUBSET Delivery
      /\ \A d \in Decided : d.record \in Inbox!RecordsOf(Chosen)
      /\ \A d, e \in Decided : d.record = e.record => d = e
      /\ \A d \in Decided : d.accepted => ~fact[d.record].refused
      /\ \A r : r \in Inbox!Unique(Decided) <=>
           r \in Inbox!RecordsOf(Chosen) /\ r \notin Met /\ ~fact[r].refused /\ First(r) = r
  BY <1>1, JudgedIs DEF Decided
<1>3. \A r \in Inbox!RecordsOf(Chosen) :
        /\ First(r) \in Record /\ Inbox!SameEvent(First(r), r)
        /\ First(r) \in Met \/ Fellows(r, Met) = {}
        /\ Fellows(r, Met) = {} =>
             /\ First(r) \in Inbox!RecordsOf(Chosen)
             /\ \A q \in Fellows(r, Inbox!RecordsOf(Chosen)) : q = First(r)
                  \/ Inbox!Before(First(r), q)
        /\ \A q \in Inbox!RecordsOf(Chosen) : Inbox!SameEvent(q, r) => First(q) = First(r)
  BY <1>1, FirstIs
<1> HIDE DEF First
<1>4. ASSUME NEW r \in Inbox!Unique(Decided)
      PROVE  /\ \A q \in Met : ~Inbox!SameEvent(q, r)
             /\ \A q \in Inbox!RecordsOf(Chosen) : Inbox!SameEvent(q, r) =>
                  q = r \/ Inbox!Before(r, q)
  <2>1. r \in Inbox!RecordsOf(Chosen) /\ r \notin Met /\ First(r) = r
    BY <1>2
  <2>2. Fellows(r, Met) = {}
    BY <1>3, <2>1
  <2> QED
    BY <1>3, <2>1, <2>2 DEF Fellows
<1>5. ASSUME NEW r \in Inbox!RecordsOf(Chosen), \A q \in Met : ~Inbox!SameEvent(q, r)
      PROVE  \E q \in Inbox!RecordsOf(Chosen) :
               /\ Inbox!SameEvent(q, r) /\ (q = r \/ Inbox!Before(q, r))
               /\ fact[q].refused \/ q \in Inbox!Unique(Decided)
  <2>1. Fellows(r, Met) = {}
    BY <1>5 DEF Fellows
  <2>2. /\ First(r) \in Inbox!RecordsOf(Chosen) /\ Inbox!SameEvent(First(r), r)
        /\ First(r) = r \/ Inbox!Before(First(r), r)
        /\ First(First(r)) = First(r)
    BY <1>3, <2>1 DEF Fellows, Inbox!SameEvent
  <2>3. First(r) \notin Met
    BY <1>5, <2>2
  <2> QED
    BY <1>2, <2>2, <2>3
<1> QED
  BY <1>2, <1>4, <1>5

\* A record that is not chosen for its event is spoilt.
LEMMA ChoiceIsFair ==
  ASSUME Inbox!InboxAssumption, InboxInv, drain.step = "idle",
         NEW r \in Inbox!RecordsOf(Chosen), ~Spoilt(r, ToGive)
  PROVE  r \in Inbox!Unique(Decided)
<1>1. r \in Record /\ ~fact[r].refused
  BY DEF Spoilt, Inbox!RecordsOf
<1>2. ASSUME NEW q \in Met, Inbox!SameEvent(q, r) PROVE FALSE
  <2>1. q \in Record /\ home[q] \notin orphaned
    BY <1>2, ChosenIs DEF Spoilt, Rival
  <2>2. Inbox!Owns(q) /\ home[q] \notin Chosen
    BY <2>1, ChosenIs
  <2>3. q \in Inbox!Admitted /\ q # r
    BY <2>1, <2>2, ChosenIs
  <2> QED
    BY <1>2, <2>3 DEF Spoilt, ToGive
<1>3. PICK q \in Inbox!RecordsOf(Chosen) :
        /\ Inbox!SameEvent(q, r) /\ (q = r \/ Inbox!Before(q, r))
        /\ fact[q].refused \/ q \in Inbox!Unique(Decided)
  BY <1>2, DecidedIs
<1>4. q \in Record /\ Present(home[q])
  BY ChosenIs
<1>5. ~fact[q].refused
  BY <1>1, <1>3, <1>4 DEF Spoilt, Rival
<1>6. q = r
  BY <1>3, <1>5 DEF Spoilt, ToGive
<1> QED
  BY <1>3, <1>5, <1>6

\* Whoever gets a second record has an excuse.
LEMMA ChoiceIsOneEach ==
  ASSUME Inbox!InboxAssumption, InboxInv, drain.step = "idle"
  PROVE  /\ \A p, r \in ToGive : Inbox!SameEvent(p, r) => p = r \/ Excused(p) \/ Excused(r)
         /\ \A p, r \in Inbox!Unique(Decided) : Inbox!SameEvent(p, r) => p = r
<1>1. ASSUME NEW p \in Inbox!Unique(Decided), NEW r \in Inbox!Unique(Decided), Inbox!SameEvent(p, r)
      PROVE  p = r
  <2>1. /\ p \in Inbox!RecordsOf(Chosen) /\ r \in Inbox!RecordsOf(Chosen) /\ p \in Record
             /\ r \in Record
        /\ Inbox!SameEvent(r, p) /\ Dated
    BY <1>1, DecidedIs, ChosenIs DEF Inbox!SameEvent
  <2>2. (p = r \/ Inbox!Before(r, p)) /\ (p = r \/ Inbox!Before(p, r))
    BY <1>1, <2>1, DecidedIs
  <2> QED
    BY <2>1, <2>2, OneOrder
<1>2. ASSUME NEW p \in Inbox!Admitted, NEW r \in Inbox!Unique(Decided), Inbox!SameEvent(p, r), p # r
      PROVE  Excused(p) \/ Excused(r)
  <2>1. /\ p \in Record /\ p \in raw /\ p \in Given /\ Present(home[p]) /\ Dated
        /\ r \in Record /\ r \in Inbox!RecordsOf(Chosen) /\ Inbox!Open(home[r]) /\ Present(home[r])
    BY DecidedIs, ChosenIs
  <2>2. ASSUME NEW o \in Inbox!Admitted, Inbox!SameEvent(o, r), Inbox!Before(r, o) PROVE Excused(r)
    <3>1. o \in Given
      BY DEF Given
    <3>2. state[home[r]] \in {"failed", "processed"} \/ Excused(r)
      BY <2>1, <2>2, <3>1 DEF InboxInv, OneEach
    <3> QED
      BY <2>1, <3>2 DEF Inbox!Open
  <2>3. CASE Inbox!Before(r, p)
    BY <1>2, <2>2, <2>3
  <2>4. CASE Inbox!Before(p, r)
    <3>1. PICK o \in Inbox!Admitted : Inbox!Owns(o) /\ Inbox!SameEvent(o, p)
      BY ChosenIs
    <3>2. Inbox!SameEvent(o, r) /\ Inbox!Related(r, o) /\ o \in raw
      BY <1>2, <3>1, ChosenIs DEF Inbox!SameEvent, Inbox!Related
    <3>3. o \in Inbox!RecordsOf(Chosen)
      BY <2>1, <3>1, <3>2, ChosenIs, DecidedIs
    <3>4. o = r \/ Inbox!Before(r, o)
      BY <3>2, <3>3, DecidedIs
    <3>5. CASE o = r
      <4>1. r \in Given
        BY <3>5 DEF Given
      <4> QED
        BY <1>2, <2>1, <4>1 DEF InboxInv, OneEach
    <3> QED
      BY <2>2, <3>2, <3>4, <3>5
  <2> QED
    BY <1>2, <2>1, <2>3, <2>4, OneOrder
<1>3. \A p, r \in Inbox!Admitted : Inbox!SameEvent(p, r) => p = r \/ Excused(p) \/ Excused(r)
  BY ChosenIs DEF InboxInv, OneEach
<1>4. \A p, r \in ToGive : Inbox!SameEvent(p, r) => p = r \/ Excused(p) \/ Excused(r)
  BY <1>1, <1>2, <1>3 DEF ToGive, Inbox!SameEvent
<1> QED
  BY <1>1, <1>4

\* What a drain finds, and that it finds every pair it completes.
ToFind == Inbox!Attributions(Decided, Met)

\* A pair that is completed now is read from the ledger and from the rows.
LEMMA FoundIs ==
  ASSUME Inbox!InboxAssumption, InboxInv, drain.step = "idle"
  PROVE  /\ ToFind \in SUBSET Outcome
         /\ \A r \in Inbox!Unique(Decided) : IsInstall(r) => \E a \in ToFind : a.install = r
         /\ \A a \in ToFind : IsValid(a) =>
              a.click \in ClicksIn(a.install, ToGive) /\ fact[a.click].good
         /\ \A r, q \in Record :
              Pair(r, q, ToGive) /\ (r \in Inbox!Unique(Decided) \/ q \in Inbox!Unique(Decided))
              => Attributed(r, q) \in ToFind
<1> DEFINE readable == Readable(Decided, Met)
<1>1. Decided \in SUBSET Delivery /\ Met \in SUBSET Record
  BY DecidedIs, ChosenIs
<1>2. /\ ToFind \in SUBSET Outcome
      /\ \A a \in ToFind : IsValid(a) =>
           a.click \in ClicksIn(a.install, readable) /\ fact[a.click].good
      /\ \A r \in Inbox!Unique(Decided) : IsInstall(r) => \E a \in ToFind : a.install = r
      /\ \A r \in readable, q \in Record :
           /\ IsInstall(r) /\ ClicksIn(r, readable) = {q} /\ fact[q].good
           /\ r \in Inbox!Unique(Decided) \/ q \in Inbox!Unique(Decided)
           => Attributed(r, q) \in ToFind
  BY <1>1, AttributionsAre DEF ToFind, IsValid, IsInstall
<1>3. readable \subseteq ToGive
  BY <1>1, ChosenIs DEF Readable, ToGive, Inbox!Semantic
<1>4. ASSUME NEW r \in ToGive, ~Spoilt(r, ToGive), home[r] \notin blocked,
             NEW q \in Inbox!RecordsOf(Chosen), Inbox!Related(q, r)
      PROVE  r \in readable
  <2>1. CASE r \in Inbox!Unique(Decided)
    BY <2>1 DEF Readable
  <2>2. CASE r \notin Inbox!Unique(Decided)
    <3>1. r \in Inbox!Admitted /\ r \in raw /\ r \in Record
      BY <1>4, <2>2, ChosenIs DEF ToGive
    <3>2. PICK o \in Inbox!Admitted : Inbox!Owns(o) /\ Inbox!SameEvent(o, r)
      BY <3>1, ChosenIs
    <3>3. o = r
      BY <1>4, <3>2 DEF Spoilt, ToGive
    <3>4. r \notin Inbox!RecordsOf(Chosen)
      BY <1>4, <2>2, ChoiceIsFair
    <3>5. r \in Met
      BY <1>4, <3>1, <3>2, <3>3, <3>4, ChosenIs
    <3>6. r \notin erased
      BY <1>4 DEF InboxInv, LedgerInv
    <3> QED
      BY <3>2, <3>3, <3>5, <3>6 DEF Readable, Inbox!Semantic
  <2> QED
    BY <2>1, <2>2
<1>5. ASSUME NEW r \in Record, NEW q \in Record, Pair(r, q, ToGive),
             r \in Inbox!Unique(Decided) \/ q \in Inbox!Unique(Decided)
      PROVE  Attributed(r, q) \in ToFind
  <2>1. /\ r \in ToGive /\ q \in ToGive /\ home[r] \notin blocked /\ home[q] \notin blocked
        /\ ~Spoilt(r, ToGive) /\ ~Spoilt(q, ToGive)
        /\ IsInstall(r) /\ ClicksIn(r, ToGive) = {q} /\ fact[q].good
    BY <1>5 DEF Pair
  <2>2. fact[q].name = "click" /\ fact[q].click = fact[r].click
    BY <2>1 DEF ClicksIn
  <2>3. Inbox!Related(r, q) /\ Inbox!Related(q, r) /\ Inbox!Related(r, r) /\ Inbox!Related(q, q)
    BY <2>2 DEF Inbox!Related
  <2>4. \A x \in Inbox!Unique(Decided) : x \in Inbox!RecordsOf(Chosen)
    BY DecidedIs
  <2>5. r \in readable /\ q \in readable
    BY <1>4, <1>5, <2>1, <2>3, <2>4
  <2>6. ClicksIn(r, readable) = {q}
    BY <1>3, <2>1, <2>2, <2>5 DEF ClicksIn
  <2> QED
    BY <1>2, <1>5, <2>1, <2>5, <2>6
<1>6. \A a \in ToFind : IsValid(a) => a.click \in ClicksIn(a.install, ToGive) /\ fact[a.click].good
  BY <1>2, <1>3 DEF ClicksIn
<1> QED
  BY <1>2, <1>5, <1>6

\* What Select does.
LEMMA SelectIs ==
  ASSUME Inbox!InboxAssumption, InboxInv, Inbox!Select
  PROVE  /\ drain.step = "idle"
         /\ UNCHANGED <<arrival, retries, blocked, raw, canonical, erased, deliveries, result,
                        late, queued, throws, orphaned, overtaken>>
         /\ state' \in [Batch -> {"absent", "pending", "retry", "failed", "post", "processed"}]
         /\ \A b \in Batch :
              \/ b \notin Inbox!Rows \ Chosen /\ state'[b] = state[b]
              \/ b \in Inbox!Rows \ Chosen /\ b \in blocked /\ state'[b] = "processed"
              \/ b \in Inbox!Rows \ Chosen /\ state'[b] = "failed"
         /\ Chosen = {} => drain' = Inbox!Idle
         /\ Chosen # {} =>
              /\ drain' \in Drains /\ drain'.step = "project" /\ drain'.work = Chosen
              /\ drain'.fresh = {b \in Chosen : state[b] # "post"}
              /\ drain'.judged = Decided /\ drain'.found = ToFind
              /\ drain'.todo = Inbox!RecordsOf(Chosen) /\ drain'.asked = {}
<1> DEFINE fresh == {b \in Chosen : state[b] # "post"}
           begun == [Inbox!Idle EXCEPT
              !.work = Chosen, !.fresh = fresh, !.judged = Decided, !.found = ToFind]
<1>1. /\ drain.step = "idle"
      /\ UNCHANGED <<arrival, retries, blocked, raw, canonical, erased, deliveries, result,
                     late, queued, throws, orphaned, overtaken>>
      /\ state' = [b \in Batch |->
              IF b \notin Inbox!Rows \ Chosen THEN state[b]
              ELSE IF b \in blocked THEN "processed" ELSE "failed"]
      /\ drain' = IF Chosen = {} THEN Inbox!Idle ELSE Inbox!Begin(begun, "project")
  BY DEF Inbox!Select, Inbox!ledger, Chosen, Met, Decided, ToFind
<1>2. /\ Chosen \subseteq Batch /\ Decided \in SUBSET Delivery /\ ToFind \in SUBSET Outcome
      /\ fresh \subseteq Batch
  BY <1>1, ChosenIs, DecidedIs, FoundIs
<1> HIDE DEF fresh
<1>3. ASSUME NEW d \in Drains
      PROVE  LET e == [d EXCEPT !.work = Chosen, !.fresh = fresh, !.judged = Decided, !.found = ToFind]
             IN  /\ e \in Drains /\ e.work = Chosen /\ e.fresh = fresh
                 /\ e.judged = Decided /\ e.found = ToFind /\ e.asked = d.asked
  BY <1>2 DEF Drains
<1>4. /\ begun \in Drains /\ begun.work = Chosen /\ begun.fresh = fresh
      /\ begun.judged = Decided /\ begun.found = ToFind /\ begun.asked = {}
  BY <1>3, AtRest DEF IdleIs
<1> HIDE DEF begun
<1>5. Entered(begun, Inbox!Begin(begun, "project"), "project", Inbox!RecordsOf(begun.work))
  BY <1>4, BeginIs
<1>6. state' \in [Batch -> {"absent", "pending", "retry", "failed", "post", "processed"}]
  BY <1>1 DEF InboxInv, InboxTypes, Inbox!TypeOK
<1>7. \A b \in Batch :
              \/ b \notin Inbox!Rows \ Chosen /\ state'[b] = state[b]
              \/ b \in Inbox!Rows \ Chosen /\ b \in blocked /\ state'[b] = "processed"
              \/ b \in Inbox!Rows \ Chosen /\ state'[b] = "failed"
  BY <1>1
<1> QED
  BY <1>1, <1>4, <1>5, <1>6, <1>7 DEF Entered, fresh

\* The choice of the rows.
LEMMA SelectKeeps == ASSUME Inbox!InboxAssumption, InboxInv, Inbox!Select PROVE InboxInv'
<1>1. /\ drain.step = "idle"
      /\ UNCHANGED <<arrival, retries, blocked, raw, canonical, erased, deliveries, result,
                     late, queued, throws, orphaned, overtaken>>
      /\ state' \in [Batch -> {"absent", "pending", "retry", "failed", "post", "processed"}]
      /\ Chosen = {} => drain' = Inbox!Idle
      /\ Chosen # {} =>
           /\ drain' \in Drains /\ drain'.step = "project" /\ drain'.work = Chosen
           /\ drain'.fresh = {b \in Chosen : state[b] # "post"}
           /\ drain'.judged = Decided /\ drain'.found = ToFind
           /\ drain'.todo = Inbox!RecordsOf(Chosen) /\ drain'.asked = {}
  BY SelectIs
<1>2. \A b \in Batch :
        \/ b \notin Inbox!Rows \ Chosen /\ state'[b] = state[b]
        \/ b \in Inbox!Rows \ Chosen /\ b \in blocked /\ state'[b] = "processed"
        \/ b \in Inbox!Rows \ Chosen /\ state'[b] = "failed"
  BY SelectIs
<1>3. /\ Chosen \subseteq Batch /\ Met \subseteq Record
      /\ \A b \in Chosen : b \in Inbox!Rows /\ Inbox!Open(b) /\ Present(b) /\ b \notin blocked
      /\ drain = Inbox!Idle /\ IdleIs(drain) /\ Given = Inbox!Admitted /\ Dated
      /\ \A r \in Record : home[r] \in Batch
      /\ \A r \in Inbox!Admitted : r \in Record /\ Present(home[r])
  BY <1>1, ChosenIs, AtRest DEF Inbox!InboxAssumption
<1>4. \A b \in Inbox!Rows : b \in Batch /\ Inbox!Open(b) /\ Present(b)
  BY <1>3, RowsComeFirst
<1>5. \A b \in Batch :
        /\ Present(b)' <=> Present(b)
        /\ b \in Chosen => state'[b] = state[b]
        /\ state'[b] = state[b] \/ (Inbox!Open(b) /\ state'[b] \in {"failed", "processed"})
        /\ state'[b] = "processed" => state[b] = "processed" \/ b \in blocked
        /\ b \in Inbox!Rows \ Chosen => state'[b] \in {"failed", "processed"}
  BY <1>2, <1>4 DEF Present
<1>6. /\ Inbox!Admitted' = Inbox!Admitted
      /\ \A q, r : Inbox!Before(q, r)' <=> Inbox!Before(q, r)
      /\ \A r : Excused(r)' <=> Excused(r)
      /\ \A r : Known(r)' <=> Known(r)
      /\ \A r : Inbox!Valid(r)' <=> Inbox!Valid(r)
  BY <1>1
  DEF Inbox!Admitted, Inbox!Before, Inbox!Sooner, Excused, Known, Inbox!SameEvent, Inbox!Valid
<1>7. Onward
  BY <1>1, <1>5 DEF Onward
<1>8. InboxTypes'
  <2>1. drain' \in Drains
    BY <1>1, AtRest DEF IdleIs
  <2> QED
    BY <1>1, <2>1 DEF InboxInv, InboxTypes, Inbox!TypeOK, Inbox!Event
<1>9. CASE Chosen = {}
  <2>1. RestStep
    BY <1>1, <1>3, <1>5, <1>7, <1>8, <1>9 DEF RestStep, IdleIs, Inbox!Open, InboxInv, LedgerInv
  <2> QED
    BY <2>1, RestKeeps
<1>10. CASE Chosen # {}
  <2>1. /\ drain'.step = "project" /\ drain'.work = Chosen
        /\ drain'.fresh = {b \in Chosen : state[b] # "post"}
        /\ drain'.judged = Decided /\ drain'.found = ToFind
        /\ drain'.todo = Inbox!RecordsOf(Chosen) /\ drain'.asked = {}
    BY <1>1, <1>10
  <2>2. /\ Inbox!Unique(drain.judged)' = Inbox!Unique(Decided) /\ Given' = ToGive
        /\ Inbox!RecordsOf(drain.work)' = Inbox!RecordsOf(Chosen)
    BY <1>6, <2>1 DEF Inbox!Unique, Inbox!Accepted, Given, ToGive, Inbox!RecordsOf
  <2>3. \A r : r \in Inbox!RecordsOf(Chosen) <=> r \in Record /\ home[r] \in Chosen
    BY DEF Inbox!RecordsOf
  <2>4. /\ Decided \in SUBSET Delivery
        /\ \A d \in Decided : d.record \in Inbox!RecordsOf(Chosen)
        /\ \A d, e \in Decided : d.record = e.record => d = e
        /\ \A d \in Decided : d.accepted => ~fact[d.record].refused
        /\ \A r \in Inbox!Unique(Decided) : r \in Inbox!RecordsOf(Chosen) /\ r \in Record
             /\ Present(home[r])
    BY <1>1, <1>3, <2>3, DecidedIs
  <2>5. Dated'
    BY <1>1, <1>3, <1>5 DEF Dated
  <2>6. DrainInv'
    <3>1. \A b \in Chosen : Present(b)' /\ b \notin blocked' /\ Inbox!Open(b)'
      BY <1>1, <1>3, <1>5 DEF Inbox!Open
    <3> QED
      BY <1>3, <1>5, <2>1, <2>2, <3>1 DEF DrainInv, Inbox!Open
  <2>7. JudgedInv'
    BY <2>1, <2>2, <2>4 DEF JudgedInv, Written
  <2>8. LedgerInv'
    <3>1. \A r \in raw : r \in Record /\ home[r] \in Batch
      BY <1>3, GivenCame
    <3>2. \A r \in raw : state'[home[r]] = "pending" => home[r] \in orphaned
      BY <1>3, <1>5, <3>1 DEF InboxInv, LedgerInv, IdleIs
    <3> QED
      BY <1>1, <1>5, <1>6, <3>1, <3>2 DEF InboxInv, LedgerInv
  <2>9. OneEach'
    <3>1. ASSUME NEW p \in ToGive, NEW r \in Record, Inbox!SameEvent(p, r), Inbox!Before(r, p), Present(home[r])
          PROVE  state'[home[r]] \in {"failed", "processed"} \/ Excused(r)
      <4>1. CASE p \in Inbox!Admitted
        <5>1. state[home[r]] \in {"failed", "processed"} \/ Excused(r)
          BY <1>3, <3>1, <4>1 DEF InboxInv, OneEach
        <5> QED
          BY <1>3, <1>5, <5>1 DEF Inbox!Open
      <4>2. CASE p \in Inbox!Unique(Decided)
        <5>1. p \in Inbox!RecordsOf(Chosen) /\ home[p] \in Inbox!Rows /\ p \in Record
                /\ home[r] \in Batch
          BY <1>3, <2>3, <2>4, <4>2
        <5>2. CASE ~Inbox!Open(home[r])
          <6>1. state[home[r]] \in {"failed", "processed"}
            BY <3>1, <5>1, <5>2 DEF Inbox!Open, Present, InboxInv, InboxTypes, Inbox!TypeOK
          <6> QED
            BY <1>5, <5>1, <5>2, <6>1
        <5>3. CASE Inbox!Open(home[r])
          <6>1. home[r] \in Inbox!Rows
            BY <1>3, <3>1, <5>1, <5>3, RowsComeFirst DEF Inbox!Before
          <6>2. home[r] \notin Chosen
            <7>1. SUFFICES ASSUME home[r] \in Chosen PROVE FALSE
              OBVIOUS
            <7>2. r \in Inbox!RecordsOf(Chosen) /\ Inbox!SameEvent(r, p)
              BY <2>3, <3>1, <7>1 DEF Inbox!SameEvent
            <7>3. r = p \/ Inbox!Before(p, r)
              BY <1>1, <4>2, <7>2, DecidedIs
            <7> QED
              BY <1>3, <3>1, <5>1, <7>3, OneOrder
          <6> QED
            BY <1>5, <5>1, <6>1, <6>2
        <5> QED
          BY <5>2, <5>3
      <4> QED
        BY <3>1, <4>1, <4>2 DEF ToGive
    <3>2. /\ \A p, r \in ToGive : Inbox!SameEvent(p, r) => p = r \/ Excused(p) \/ Excused(r)
          /\ \A p, r \in Inbox!Unique(Decided) : Inbox!SameEvent(p, r) => p = r
      BY <1>1, ChoiceIsOneEach
    <3> QED
      BY <1>3, <1>5, <1>6, <2>2, <3>1, <3>2 DEF OneEach, Inbox!SameEvent
  <2>10. KnownInv'
    <3>1. ASSUME NEW d \in Decided PROVE Known(d.record) \/ Heir(d)'
      <4>1. d.record \in Inbox!RecordsOf(Chosen)
        BY <2>4
      <4>2. CASE \E q \in Met : Inbox!SameEvent(q, d.record)
        <5>1. PICK q \in Met : Inbox!SameEvent(q, d.record)
          BY <4>2
        <5>2. q \in raw
          BY <1>1, ChosenIs
        <5>3. Known(q)
          BY <5>2 DEF InboxInv, KnownInv
        <5> QED
          BY <5>1, <5>3 DEF Known, Inbox!SameEvent
      <4>3. CASE \E q \in Inbox!RecordsOf(Chosen) :
                   /\ Inbox!SameEvent(q, d.record) /\ (q = d.record \/ Inbox!Before(q, d.record))
                   /\ fact[q].refused \/ q \in Inbox!Unique(Decided)
        <5>1. PICK q \in Inbox!RecordsOf(Chosen) :
                   /\ Inbox!SameEvent(q, d.record) /\ (q = d.record \/ Inbox!Before(q, d.record))
                   /\ fact[q].refused \/ q \in Inbox!Unique(Decided)
          BY <4>3
        <5>2. CASE fact[q].refused
          BY <2>3, <5>1, <5>2 DEF Known
        <5>3. CASE q \in Inbox!Unique(Decided)
          BY <1>6, <2>1, <2>2, <5>1, <5>3 DEF Heir, Inbox!SameEvent
        <5> QED
          BY <5>1, <5>2, <5>3
      <4> QED
        BY <1>1, <4>1, <4>2, <4>3, DecidedIs
    <3> QED
      BY <1>1, <1>6, <2>1, <3>1 DEF InboxInv, KnownInv
  <2>11. FairInv'
    <3>1. \A r \in Inbox!RecordsOf(Chosen) : r \in Inbox!Unique(Decided) \/ Spoilt(r, ToGive)
      BY <1>1, ChoiceIsFair
    <3>2. \A r \in Record : Spoilt(r, ToGive) => Spoilt(r, Given)'
      BY <1>1, <1>3, <1>5, <1>6, <2>2 DEF Spoilt, Rival, Inbox!SameEvent
    <3> QED
      BY <2>2, <2>3, <3>1, <3>2 DEF FairInv
  <2>12. DoneInv'
    <3>1. \A r \in Record : Present(home[r]) /\ Spoilt(r, Inbox!Admitted) =>
            Spoilt(r, Inbox!Admitted)'
      BY <1>7, SpoiltStays
    <3>2. \A r \in Record : state[home[r]] \in {"post", "processed"} => Present(home[r])
      BY DEF Present
    <3>3. \A r \in Record :
            /\ state'[home[r]] = "post" => state[home[r]] = "post"
            /\ state'[home[r]] = "processed" => state[home[r]] = "processed" \/ home[r] \in blocked
      BY <1>3, <1>5
    <3> QED
      BY <1>1, <1>3, <1>6, <3>1, <3>2, <3>3 DEF InboxInv, DoneInv, IsInstall
  <2>13. FoundInv'
    <3>1. /\ \A r \in Inbox!Unique(Decided) : IsInstall(r) => \E a \in ToFind : a.install = r
          /\ \A a \in ToFind : IsValid(a) =>
               a.click \in ClicksIn(a.install, ToGive) /\ fact[a.click].good
      BY <1>1, FoundIs
    <3> QED
      BY <2>1, <2>2, <3>1 DEF FoundInv, IsInstall, IsValid, ClicksIn
  <2>14. PairInv'
    <3>1. \A r, q \in Record :
            Pair(r, q, ToGive) /\ (r \in Inbox!Unique(Decided) \/ q \in Inbox!Unique(Decided))
            => Attributed(r, q) \in ToFind
      BY <1>1, FoundIs
    <3>2. \A r \in Record : Spoilt(r, ToGive) => Spoilt(r, Given)'
      BY <1>1, <1>3, <1>5, <1>6, <2>2 DEF Spoilt, Rival, Inbox!SameEvent
    <3>3. \A r, q \in Record : Pair(r, q, Given)' => Pair(r, q, ToGive)
      BY <1>1, <2>2, <3>2 DEF Pair, ClicksIn, IsInstall
    <3> QED
      BY <2>1, <2>2, <3>1, <3>3 DEF PairInv, Attributed
  <2>15. ValidInv'
    <3>1. \A r, q \in Record : Pair(r, q, Inbox!Admitted)' => Pair(r, q, Inbox!Admitted)
      BY <1>6, <1>7, PairWas, GivenCame DEF Pair
    <3>2. \A r \in Record :
            state'[home[r]] = "processed" => state[home[r]] = "processed" \/ home[r] \in blocked
      BY <1>3, <1>5
    <3>3. \A r, q \in Record :
            Pair(r, q, Inbox!Admitted)' /\ state'[home[r]] = "processed"
              /\ state'[home[q]] = "processed"
            => Pair(r, q, Inbox!Admitted) /\ state[home[r]] = "processed"
              /\ state[home[q]] = "processed"
      BY <3>1, <3>2 DEF Pair
    <3> QED
      BY <1>6, <3>3 DEF InboxInv, ValidInv, ClicksIn
  <2> QED
    BY <1>8, <2>5, <2>6, <2>7, <2>8, <2>9, <2>10, <2>11, <2>12, <2>13, <2>14, <2>15 DEF InboxInv
<1> QED
  BY <1>9, <1>10

\* A step of others.
LEMMA StutterKeeps == ASSUME Inbox!InboxAssumption, InboxInv, UNCHANGED Inbox!vars PROVE InboxInv'
<1>1. UNCHANGED <<arrival, state, retries, blocked, raw, canonical, erased, deliveries,
                  result, late, queued, drain, throws, orphaned, overtaken>>
  BY DEF Inbox!vars
<1>2. /\ Inbox!Admitted' = Inbox!Admitted
           /\ Inbox!Unique(drain.judged)' = Inbox!Unique(drain.judged) /\ Given' = Given
      /\ Inbox!RecordsOf(drain.work)' = Inbox!RecordsOf(drain.work) /\ (Written' <=> Written)
  BY <1>1 DEF Inbox!Admitted, Inbox!Unique, Inbox!Accepted, Given, Inbox!RecordsOf, Written
<1>3. /\ \A b : Present(b)' <=> Present(b)
      /\ \A b : Inbox!Open(b)' <=> Inbox!Open(b)
      /\ \A q, r : Inbox!Before(q, r)' <=> Inbox!Before(q, r)
      /\ \A r : Excused(r)' <=> Excused(r)
      /\ \A r : Known(r)' <=> Known(r)
      /\ \A r : Inbox!Valid(r)' <=> Inbox!Valid(r)
      /\ \A r, q : Rival(r, q)' <=> Rival(r, q)
  BY <1>1
  DEF Present, Inbox!Open, Inbox!Before, Inbox!Sooner, Excused, Known, Inbox!Valid, Rival,
      Inbox!SameEvent
<1>4. /\ \A d : Heir(d)' <=> Heir(d)
      /\ \A r : (Spoilt(r, Inbox!Admitted)' <=> Spoilt(r, Inbox!Admitted))
           /\ (Spoilt(r, Given)' <=> Spoilt(r, Given))
  BY <1>1, <1>2, <1>3 DEF Heir, Spoilt, Inbox!SameEvent
<1>5. \A r, q : /\ Pair(r, q, Inbox!Admitted)' <=> Pair(r, q, Inbox!Admitted)
                /\ Pair(r, q, Given)' <=> Pair(r, q, Given)
  BY <1>1, <1>2, <1>4 DEF Pair, ClicksIn, IsInstall
<1>6. InboxTypes' /\ Dated'
  BY <1>1, <1>3 DEF InboxInv, InboxTypes, Inbox!TypeOK, Dated, Inbox!Event
<1>7. DrainInv' /\ JudgedInv'
  BY <1>1, <1>2, <1>3 DEF InboxInv, DrainInv, JudgedInv
<1>8. LedgerInv' /\ OneEach'
  BY <1>1, <1>2, <1>3 DEF InboxInv, LedgerInv, OneEach, Inbox!SameEvent
<1>9. KnownInv' /\ FairInv' /\ DoneInv'
  BY <1>1, <1>2, <1>3, <1>4 DEF InboxInv, KnownInv, Conflict, FairInv, DoneInv, IsInstall
<1>10. FoundInv' /\ PairInv' /\ ValidInv'
  BY <1>1, <1>2, <1>3, <1>5
  DEF InboxInv, FoundInv, PairInv, ValidInv, ClicksIn, IsInstall, IsValid, Attributed
<1> QED
  BY <1>6, <1>7, <1>8, <1>9, <1>10 DEF InboxInv

\* The invariant holds in every state of the inbox.
LEMMA InboxInvariance == ASSUME Inbox!InboxAssumption PROVE Inbox!Spec => []InboxInv
<1>1. Inbox!Init => InboxInv
  BY Initial
<1>2. InboxInv /\ [Inbox!Next]_(Inbox!vars) => InboxInv'
  <2> SUFFICES ASSUME InboxInv, [Inbox!Next]_(Inbox!vars) PROVE InboxInv'
    OBVIOUS
  <2>1. CASE Inbox!Select
    BY <2>1, SelectKeeps
  <2>2. ASSUME NEW d \in drain.judged, Inbox!Project(d) PROVE InboxInv'
    BY <2>2, ProjectKeeps
  <2>3. ASSUME NEW a \in drain.found, Inbox!PersistAttribution(a) \/ Inbox!PersistLateAttribution(a)
        PROVE  InboxInv'
    BY <2>3, PersistAttributionKeeps, PersistLateAttributionKeeps
  <2>4. ASSUME NEW b \in drain.work, Inbox!Receipt(b) \/ Inbox!Finish(b) PROVE InboxInv'
    BY <2>4, ReceiptKeeps, FinishKeeps
  <2>5. ASSUME NEW b \in drain.work, NEW r \in Record, Inbox!QueueLookup(b, r) PROVE InboxInv'
    BY <2>5, QueueLookupKeeps
  <2>6. CASE Inbox!Abort
    BY <2>6, AbortKeeps
  <2>7. ASSUME NEW b \in Batch, Inbox!RequestRecovery(b) \/ Inbox!Forget(b) PROVE InboxInv'
    BY <2>7, RequestRecoveryKeeps, ForgetKeeps
  <2>8. ASSUME NEW b \in Batch, NEW time \in Times, Inbox!Receive(b, time) PROVE InboxInv'
    BY <2>8, ReceiveKeeps
  <2>9. CASE UNCHANGED Inbox!vars
    BY <2>9, StutterKeeps
  <2> QED
    BY <2>1, <2>2, <2>3, <2>4, <2>5, <2>6, <2>7, <2>8, <2>9 DEF Inbox!Next, Inbox!Work
<1> QED
  BY <1>1, <1>2, PTL DEF Inbox!Spec

\* What the records, states and tables of the inbox are made of.
THEOREM InboxTyped == ASSUME Inbox!InboxAssumption PROVE Inbox!Spec => []Inbox!TypeOK
<1>1. InboxInv => Inbox!TypeOK
  BY DEF InboxInv, InboxTypes
<1> QED
  BY <1>1, InboxInvariance, PTL

\* An event gets a second record only when an operator returned the batch of one
\* of them or admission was out of order; and no accepted event is lost.
THEOREM EventsHaveOneRecord ==
  ASSUME Inbox!InboxAssumption PROVE Inbox!Spec => []OneRecordPerEvent
<1>1. InboxInv => OneRecordPerEvent
  <2> SUFFICES ASSUME InboxInv PROVE OneRecordPerEvent
    OBVIOUS
  <2>1. ASSUME NEW q \in Inbox!Admitted, NEW r \in Inbox!Admitted, Inbox!SameEvent(q, r)
        PROVE  q = r \/ \E x \in {q, r} : retries[home[x]] > 0 \/ home[x] \in overtaken
    BY <2>1, GivenCame DEF InboxInv, OneEach, Excused
  <2>2. ASSUME NEW d \in deliveries, d.accepted
        PROVE  \/ canonical[fact[d.record].event] # None
               \/ \E q \in Record : Inbox!SameEvent(q, d.record) /\ fact[q].refused
    BY <2>2 DEF InboxInv, KnownInv, Known
  <2>3. Inbox!TypeOK
    BY DEF InboxInv, InboxTypes
  <2> QED
    BY <2>1, <2>2, <2>3 DEF OneRecordPerEvent, Inbox!OneRecordPerEvent
<1> QED
  BY <1>1, InboxInvariance, PTL

\* A record that owns its event undisputed has it and is not spoilt.
LEMMA UndisputedIs ==
  ASSUME Inbox!InboxAssumption, InboxInv, NEW r \in Record, Inbox!Undisputed(r)
  PROVE  r \in Inbox!Admitted /\ home[r] \notin blocked /\ ~Spoilt(r, Inbox!Admitted)
<1>1. Inbox!Owns(r) /\ home[r] \notin blocked
  BY DEF Inbox!Undisputed
<1>2. r \in Inbox!Admitted
  BY <1>1 DEF Inbox!Owns, InboxInv, LedgerInv, Inbox!InboxAssumption, Inbox!Event
<1>3. ~fact[r].refused
  BY <1>2 DEF InboxInv, LedgerInv
<1>4. \A q \in Record : ~Rival(q, r)
  BY DEF Inbox!Undisputed, Rival, Present, Inbox!SameEvent
<1>5. \A q \in Inbox!Admitted : Inbox!SameEvent(q, r) => q = r
  BY GivenCame DEF Inbox!Undisputed
<1> QED
  BY <1>1, <1>2, <1>3, <1>4, <1>5 DEF Spoilt

\* Whatever drains threw or died and whatever was retried in between, a processed
\* batch has the lookups of its undisputed records queued and their installs judged.
THEOREM ProcessedBatchesAreComplete ==
  ASSUME Inbox!InboxAssumption PROVE Inbox!Spec => []SettledIsComplete
<1>1. InboxInv => SettledIsComplete
  <2> SUFFICES ASSUME InboxInv, NEW r \in Record, Inbox!Settled(r)
               PROVE  /\ fact[r].lookup => r \in queued
                      /\ fact[r].name = "install" => result[r] # None
    BY DEF SettledIsComplete, Inbox!SettledIsComplete
  <2>1. state[home[r]] = "processed" /\ Inbox!Undisputed(r)
    BY DEF Inbox!Settled
  <2> QED
    BY <2>1, UndisputedIs DEF InboxInv, DoneInv, IsInstall
<1> QED
  BY <1>1, InboxInvariance, PTL

\* A settled install with one settled click in its window is attributed, whichever
\* came first; and none is attributed without an accepted click in its window.
THEOREM ArrivalOrderDoesNotMatter ==
  ASSUME Inbox!InboxAssumption PROVE Inbox!Spec => []AttributionSettles
<1>1. InboxInv => AttributionSettles
  <2> SUFFICES ASSUME InboxInv, NEW r \in raw, fact[r].name = "install"
               PROVE  /\ Inbox!Valid(r) => \E q \in Inbox!ClicksOf(r) : fact[q].good
                      /\ /\ Inbox!Settled(r)
                         /\ \E q \in Record :
                              Inbox!ClicksOf(r) = {q} /\ Inbox!Settled(q) /\ fact[q].good
                         => Inbox!Valid(r)
    BY DEF AttributionSettles, Inbox!AttributionSettles
  <2>1. r \in Record
    BY GivenCame
  <2>2. Inbox!ClicksOf(r) = ClicksIn(r, Inbox!Admitted)
    BY DEF Inbox!ClicksOf, ClicksIn
  <2>3. Inbox!Valid(r) => \E q \in Inbox!ClicksOf(r) : fact[q].good
    BY <2>1, <2>2 DEF InboxInv, ValidInv
  <2>4. ASSUME Inbox!Settled(r), NEW q \in Record, Inbox!ClicksOf(r) = {q}, Inbox!Settled(q),
               fact[q].good
        PROVE  Inbox!Valid(r)
    <3>1. /\ state[home[r]] = "processed" /\ Inbox!Undisputed(r)
          /\ state[home[q]] = "processed" /\ Inbox!Undisputed(q)
      BY <2>4 DEF Inbox!Settled
    <3>2. Pair(r, q, Inbox!Admitted)
      BY <2>1, <2>2, <2>4, <3>1, UndisputedIs DEF Pair, IsInstall
    <3> QED
      BY <2>1, <3>1, <3>2 DEF InboxInv, ValidInv
  <2> QED
    BY <2>3, <2>4
<1> QED
  BY <1>1, InboxInvariance, PTL
================================================================================
