---------------------------- MODULE RunnerProofs ----------------------------
(***************************************************************************)
(* What Runner guarantees for every number of workers, items, URLs and     *)
(* every bridge capacity.                                                  *)
(***************************************************************************)
EXTENDS Runner, SequenceTheorems, TLAPS

USE DEF runnerVars, clientVars, poolVars, history

(* A forwarder that lives belongs to a worker that runs an item.           *)
LEMMA LiveForwarder ==
  ASSUME RunnerTypeOK, RunnerInv, NEW w \in Workers, forwarder[w] # "done"
  PROVE  Busy(w) /\ job[w] \in Items
  BY DEF RunnerTypeOK, RunnerInv, PipelineInv

(* Types hold at the start, where there is neither URL nor report.         *)
LEMMA TypesInit == RunnerInit => RunnerTypeOK
<1> SUFFICES ASSUME RunnerInit PROVE RunnerTypeOK
  OBVIOUS
<1>1. <<>> \in Seq(Urls) /\ <<>> \in Seq(Results)
  BY EmptySeq
<1>2. 0 \in 0..MaxUrls
  BY RunnerAssumption
<1> QED
  BY <1>1, <1>2 DEF RunnerInit, RunnerTypeOK, Errs

(* No step of the pool or its client breaks them.                          *)
LEMMA TypesNext ==
  ASSUME RunnerTypeOK, RunnerInv, [RunnerNext]_runnerVars
  PROVE  RunnerTypeOK'
<1> USE RunnerAssumption DEF RunnerTypeOK
<1>1. CASE Cancel
  BY <1>1 DEF Cancel
<1>2. CASE CloseWork
  BY <1>2 DEF CloseWork
<1>3. ASSUME NEW w \in Workers, NEW i \in Items, WorkerReceives(w, i)
      PROVE  RunnerTypeOK'
  <2>1. <<>> \in Seq(Urls)
    BY EmptySeq
  <2> QED
    BY <1>3, <2>1 DEF WorkerReceives
<1>4. ASSUME NEW w \in Workers, WorkerExits(w)
      PROVE  RunnerTypeOK'
  BY <1>4 DEF WorkerExits
<1>5. ASSUME NEW w \in Workers, FetchSends(w)
      PROVE  RunnerTypeOK'
  <2>1. job[w] \in Items
    BY <1>5 DEF FetchSends, RunnerInv, PipelineInv, Busy
  <2>2. emitted[job[w]] + 1 \in 1..MaxUrls
    BY <1>5, <2>1 DEF FetchSends
  <2>3. [item |-> job[w], n |-> emitted[job[w]] + 1] \in Urls
    BY <2>1, <2>2 DEF Urls
  <2>4. bridge' \in [Workers -> Seq(Urls)]
    BY <1>5, <2>3 DEF FetchSends
  <2>5. emitted' \in [Items -> 0..MaxUrls]
    BY <1>5, <2>1, <2>2 DEF FetchSends
  <2> QED
    BY <1>5, <2>4, <2>5 DEF FetchSends
<1>6. ASSUME NEW w \in Workers, NEW err \in Errs, FetchReturns(w, err)
      PROVE  RunnerTypeOK'
  BY <1>6 DEF FetchReturns, ClosesBridge
<1>7. ASSUME NEW w \in Workers, WorkCompletes(w)
      PROVE  RunnerTypeOK'
  BY <1>7 DEF WorkCompletes, Errs
<1>8. ASSUME NEW w \in Workers, ForwarderReceives(w)
      PROVE  RunnerTypeOK'
  BY <1>8 DEF ForwarderReceives
<1>9. ASSUME NEW w \in Workers, ForwarderCancelled(w)
      PROVE  RunnerTypeOK'
  BY <1>9 DEF ForwarderCancelled, AfterGivingUp
<1>10. ASSUME NEW w \in Workers, ForwarderDrains(w)
       PROVE  RunnerTypeOK'
  BY <1>10 DEF ForwarderDrains
<1>11. ASSUME NEW w \in Workers, ForwarderExits(w)
       PROVE  RunnerTypeOK'
  BY <1>11 DEF ForwarderExits
<1>12. ASSUME NEW w \in Workers, ForwarderSends(w)
       PROVE  RunnerTypeOK'
  <2>1. job[w] \in Items /\ held[w] \in Urls
    BY <1>12, LiveForwarder DEF ForwarderSends, RunnerInv, PipelineInv
  <2>2. Offer(w) \in Results
    BY <2>1 DEF Offer, Results
  <2>3. out' \in [Items -> Seq(Results)]
    BY <1>12, <2>1, <2>2 DEF ForwarderSends
  <2> QED
    BY <1>12, <2>3 DEF ForwarderSends
<1>13. CASE UNCHANGED runnerVars
  BY <1>13
<1> QED
  BY <1>1, <1>2, <1>3, <1>4, <1>5, <1>6, <1>7, <1>8, <1>9, <1>10, <1>11,
     <1>12, <1>13 DEF RunnerNext, Fetch, Forwarder, Stopped

(* A step that leaves worker v, its forwarder and the streams of its item  *)
(* alone leaves v's part of the invariant alone.                           *)
LEMMA WorkerFrame ==
  ASSUME RunnerTypeOK, NEW v \in Workers, PipelineInv(v), StreamInv(v),
         worker'[v] = worker[v], job'[v] = job[v], forwarder'[v] = forwarder[v],
         bridge'[v] = bridge[v], bridgeClosed'[v] = bridgeClosed[v],
         held'[v] = held[v], ctxDone => ctxDone',
         Busy(v) => /\ job[v] \in unsent' => job[v] \in unsent
                    /\ report'[job[v]] = report[job[v]]
                    /\ out'[job[v]] = out[job[v]]
                    /\ emitted'[job[v]] = emitted[job[v]]
  PROVE  PipelineInv(v)' /\ StreamInv(v)'
<1>1. PipelineInv(v)'
  BY DEF PipelineInv, Busy, RunnerTypeOK
<1>2. StreamInv(v)'
  <2>1. (Busy(v)' <=> Busy(v)) /\ (Faithful(v)' => Faithful(v))
    BY DEF Busy, Faithful, RunnerTypeOK
  <2>2. HeldCount(v)' = HeldCount(v)
    BY DEF HeldCount
  <2> QED
    BY <2>1, <2>2 DEF StreamInv
<1> QED
  BY <1>1, <1>2

(* An item stays accounted for while its history and holder stay put.      *)
LEMMA ItemFrame ==
  ASSUME NEW i \in Items, ItemInv(i),
         i \in unsent' <=> i \in unsent, report'[i] = report[i],
         i \in unsent => emitted'[i] = emitted[i] /\ out'[i] = out[i],
         \A v \in Workers : Busy(v) /\ job[v] = i => Busy(v)' /\ job'[v] = i
  PROVE  ItemInv(i)'
<1>1. CASE i \notin unsent /\ report[i] = "none"
  <2>1. PICK v \in Workers : Busy(v) /\ job[v] = i
    BY <1>1 DEF ItemInv
  <2>2. Busy(v)' /\ job'[v] = i
    BY <2>1
  <2> QED
    BY <1>1, <2>2 DEF ItemInv
<1>2. CASE ~(i \notin unsent /\ report[i] = "none")
  BY <1>2 DEF ItemInv
<1> QED
  BY <1>1, <1>2

(* No step breaks the invariant: the acting worker's part is followed      *)
(* through its step, every other worker's and item's part is framed.       *)
LEMMA InvNext ==
  ASSUME RunnerTypeOK, RunnerInv, [RunnerNext]_runnerVars
  PROVE  RunnerInv'
<1> USE RunnerAssumption DEF RunnerTypeOK, RunnerInv
<1>1. CASE Cancel
  <2>1. \A v \in Workers : PipelineInv(v)' /\ StreamInv(v)'
    BY <1>1, WorkerFrame DEF Cancel
  <2>2. \A i \in Items : ItemInv(i)'
    BY <1>1, ItemFrame DEF Cancel, Busy
  <2>3. OneWorkerPerItem'
    BY <1>1 DEF Cancel, OneWorkerPerItem, Busy
  <2> QED
    BY <2>1, <2>2, <2>3
<1>2. CASE CloseWork
  <2>1. \A v \in Workers : PipelineInv(v)' /\ StreamInv(v)'
    BY <1>2, WorkerFrame DEF CloseWork
  <2>2. \A i \in Items : ItemInv(i)'
    BY <1>2, ItemFrame DEF CloseWork, Busy
  <2>3. OneWorkerPerItem'
    BY <1>2 DEF CloseWork, OneWorkerPerItem, Busy
  <2> QED
    BY <2>1, <2>2, <2>3
<1>3. ASSUME NEW w \in Workers, NEW i \in Items, WorkerReceives(w, i)
      PROVE  RunnerInv'
  <2> USE <1>3 DEF WorkerReceives
  <2>1. PipelineInv(w)'
    <3>1. ItemInv(i) /\ PipelineInv(w) /\ ~Busy(w)
      BY DEF Busy
    <3> QED
      BY <3>1 DEF PipelineInv, ItemInv, Busy
  <2>2. StreamInv(w)'
    <3>1. emitted'[i] = 0 /\ out'[i] = <<>>
      BY DEF ItemInv
    <3>2. Len(bridge'[w]) = 0 /\ Len(out'[i]) = 0
      BY <3>1
    <3> QED
      BY <3>1, <3>2 DEF StreamInv, Busy, Faithful, HeldCount
  <2>3. ASSUME NEW v \in Workers \ {w} PROVE PipelineInv(v)' /\ StreamInv(v)'
    <3>1. Busy(v) /\ Busy(w) => job[v] # job[w]
      BY DEF OneWorkerPerItem
    <3>2. Busy(v) => job[v] \in Items \ unsent
      BY DEF PipelineInv
    <3> QED
      BY <3>1, <3>2, WorkerFrame, LiveForwarder DEF Busy
  <2>4. ASSUME NEW j \in Items PROVE ItemInv(j)'
    <3>1. CASE j = i
      BY <3>1 DEF ItemInv, Busy
    <3>2. CASE j # i
      BY <3>2, ItemFrame DEF Busy
    <3> QED
      BY <3>1, <3>2
  <2>5. OneWorkerPerItem'
    BY DEF OneWorkerPerItem, PipelineInv, Busy
  <2> QED
    BY <2>1, <2>2, <2>3, <2>4, <2>5
<1>4. ASSUME NEW w \in Workers, WorkerExits(w)
      PROVE  RunnerInv'
  <2> USE <1>4 DEF WorkerExits
  <2>1. PipelineInv(w)'
    BY DEF PipelineInv, Busy
  <2>2. StreamInv(w)'
    BY DEF PipelineInv, StreamInv, Busy, Faithful, HeldCount, UrlAfter
  <2>3. ASSUME NEW v \in Workers \ {w} PROVE PipelineInv(v)' /\ StreamInv(v)'
    <3>1. Busy(v) /\ Busy(w) => job[v] # job[w]
      BY DEF OneWorkerPerItem
    <3>2. Busy(v) => job[v] \in Items \ unsent
      BY DEF PipelineInv
    <3> QED
      BY <3>1, <3>2, WorkerFrame, LiveForwarder DEF Busy
  <2>4. ASSUME NEW j \in Items PROVE ItemInv(j)'
    BY ItemFrame DEF Busy
  <2>5. OneWorkerPerItem'
    BY DEF OneWorkerPerItem, PipelineInv, Busy
  <2> QED
    BY <2>1, <2>2, <2>3, <2>4, <2>5
<1>5. ASSUME NEW w \in Workers, FetchSends(w)
      PROVE  RunnerInv'
  <2> USE <1>5 DEF FetchSends
  <2>1. PipelineInv(w)'
    BY DEF PipelineInv, Busy
  <2>2. StreamInv(w)'
    <3> DEFINE i == job[w]
               sent == Len(out[i])
               url == [item |-> i, n |-> emitted[i] + 1]
    <3>1. /\ i \in Items /\ Busy(w) /\ PipelineInv(w) /\ StreamInv(w)
          /\ sent \in Nat /\ bridge[w] \in Seq(Urls)
      BY DEF PipelineInv, Busy
    <3> url \in Urls
      <4>1. emitted[i] + 1 \in 1..MaxUrls
        BY <3>1
      <4> QED
        BY <3>1, <4>1 DEF Urls
    <3>2. /\ emitted'[i] = emitted[i] + 1 /\ out'[i] = out[i]
          /\ bridge'[w] = Append(bridge[w], url)
      BY <3>1
    <3>3. /\ Len(bridge'[w]) = Len(bridge[w]) + 1
          /\ \A k \in 1..Len(bridge[w]) : bridge'[w][k] = bridge[w][k]
          /\ bridge'[w][Len(bridge[w]) + 1] = url
      BY <3>1, <3>2, AppendProperties
    <3>4. /\ Faithful(w)' <=> Faithful(w)
          /\ HeldCount(w)' = HeldCount(w) /\ HeldCount(w) \in Nat
      BY DEF Faithful, HeldCount
    <3>5. /\ forwarder'[w] = forwarder[w] /\ held'[w] = held[w] /\ job'[w] = i
          /\ Len(bridge[w]) \in Nat /\ emitted[i] \in Nat
      BY <3>1
    <3>6. CASE Faithful(w)
      <4>1. emitted[i] = sent + HeldCount(w) + Len(bridge[w])
        BY <3>1, <3>6 DEF StreamInv
      <4>2. ASSUME NEW k \in 1..Len(bridge'[w])
            PROVE  bridge'[w][k] = UrlAfter(i, sent + HeldCount(w) + k - 1)
        <5>1. CASE k \in 1..Len(bridge[w])
          BY <3>1, <3>3, <3>6, <5>1 DEF StreamInv
        <5>2. CASE k = Len(bridge[w]) + 1
          <6>1. sent + HeldCount(w) + k - 1 = emitted[i]
            BY <3>1, <3>4, <3>5, <4>1, <5>2
          <6> QED
            BY <3>3, <5>2, <6>1 DEF UrlAfter
        <5> QED
          BY <3>3, <3>5, <5>1, <5>2
      <4>3. forwarder[w] = "send" => held[w] = UrlAfter(i, sent)
        BY <3>1, <3>6 DEF StreamInv
      <4>4. emitted[i] + 1 = sent + HeldCount(w) + Len(bridge'[w])
        BY <3>3, <3>4, <3>5, <4>1
      <4>5. sent <= emitted[i] + 1
        BY <3>1, <3>5 DEF StreamInv
      <4> HIDE DEF RunnerInv, RunnerTypeOK, FetchSends
      <4> QED
        BY <3>2, <3>4, <3>5, <4>2, <4>3, <4>4, <4>5 DEF StreamInv
    <3>7. CASE ~Faithful(w)
      BY <3>1, <3>2, <3>4, <3>5, <3>7 DEF StreamInv
    <3> QED
      BY <3>6, <3>7
  <2>3. ASSUME NEW v \in Workers \ {w} PROVE PipelineInv(v)' /\ StreamInv(v)'
    <3>1. Busy(v) /\ Busy(w) => job[v] # job[w]
      BY DEF OneWorkerPerItem
    <3>2. Busy(v) => job[v] \in Items \ unsent
      BY DEF PipelineInv
    <3> QED
      BY <3>1, <3>2, WorkerFrame, LiveForwarder DEF Busy
  <2>4. ASSUME NEW j \in Items PROVE ItemInv(j)'
    <3>1. job[w] \notin unsent
      BY DEF PipelineInv, Busy
    <3> QED
      BY <3>1, ItemFrame DEF Busy
  <2>5. OneWorkerPerItem'
    BY DEF OneWorkerPerItem, PipelineInv, Busy
  <2> QED
    BY <2>1, <2>2, <2>3, <2>4, <2>5
<1>6. ASSUME NEW w \in Workers, NEW err \in Errs, FetchReturns(w, err)
      PROVE  RunnerInv'
  <2> USE <1>6 DEF FetchReturns, ClosesBridge
  <2>1. PipelineInv(w)'
    BY DEF PipelineInv, Busy
  <2>2. StreamInv(w)'
    <3>1. StreamInv(w) /\ Busy(w)
      BY DEF Busy
    <3> QED
      BY <3>1 DEF StreamInv, Busy, Faithful, HeldCount, UrlAfter
  <2>3. ASSUME NEW v \in Workers \ {w} PROVE PipelineInv(v)' /\ StreamInv(v)'
    <3>1. Busy(v) /\ Busy(w) => job[v] # job[w]
      BY DEF OneWorkerPerItem
    <3>2. Busy(v) => job[v] \in Items \ unsent
      BY DEF PipelineInv
    <3> QED
      BY <3>1, <3>2, WorkerFrame, LiveForwarder DEF Busy
  <2>4. ASSUME NEW j \in Items PROVE ItemInv(j)'
    BY ItemFrame DEF Busy
  <2>5. OneWorkerPerItem'
    BY DEF OneWorkerPerItem, PipelineInv, Busy
  <2> QED
    BY <2>1, <2>2, <2>3, <2>4, <2>5
<1>7. ASSUME NEW w \in Workers, WorkCompletes(w)
      PROVE  RunnerInv'
  <2> USE <1>7 DEF WorkCompletes, Forwarded
  <2>1. PipelineInv(w)'
    BY DEF PipelineInv, Busy
  <2>2. StreamInv(w)'
    BY DEF PipelineInv, StreamInv, Busy, Faithful, HeldCount, UrlAfter
  <2>3. ASSUME NEW v \in Workers \ {w} PROVE PipelineInv(v)' /\ StreamInv(v)'
    <3>1. Busy(v) /\ Busy(w) => job[v] # job[w]
      BY DEF OneWorkerPerItem
    <3>2. Busy(v) => job[v] \in Items \ unsent
      BY DEF PipelineInv
    <3> QED
      BY <3>1, <3>2, WorkerFrame, LiveForwarder DEF Busy
  <2>4. ASSUME NEW j \in Items PROVE ItemInv(j)'
    <3>1. job[w] \in Items \ unsent
      BY DEF PipelineInv, Busy
    <3>2. CASE j = job[w]
      <4>1. report'[j] = fetchErr[w] /\ fetchErr[w] # "none"
        BY <3>1, <3>2 DEF Errs
      <4> QED
        BY <3>1, <3>2, <4>1 DEF ItemInv
    <3>3. CASE j # job[w]
      BY <3>3, ItemFrame DEF Busy
    <3> QED
      BY <3>2, <3>3
  <2>5. OneWorkerPerItem'
    BY DEF OneWorkerPerItem, PipelineInv, Busy
  <2> QED
    BY <2>1, <2>2, <2>3, <2>4, <2>5
<1>8. ASSUME NEW w \in Workers, ForwarderReceives(w)
      PROVE  RunnerInv'
  <2> USE <1>8 DEF ForwarderReceives
  <2>1. PipelineInv(w)'
    BY DEF PipelineInv, Busy
  <2>2. StreamInv(w)'
    <3> DEFINE i == job[w]
               sent == Len(out[i])
    <3>1. i \in Items /\ Busy(w) /\ sent \in Nat /\ bridge[w] \in Seq(Urls)
      BY LiveForwarder
    <3>2. /\ emitted'[i] = emitted[i] /\ out'[i] = out[i] /\ job'[w] = i
          /\ bridge'[w] = Tail(bridge[w]) /\ held'[w] = bridge[w][1]
          /\ forwarder'[w] = "send"
      BY <3>1
    <3>3. /\ Len(bridge'[w]) = Len(bridge[w]) - 1 /\ Len(bridge[w]) \in Nat \ {0}
          /\ \A k \in 1..(Len(bridge[w]) - 1) : bridge'[w][k] = bridge[w][k + 1]
      BY <3>1, <3>2, HeadTailProperties, EmptySeq
    <3>4. /\ Faithful(w) /\ HeldCount(w) = 0 /\ HeldCount(w)' = 1
          /\ StreamInv(w)
      BY <3>2 DEF Faithful, HeldCount
    <3>5. emitted[i] \in Nat
      BY <3>1
    <3> QED
      BY <3>1, <3>2, <3>3, <3>4, <3>5 DEF StreamInv, UrlAfter
  <2>3. ASSUME NEW v \in Workers \ {w} PROVE PipelineInv(v)' /\ StreamInv(v)'
    <3>1. Busy(v) /\ Busy(w) => job[v] # job[w]
      BY DEF OneWorkerPerItem
    <3>2. Busy(v) => job[v] \in Items \ unsent
      BY DEF PipelineInv
    <3> QED
      BY <3>1, <3>2, WorkerFrame, LiveForwarder DEF Busy
  <2>4. ASSUME NEW j \in Items PROVE ItemInv(j)'
    BY ItemFrame DEF Busy
  <2>5. OneWorkerPerItem'
    BY DEF OneWorkerPerItem, PipelineInv, Busy
  <2> QED
    BY <2>1, <2>2, <2>3, <2>4, <2>5
<1>9. ASSUME NEW w \in Workers, ForwarderCancelled(w)
      PROVE  RunnerInv'
  <2> USE <1>9 DEF ForwarderCancelled, AfterGivingUp, GivesUp
  <2>1. PipelineInv(w)'
    BY DEF PipelineInv, Busy
  <2>2. StreamInv(w)'
    BY DEF PipelineInv, StreamInv, Busy, Faithful, HeldCount, UrlAfter
  <2>3. ASSUME NEW v \in Workers \ {w} PROVE PipelineInv(v)' /\ StreamInv(v)'
    <3>1. Busy(v) /\ Busy(w) => job[v] # job[w]
      BY DEF OneWorkerPerItem
    <3>2. Busy(v) => job[v] \in Items \ unsent
      BY DEF PipelineInv
    <3> QED
      BY <3>1, <3>2, WorkerFrame, LiveForwarder DEF Busy
  <2>4. ASSUME NEW j \in Items PROVE ItemInv(j)'
    BY ItemFrame DEF Busy
  <2>5. OneWorkerPerItem'
    BY DEF OneWorkerPerItem, PipelineInv, Busy
  <2> QED
    BY <2>1, <2>2, <2>3, <2>4, <2>5
<1>10. ASSUME NEW w \in Workers, ForwarderDrains(w)
      PROVE  RunnerInv'
  <2> USE <1>10 DEF ForwarderDrains
  <2>1. PipelineInv(w)'
    BY DEF PipelineInv, Busy
  <2>2. StreamInv(w)'
    BY DEF PipelineInv, StreamInv, Busy, Faithful, HeldCount, UrlAfter
  <2>3. ASSUME NEW v \in Workers \ {w} PROVE PipelineInv(v)' /\ StreamInv(v)'
    <3>1. Busy(v) /\ Busy(w) => job[v] # job[w]
      BY DEF OneWorkerPerItem
    <3>2. Busy(v) => job[v] \in Items \ unsent
      BY DEF PipelineInv
    <3> QED
      BY <3>1, <3>2, WorkerFrame, LiveForwarder DEF Busy
  <2>4. ASSUME NEW j \in Items PROVE ItemInv(j)'
    BY ItemFrame DEF Busy
  <2>5. OneWorkerPerItem'
    BY DEF OneWorkerPerItem, PipelineInv, Busy
  <2> QED
    BY <2>1, <2>2, <2>3, <2>4, <2>5
<1>11. ASSUME NEW w \in Workers, ForwarderExits(w)
      PROVE  RunnerInv'
  <2> USE <1>11 DEF ForwarderExits, RangeEnds
  <2>1. PipelineInv(w)'
    BY DEF PipelineInv, Busy
  <2>2. StreamInv(w)'
    <3>1. StreamInv(w) /\ PipelineInv(w) /\ Busy(w)
      BY LiveForwarder
    <3>2. HeldCount(w) = 0 /\ HeldCount(w)' = 0 /\ forwarder'[w] = "done"
      BY DEF HeldCount
    <3>3. Faithful(w)' => Faithful(w)
      BY <3>1, <3>2 DEF Faithful, PipelineInv
    <3> QED
      BY <3>1, <3>2, <3>3 DEF StreamInv, UrlAfter, Busy
  <2>3. ASSUME NEW v \in Workers \ {w} PROVE PipelineInv(v)' /\ StreamInv(v)'
    <3>1. Busy(v) /\ Busy(w) => job[v] # job[w]
      BY DEF OneWorkerPerItem
    <3>2. Busy(v) => job[v] \in Items \ unsent
      BY DEF PipelineInv
    <3> QED
      BY <3>1, <3>2, WorkerFrame, LiveForwarder DEF Busy
  <2>4. ASSUME NEW j \in Items PROVE ItemInv(j)'
    BY ItemFrame DEF Busy
  <2>5. OneWorkerPerItem'
    BY DEF OneWorkerPerItem, PipelineInv, Busy
  <2> QED
    BY <2>1, <2>2, <2>3, <2>4, <2>5
<1>12. ASSUME NEW w \in Workers, ForwarderSends(w)
      PROVE  RunnerInv'
  <2> USE <1>12 DEF ForwarderSends
  <2>1. PipelineInv(w)'
    BY DEF PipelineInv, Busy
  <2>2. StreamInv(w)'
    <3> DEFINE i == job[w]
               sent == Len(out[i])
    <3>1. i \in Items /\ Busy(w) /\ sent \in Nat /\ bridge[w] \in Seq(Urls)
      BY LiveForwarder
    <3>2. held[w] \in Urls
      BY DEF PipelineInv
    <3>3. Offer(w) \in Results
      BY <3>1, <3>2 DEF Offer, Results
    <3>4. Len(out'[i]) = sent + 1 /\ emitted'[i] = emitted[i]
      BY <3>1, <3>3, AppendProperties
    <3>5. /\ Faithful(w) /\ HeldCount(w) = 1 /\ HeldCount(w)' = 0
          /\ StreamInv(w) /\ forwarder'[w] = "range"
      BY DEF Faithful, HeldCount
    <3>6. /\ bridge'[w] = bridge[w] /\ job'[w] = i
          /\ Len(bridge[w]) \in Nat /\ emitted[i] \in Nat
      BY <3>1
    <3> QED
      BY <3>1, <3>4, <3>5, <3>6 DEF StreamInv, UrlAfter
  <2>3. ASSUME NEW v \in Workers \ {w} PROVE PipelineInv(v)' /\ StreamInv(v)'
    <3>1. Busy(v) /\ Busy(w) => job[v] # job[w]
      BY DEF OneWorkerPerItem
    <3>2. Busy(v) => job[v] \in Items \ unsent
      BY DEF PipelineInv
    <3> QED
      BY <3>1, <3>2, WorkerFrame, LiveForwarder DEF Busy
  <2>4. ASSUME NEW j \in Items PROVE ItemInv(j)'
    <3>1. job[w] \notin unsent
      BY LiveForwarder DEF PipelineInv
    <3> QED
      BY <3>1, ItemFrame DEF Busy
  <2>5. OneWorkerPerItem'
    BY DEF OneWorkerPerItem, PipelineInv, Busy
  <2> QED
    BY <2>1, <2>2, <2>3, <2>4, <2>5
<1>13. CASE UNCHANGED runnerVars
  <2>1. \A v \in Workers : PipelineInv(v)' /\ StreamInv(v)'
    BY <1>13, WorkerFrame
  <2>2. \A i \in Items : ItemInv(i)'
    BY <1>13, ItemFrame DEF Busy
  <2>3. OneWorkerPerItem'
    BY <1>13 DEF OneWorkerPerItem, Busy
  <2> QED
    BY <2>1, <2>2, <2>3
<1> QED
  BY <1>1, <1>2, <1>3, <1>4, <1>5, <1>6, <1>7, <1>8, <1>9, <1>10, <1>11,
     <1>12, <1>13 DEF RunnerNext, Fetch, Forwarder, Stopped

(* The pool starts idle: no worker busy, every item unsent.                *)
LEMMA InvInit == RunnerInit => RunnerInv
  BY DEF RunnerInit, RunnerInv, PipelineInv, StreamInv, ItemInv,
         OneWorkerPerItem, Busy

(* Types and the pool's invariant hold in every reachable state.           *)
THEOREM RunnerInvariance == RunnerSpec => [](RunnerTypeOK /\ RunnerInv)
<1>1. RunnerInit => RunnerTypeOK /\ RunnerInv
  BY TypesInit, InvInit
<1>2. RunnerTypeOK /\ RunnerInv /\ [RunnerNext]_runnerVars
        => (RunnerTypeOK /\ RunnerInv)'
  BY TypesNext, InvNext
<1> QED
  BY <1>1, <1>2, PTL DEF RunnerSpec

(* Every variable of the pool keeps its type, for any number of workers    *)
(* and items (runner.go:86-192).                                           *)
THEOREM RunnerTypesCorrect == RunnerSpec => []RunnerTypeOK
  BY RunnerInvariance, PTL

(* Once Wait has returned nobody can send on results any more and every    *)
(* item a worker took has been reported.                                   *)
THEOREM WaitSafe == RunnerSpec => []WaitMeansQuiescent
<1>1. RunnerTypeOK /\ RunnerInv => WaitMeansQuiescent
  BY DEF RunnerTypeOK, RunnerInv, PipelineInv, ItemInv, Busy, AllExited,
         WaitMeansQuiescent
<1> QED
  BY <1>1, RunnerInvariance, PTL

(* A pool step is, seen from the channels, one step of Delivery or none.   *)
LEMMA StepDelivers ==
  ASSUME RunnerTypeOK, RunnerInv, [RunnerNext]_runnerVars
  PROVE  [D!Next]_<<emitted, out, report, ctxDone>>
<1> USE RunnerAssumption DEF RunnerTypeOK
<1>1. CASE Cancel
  BY <1>1 DEF Cancel, D!Next, D!Cancel
<1>2. CASE CloseWork
  BY <1>2 DEF CloseWork
<1>3. ASSUME NEW w \in Workers, NEW i \in Items, WorkerReceives(w, i)
      PROVE  UNCHANGED <<emitted, out, report, ctxDone>>
  BY <1>3 DEF WorkerReceives
<1>4. ASSUME NEW w \in Workers,
             \/ WorkerExits(w)       \/ \E err \in Errs : FetchReturns(w, err)
             \/ ForwarderReceives(w) \/ ForwarderCancelled(w)
             \/ ForwarderDrains(w)   \/ ForwarderExits(w)
      PROVE  UNCHANGED <<emitted, out, report, ctxDone>>
  BY <1>4 DEF WorkerExits, FetchReturns, ForwarderReceives,
              ForwarderCancelled, ForwarderDrains, ForwarderExits
<1>5. ASSUME NEW w \in Workers, FetchSends(w)
      PROVE  D!Next
  <2>1. job[w] \in Items /\ report[job[w]] = "none"
    BY <1>5 DEF FetchSends, RunnerInv, PipelineInv, Busy
  <2>2. D!Produce(job[w])
    BY <1>5, <2>1 DEF FetchSends, D!Produce
  <2> QED
    BY <2>1, <2>2 DEF D!Next
<1>6. ASSUME NEW w \in Workers, ForwarderSends(w)
      PROVE  D!Next
  <2> DEFINE i == job[w]
  <2>1. /\ i \in Items /\ report[i] = "none" /\ Faithful(w)
        /\ HeldCount(w) = 1 /\ StreamInv(w) /\ Busy(w) /\ forwarder[w] = "send"
    BY <1>6, LiveForwarder
       DEF ForwarderSends, RunnerInv, PipelineInv, Faithful, HeldCount
  <2>2. /\ Len(out[i]) \in Nat /\ Len(bridge[w]) \in Nat
        /\ emitted[i] \in Nat
    BY <2>1
  <2>3. held[w] = UrlAfter(i, Len(out[i])) /\ Len(out[i]) < emitted[i]
    BY <2>1, <2>2 DEF StreamInv
  <2>4. Offer(w) = D!Tagged(i, Len(out[i]) + 1)
    BY <2>3 DEF Offer, UrlAfter, D!Tagged, D!Url
  <2>5. D!Forward(i)
    BY <1>6, <2>1, <2>3, <2>4 DEF ForwarderSends, D!Forward
  <2> QED
    BY <2>1, <2>5 DEF D!Next
<1>7. ASSUME NEW w \in Workers, WorkCompletes(w)
      PROVE  D!Next
  <2> DEFINE i == job[w]
  <2>1. /\ i \in Items /\ report[i] = "none" /\ StreamInv(w) /\ Busy(w)
        /\ HeldCount(w) = 0 /\ bridge[w] = <<>> /\ fetchErr[w] \in Errs
        /\ Faithful(w) \/ ctxDone
    BY <1>7 DEF WorkCompletes, Forwarded, RunnerInv, PipelineInv, Busy,
                HeldCount, Faithful
  <2>2. Len(bridge[w]) = 0 /\ Len(out[i]) \in Nat /\ emitted[i] \in Nat
    BY <2>1
  <2>3. ctxDone \/ Len(out[i]) = emitted[i]
    BY <2>1, <2>2 DEF StreamInv
  <2>4. D!Report(i, fetchErr[w])
    BY <1>7, <2>1, <2>3 DEF WorkCompletes, D!Report
  <2> QED
    BY <2>1, <2>4 DEF D!Next, Errs
<1>8. CASE UNCHANGED runnerVars
  BY <1>8
<1> QED
  BY <1>1, <1>2, <1>3, <1>4, <1>5, <1>6, <1>7, <1>8
     DEF RunnerNext, Fetch, Forwarder, Stopped

(* The pool implements Delivery: every provider's URLs reach results in    *)
(* order, once, under its name, and before the report unless cancelled.    *)
THEOREM PoolImplementsDelivery == RunnerSpec => RunnerDelivers
<1>1. RunnerInit => D!Init
  BY DEF RunnerInit, D!Init
<1>2. RunnerTypeOK /\ RunnerInv /\ [RunnerNext]_runnerVars
        => [D!Next]_<<emitted, out, report, ctxDone>>
  BY StepDelivers
<1> QED
  BY <1>1, <1>2, RunnerInvariance, PTL DEF RunnerSpec, RunnerDelivers, D!Spec
=============================================================================
