-------------------------- MODULE BlockingPoolProofs --------------------------
(***************************************************************************)
(* The safety properties of BlockingPool for every number of callers and   *)
(* workers and every capacity, and the step simulation of JobPool.         *)
(***************************************************************************)
EXTENDS BlockingPool, SequenceTheorems, TLAPS

\* Who may still wake w when it is about to sleep or sleeps.
WakeUpDue(w) ==
  \/ w \in Range(idle)
  \/ \E c \in Calls : cpc[c] = "unpark" /\ target[c] = w
  \/ owner = "waking" /\ w \in toWake

OwnerInv ==
  /\ sender <=> owner \in {"spawning", "ready"}
  /\ owner = "ready" => \A w \in Workers : wpc[w] # "unborn"
  /\ \A c \in Calls : Submitting(c) => owner = "ready"
  /\ queue # <<>> => \A w \in Workers : wpc[w] # "unborn"

TargetInv == \A c \in Calls : cpc[c] = "unpark" => target[c] \in Workers

\* Registering before the second try makes this inductive: a worker that read
\* an empty queue is on the idle list or somebody already holds its thread.
WakeInv ==
  \A w \in Workers : wpc[w] \in {"retake", "park"} /\ ~token[w] => WakeUpDue(w)

\* After the disconnect nobody falls asleep any more.
SleeperInv ==
  \A w \in Workers :
    ~sender /\ Asleep(w) =>
      owner = "disconnected" \/ (owner = "waking" /\ w \in toWake)

JobInv ==
  /\ \A w \in Workers : job[w] # None <=> wpc[w] \in {"claimed", "run"}
  /\ \A c \in Calls : cpc[c] \in {"new", "refused"} =>
       c \notin Range(queue) \cup Range(job) \cup done

IInv ==
  /\ TypeOK /\ OwnerInv /\ TargetInv /\ WakeInv /\ SleeperInv
  /\ JobInv /\ DrainedBeforeExit /\ NoLostWakeup

------------------------------------------------------------------------------
(* Sequence lemmas: what the vector operations keep. *)

\* Taking the last element keeps the others (idle.pop).
LEMMA AllButLastKeeps ==
  ASSUME NEW S, NEW s \in Seq(S), s # <<>>
  PROVE  /\ AllButLast(s) \in Seq(S)
         /\ s[Len(s)] \in S
         /\ \A x \in Range(s) : x = s[Len(s)] \/ x \in Range(AllButLast(s))
<1>1. Len(s) \in Nat \ {0} /\ \A i \in 1 .. Len(s) : s[i] \in S
  BY EmptySeq, LenProperties, ElementOfSeq
<1>2. AllButLast(s) \in Seq(S)
  BY <1>1, IsASeq DEF AllButLast
<1>3. ASSUME NEW i \in 1 .. Len(s), i # Len(s)
      PROVE  s[i] \in Range(AllButLast(s))
  BY <1>1, <1>3 DEF AllButLast, Range
<1>4. \A x \in Range(s) : \E i \in 1 .. Len(s) : x = s[i]
  BY LenProperties DEF Range
<1> QED BY <1>1, <1>2, <1>3, <1>4

\* swap_remove drops one element and keeps the others.
LEMMA SwapRemoveKeeps ==
  ASSUME NEW S, NEW s \in Seq(S), NEW p \in 1 .. Len(s)
  PROVE  /\ SwapRemove(s, p) \in Seq(S)
         /\ \A x \in Range(s) : x = s[p] \/ x \in Range(SwapRemove(s, p))
<1>1. Len(s) \in Nat \ {0} /\ \A i \in 1 .. Len(s) : s[i] \in S
  BY LenProperties, ElementOfSeq
<1>2. SwapRemove(s, p) \in Seq(S)
  BY <1>1, IsASeq DEF SwapRemove
<1>3. ASSUME NEW i \in 1 .. Len(s), i # p
      PROVE  s[i] \in Range(SwapRemove(s, p))
  <2>1. CASE i = Len(s)
    <3>1. p \in 1 .. Len(s) - 1
      BY <1>1, <1>3, <2>1
    <3> QED BY <3>1, <2>1 DEF SwapRemove, Range
  <2>2. CASE i # Len(s)
    <3>1. i \in 1 .. Len(s) - 1
      BY <1>1, <2>2
    <3> QED BY <3>1, <1>3 DEF SwapRemove, Range
  <2> QED BY <2>1, <2>2
<1>4. \A x \in Range(s) : \E i \in 1 .. Len(s) : x = s[i]
  BY LenProperties DEF Range
<1> QED BY <1>1, <1>2, <1>3, <1>4

\* Pushing keeps what was there (idle.push, the job channel's send).
LEMMA AppendKeeps ==
  ASSUME NEW S, NEW s \in Seq(S), NEW e \in S
  PROVE  /\ Append(s, e) \in Seq(S)
         /\ Len(Append(s, e)) = Len(s) + 1
         /\ Range(Append(s, e)) = Range(s) \cup {e}
         /\ Append(s, e) # <<>>
<1>1. /\ Append(s, e) \in Seq(S) /\ Append(s, e) # <<>>
      /\ Len(Append(s, e)) = Len(s) + 1
      /\ \A i \in 1 .. Len(s) : Append(s, e)[i] = s[i]
      /\ Append(s, e)[Len(s) + 1] = e
  BY AppendProperties
<1>2. DOMAIN s = 1 .. Len(s) /\ DOMAIN Append(s, e) = 1 .. Len(s) + 1 /\ Len(s) \in Nat
  BY <1>1, LenProperties
<1> QED BY <1>1, <1>2 DEF Range

\* Receiving from the channel keeps the order of the rest.
LEMMA TailKeeps ==
  ASSUME NEW S, NEW s \in Seq(S), s # <<>>
  PROVE  /\ Tail(s) \in Seq(S) /\ Head(s) \in S
         /\ Len(Tail(s)) = Len(s) - 1
         /\ Range(Tail(s)) \subseteq Range(s) /\ Head(s) \in Range(s)
<1>1. /\ Tail(s) \in Seq(S) /\ Head(s) \in S /\ Len(Tail(s)) = Len(s) - 1
      /\ \A i \in 1 .. Len(Tail(s)) : Tail(s)[i] = s[i + 1]
  BY HeadTailProperties
<1>2. /\ DOMAIN s = 1 .. Len(s) /\ DOMAIN Tail(s) = 1 .. Len(Tail(s))
      /\ Len(s) \in Nat \ {0} /\ Head(s) = s[1]
  BY <1>1, LenProperties, EmptySeq
<1> QED BY <1>1, <1>2 DEF Range

------------------------------------------------------------------------------
(* Type correctness.  RunJob needs JobInv: the worker really holds a job. *)

\* Every step keeps the types.
LEMMA TypeStep ==
  TypeOK /\ JobInv /\ [Next]_vars => TypeOK'
<1> SUFFICES ASSUME TypeOK, JobInv, [Next]_vars
             PROVE  TypeOK'
  OBVIOUS
<1>1. ASSUME NEW c \in Calls, TrySend(c) PROVE TypeOK'
  <2>1. queue' \in Seq(Calls) /\ Len(queue') <= Capacity
    BY <1>1, AppendKeeps, CapacityAssumption, LenProperties DEF TrySend,
       TypeOK
  <2> QED BY <1>1, <2>1 DEF TrySend, TypeOK, workerVars, ownerVars,
     CallPlaces
<1>2. ASSUME NEW c \in Calls, PopIdle(c) PROVE TypeOK'
  <2>1. idle # <<>> => AllButLast(idle) \in Seq(Workers) /\ idle[Len(idle)] \in Workers
    BY AllButLastKeeps DEF TypeOK
  <2> QED BY <1>2, <2>1 DEF PopIdle, TypeOK, workerVars, ownerVars,
     CallPlaces
<1>3. ASSUME NEW c \in Calls, SendFull(c) \/ ReadIdle(c) \/ Unpark(c) PROVE
   TypeOK'
  BY <1>3 DEF SendFull, ReadIdle, Unpark, TypeOK, workerVars, callVars,
     ownerVars, WorkerPlaces, CallPlaces, OwnerPlaces
<1>4. ASSUME NEW w \in Workers, FirstTake(w) PROVE TypeOK'
  <2>1. queue # <<>> => /\ Tail(queue) \in Seq(Calls) /\ Head(queue) \in Calls
                        /\ Len(Tail(queue)) <= Capacity
    BY TailKeeps, LenProperties, CapacityAssumption DEF TypeOK
  <2> QED BY <1>4, <2>1 DEF FirstTake, TakeJob, Goto, TypeOK, callVars,
     ownerVars, WorkerPlaces
<1>5. ASSUME NEW w \in Workers, Register(w) PROVE TypeOK'
  <2>1. Append(idle, w) \in Seq(Workers)
    BY AppendKeeps DEF TypeOK
  <2> QED BY <1>5, <2>1 DEF Register, Goto, TypeOK, callVars, ownerVars,
     WorkerPlaces
<1>6. ASSUME NEW w \in Workers, Retake(w) PROVE TypeOK'
  <2>1. queue # <<>> => /\ Tail(queue) \in Seq(Calls) /\ Head(queue) \in Calls
                        /\ Len(Tail(queue)) <= Capacity
    BY TailKeeps, LenProperties, CapacityAssumption DEF TypeOK
  <2> QED BY <1>6, <2>1 DEF Retake, TakeJob, Goto, TypeOK, callVars,
     ownerVars, WorkerPlaces
<1>7. ASSUME NEW w \in Workers, Unregister(w) PROVE TypeOK'
  <2>1. \A p \in 1 .. Len(idle) : SwapRemove(idle, p) \in Seq(Workers)
    BY SwapRemoveKeeps DEF TypeOK
  <2> QED BY <1>7, <2>1 DEF Unregister, RemoveIdle, Goto, TypeOK, callVars,
     ownerVars, WorkerPlaces
<1>8. ASSUME NEW w \in Workers, RunJob(w) PROVE TypeOK'
  BY <1>8 DEF RunJob, Goto, TypeOK, JobInv, callVars, ownerVars, WorkerPlaces
<1>9. ASSUME NEW w \in Workers, SpawnWorker(w) \/ PublishThread(w) \/ Park(w)
   \/ SpuriousReturn(w) \/ UnparkNext(w) PROVE TypeOK'
  BY <1>9 DEF SpawnWorker, PublishThread, Park, SpuriousReturn, UnparkNext,
     Goto, TypeOK, workerVars, callVars, ownerVars, WorkerPlaces, CallPlaces,
     OwnerPlaces
<1>10. CASE CollectParked
  <2>1. idle' \in Seq(Workers)
    BY <1>10, EmptySeq DEF CollectParked
  <2> QED BY <1>10, <2>1 DEF CollectParked, TypeOK, workerVars, callVars,
     OwnerPlaces
<1>11. CASE HandOut \/ DropSender \/ WakeAllReturns \/ UNCHANGED vars
  BY <1>11 DEF HandOut, DropSender, WakeAllReturns, vars, TypeOK, workerVars,
     callVars, ownerVars, WorkerPlaces, CallPlaces, OwnerPlaces
<1> QED BY <1>1, <1>2, <1>3, <1>4, <1>5, <1>6, <1>7, <1>8, <1>9, <1>10, <1>11
   DEF Next, CallStep, WorkerStep, OwnerStep
------------------------------------------------------------------------------
(* Where the owner stands, and who may be around then. *)

\* Every step keeps the owner's place consistent with callers and workers.
LEMMA OwnerInvStep ==
  TypeOK /\ OwnerInv /\ [Next]_vars => OwnerInv'
<1> SUFFICES ASSUME TypeOK, OwnerInv, [Next]_vars
             PROVE  OwnerInv'
  OBVIOUS
<1>1. ASSUME NEW c \in Calls, TrySend(c) \/ SendFull(c) \/ ReadIdle(c) \/
   PopIdle(c) \/ Unpark(c) PROVE OwnerInv'
  BY <1>1 DEF TrySend, SendFull, ReadIdle, PopIdle, Unpark, OwnerInv,
     Submitting, TypeOK, workerVars, callVars, ownerVars
<1>2. ASSUME NEW w \in Workers, FirstTake(w) PROVE OwnerInv'
  <2>1. queue' # <<>> => queue # <<>>
    BY <1>2 DEF FirstTake, TakeJob, Goto
  <2> QED BY <1>2, <2>1 DEF FirstTake, TakeJob, Goto, OwnerInv, Submitting,
     TypeOK, callVars, ownerVars
<1>3. ASSUME NEW w \in Workers, Retake(w) PROVE OwnerInv'
  <2>1. queue' # <<>> => queue # <<>>
    BY <1>3 DEF Retake, TakeJob, Goto
  <2> QED BY <1>3, <2>1 DEF Retake, TakeJob, Goto, OwnerInv, Submitting,
     TypeOK, callVars, ownerVars
<1>4. ASSUME NEW w \in Workers, SpawnWorker(w) \/ PublishThread(w) \/
   Register(w) \/ Unregister(w) \/ Park(w) \/ RunJob(w) \/ SpuriousReturn(w)
   \/ UnparkNext(w) PROVE OwnerInv'
  BY <1>4 DEF SpawnWorker, PublishThread, Register, Unregister, Park, RunJob,
     SpuriousReturn, UnparkNext, Goto, RemoveIdle, OwnerInv, Submitting,
     TypeOK, workerVars, callVars, ownerVars
<1>5. CASE HandOut \/ DropSender \/ CollectParked \/ WakeAllReturns \/
   UNCHANGED vars
  BY <1>5 DEF HandOut, DropSender, CollectParked, WakeAllReturns, Published,
     vars, OwnerInv, Submitting, TypeOK, workerVars, callVars, ownerVars
<1> QED BY <1>1, <1>2, <1>3, <1>4, <1>5 DEF Next, CallStep, WorkerStep,
   OwnerStep
------------------------------------------------------------------------------
(* A caller about to unpark holds a thread. *)

\* Every step keeps a caller about to unpark in possession of a thread.
LEMMA TargetInvStep ==
  TypeOK /\ TargetInv /\ [Next]_vars => TargetInv'
<1> SUFFICES ASSUME TypeOK, TargetInv, [Next]_vars
             PROVE  TargetInv'
  OBVIOUS
<1>1. ASSUME NEW c \in Calls, PopIdle(c) PROVE TargetInv'
  <2>1. idle # <<>> => idle[Len(idle)] \in Workers
    BY AllButLastKeeps DEF TypeOK
  <2> QED BY <1>1, <2>1 DEF PopIdle, TargetInv, TypeOK, workerVars, ownerVars
<1>2. ASSUME NEW c \in Calls, TrySend(c) \/ SendFull(c) \/ ReadIdle(c) \/
   Unpark(c) PROVE TargetInv'
  BY <1>2 DEF TrySend, SendFull, ReadIdle, Unpark, TargetInv, TypeOK,
     workerVars, callVars, ownerVars
<1>3. ASSUME NEW w \in Workers, SpawnWorker(w) \/ PublishThread(w) \/
   FirstTake(w) \/ Register(w) \/ Retake(w) \/ Unregister(w) \/ Park(w) \/
   RunJob(w) \/ SpuriousReturn(w) \/ UnparkNext(w) PROVE TargetInv'
  BY <1>3 DEF SpawnWorker, PublishThread, FirstTake, Register, Retake,
     Unregister, Park, RunJob, SpuriousReturn, UnparkNext, Goto, TakeJob,
     RemoveIdle, TargetInv, TypeOK, workerVars, callVars, ownerVars
<1>4. CASE HandOut \/ DropSender \/ CollectParked \/ WakeAllReturns \/
   UNCHANGED vars
  BY <1>4 DEF HandOut, DropSender, CollectParked, WakeAllReturns, Published,
     vars, TargetInv, TypeOK, workerVars, callVars, ownerVars
<1> QED BY <1>1, <1>2, <1>3, <1>4 DEF Next, CallStep, WorkerStep, OwnerStep
------------------------------------------------------------------------------
(* The heart of the protocol: registering before the second try. *)

\* Every step keeps a registered worker reachable by a waker.
LEMMA WakeInvStep ==
  TypeOK /\ WakeInv /\ [Next]_vars => WakeInv'
<1> SUFFICES ASSUME TypeOK, WakeInv, [Next]_vars
             PROVE  WakeInv'
  OBVIOUS
<1>1. ASSUME NEW c \in Calls, PopIdle(c) PROVE WakeInv'
  <2>1. CASE idle = <<>>
    BY <1>1, <2>1 DEF PopIdle, WakeInv, WakeUpDue, TypeOK, workerVars,
       ownerVars
  <2>2. CASE idle # <<>>
    <3>1. \A x \in Range(idle) : x = target'[c] \/ x \in Range(idle')
      BY <1>1, <2>2, AllButLastKeeps DEF PopIdle, TypeOK
    <3>2. cpc'[c] = "unpark" /\ \A d \in Calls : cpc[d] = "unpark" =>
            cpc'[d] = "unpark" /\ target'[d] = target[d]
      BY <1>1, <2>2 DEF PopIdle, TypeOK
    <3> QED BY <1>1, <3>1, <3>2 DEF PopIdle, WakeInv, WakeUpDue, TypeOK,
       workerVars, ownerVars
  <2> QED BY <2>1, <2>2
<1>2. ASSUME NEW c \in Calls, Unpark(c) PROVE WakeInv'
  <2>1. \A d \in Calls : cpc[d] = "unpark" /\ d # c =>
          cpc'[d] = "unpark" /\ target'[d] = target[d]
    BY <1>2 DEF Unpark, TypeOK
  <2>2. \A v \in Workers : v = target[c] => token'[v]
    BY <1>2 DEF Unpark, TypeOK
  <2>3. \A v \in Workers : ~token'[v] => ~token[v]
    BY <1>2 DEF Unpark, TypeOK
  <2> QED BY <1>2, <2>1, <2>2, <2>3 DEF Unpark, WakeInv, WakeUpDue, TypeOK,
     ownerVars
<1>3. ASSUME NEW c \in Calls, TrySend(c) \/ SendFull(c) \/ ReadIdle(c) PROVE
   WakeInv'
  BY <1>3 DEF TrySend, SendFull, ReadIdle, WakeInv, WakeUpDue, TypeOK,
     workerVars, callVars, ownerVars
<1>4. ASSUME NEW w \in Workers, Register(w) PROVE WakeInv'
  <2>1. Range(idle) \cup {w} \subseteq Range(idle')
    BY <1>4, AppendKeeps DEF Register, TypeOK
  <2> QED BY <1>4, <2>1 DEF Register, Goto, WakeInv, WakeUpDue, TypeOK,
     callVars, ownerVars
<1>5. ASSUME NEW w \in Workers, Unregister(w) PROVE WakeInv'
  <2>1. \A x \in Range(idle) : x = w \/ x \in Range(idle')
    BY <1>5, SwapRemoveKeeps DEF Unregister, RemoveIdle, TypeOK
  <2>2. wpc'[w] \notin {"retake", "park"}
    BY <1>5 DEF Unregister, Goto, TypeOK
  <2>3. \A v \in Workers : v # w => wpc'[v] = wpc[v]
    BY <1>5 DEF Unregister, Goto, TypeOK
  <2> QED BY <1>5, <2>1, <2>2, <2>3 DEF Unregister, WakeInv, WakeUpDue,
     TypeOK, callVars, ownerVars
<1>6. ASSUME NEW w \in Workers, SpawnWorker(w) \/ PublishThread(w) \/
   FirstTake(w) \/ Retake(w) \/ Park(w) \/ RunJob(w) \/ SpuriousReturn(w) \/
   UnparkNext(w) PROVE WakeInv'
  BY <1>6 DEF SpawnWorker, PublishThread, FirstTake, Retake, Park, RunJob,
     SpuriousReturn, UnparkNext, Goto, TakeJob, WakeInv, WakeUpDue, TypeOK,
     workerVars, callVars, ownerVars
<1>7. CASE CollectParked
  <2>1. ASSUME NEW v \in Workers, wpc'[v] \in {"retake", "park"}
        PROVE  v \in toWake'
    BY <1>7, <2>1 DEF CollectParked, Published, workerVars
  <2> QED BY <1>7, <2>1 DEF CollectParked, WakeInv, WakeUpDue, workerVars,
     callVars
<1>8. CASE HandOut \/ DropSender \/ WakeAllReturns \/ UNCHANGED vars
  BY <1>8 DEF HandOut, DropSender, WakeAllReturns, vars, WakeInv, WakeUpDue,
     TypeOK, workerVars, callVars, ownerVars
<1> QED BY <1>1, <1>2, <1>3, <1>4, <1>5, <1>6, <1>7, <1>8 DEF Next, CallStep,
   WorkerStep, OwnerStep
------------------------------------------------------------------------------
(* Nobody falls asleep after the disconnect. *)

\* Every step keeps sleepers reachable after the disconnect.
LEMMA SleeperInvStep ==
  TypeOK /\ OwnerInv /\ SleeperInv /\ [Next]_vars => SleeperInv'
<1> SUFFICES ASSUME TypeOK, OwnerInv, SleeperInv, [Next]_vars
             PROVE  SleeperInv'
  OBVIOUS
<1>1. ASSUME NEW c \in Calls, TrySend(c) \/ SendFull(c) \/ ReadIdle(c) \/
   PopIdle(c) \/ Unpark(c) PROVE SleeperInv'
  BY <1>1 DEF TrySend, SendFull, ReadIdle, PopIdle, Unpark, SleeperInv,
     Asleep, OwnerInv, TypeOK, workerVars, callVars, ownerVars
<1>2. ASSUME NEW w \in Workers, SpawnWorker(w) \/ PublishThread(w) \/
   FirstTake(w) \/ Register(w) \/ Retake(w) \/ Unregister(w) \/ Park(w) \/
   RunJob(w) \/ SpuriousReturn(w) \/ UnparkNext(w) PROVE SleeperInv'
  BY <1>2 DEF SpawnWorker, PublishThread, FirstTake, Register, Retake,
     Unregister, Park, RunJob, SpuriousReturn, UnparkNext, Goto, TakeJob,
     RemoveIdle, SleeperInv, Asleep, OwnerInv, TypeOK, workerVars, callVars,
     ownerVars
<1>3. CASE HandOut \/ DropSender \/ CollectParked \/ WakeAllReturns \/
   UNCHANGED vars
  BY <1>3 DEF HandOut, DropSender, CollectParked, WakeAllReturns, Published,
     vars, SleeperInv, Asleep, OwnerInv, TypeOK, workerVars, callVars,
     ownerVars
<1> QED BY <1>1, <1>2, <1>3 DEF Next, CallStep, WorkerStep, OwnerStep
------------------------------------------------------------------------------
(* Which jobs are held, and that a caller that did not submit has none. *)

\* Every step keeps jobs and their holders in agreement.
LEMMA JobInvStep ==
  TypeOK /\ JobInv /\ [Next]_vars => JobInv'
<1> SUFFICES ASSUME TypeOK, JobInv, [Next]_vars
             PROVE  JobInv'
  OBVIOUS
<1>1. ASSUME NEW c \in Calls, TrySend(c) PROVE JobInv'
  <2>1. Range(queue') = Range(queue) \cup {c}
    BY <1>1, AppendKeeps DEF TrySend, TypeOK
  <2>2. \A d \in Calls : cpc'[d] \in {"new", "refused"} => d # c /\ cpc[d] = cpc'[d]
    BY <1>1 DEF TrySend, TypeOK
  <2> QED BY <1>1, <2>1, <2>2 DEF TrySend, JobInv, workerVars
<1>2. ASSUME NEW c \in Calls, SendFull(c) \/ ReadIdle(c) \/ PopIdle(c) \/
   Unpark(c) PROVE JobInv'
  BY <1>2 DEF SendFull, ReadIdle, PopIdle, Unpark, JobInv, TypeOK,
     workerVars, callVars, ownerVars
<1>3. ASSUME NEW w \in Workers, FirstTake(w) PROVE JobInv'
  <2>1. CASE queue # <<>>
    <3>1. /\ Range(queue') \subseteq Range(queue) /\ Head(queue) \in Range(queue)
          /\ Head(queue) \in Calls
      BY <1>3, <2>1, TailKeeps DEF FirstTake, TakeJob, TypeOK
    <3>2. job' = [job EXCEPT ![w] = Head(queue)] /\ wpc' = [wpc EXCEPT ![w] = "run"]
      BY <1>3, <2>1 DEF FirstTake, TakeJob, Goto
    <3>3. Range(job') \subseteq Range(job) \cup {Head(queue)}
      BY <3>2 DEF Range, TypeOK
    <3>4. \A v \in Workers : job'[v] # None <=> wpc'[v] \in {"claimed", "run"}
      BY <3>1, <3>2, NoneAssumption DEF JobInv, TypeOK
    <3> QED BY <1>3, <2>1, <3>1, <3>3, <3>4 DEF FirstTake, TakeJob, JobInv,
       callVars
  <2>2. CASE queue = <<>>
    <3>1. /\ UNCHANGED <<queue, job, done, cpc>> /\ wpc[w] = "take"
          /\ \E p \in {"exit", "register"} : wpc' = [wpc EXCEPT ![w] = p]
      BY <1>3, <2>2 DEF FirstTake, TakeJob, Goto, callVars
    <3> QED BY <3>1 DEF JobInv, TypeOK
  <2> QED BY <2>1, <2>2
<1>4. ASSUME NEW w \in Workers, Retake(w) PROVE JobInv'
  <2>1. CASE queue # <<>>
    <3>1. /\ Range(queue') \subseteq Range(queue) /\ Head(queue) \in Range(queue)
          /\ Head(queue) \in Calls
      BY <1>4, <2>1, TailKeeps DEF Retake, TakeJob, TypeOK
    <3>2. job' = [job EXCEPT ![w] = Head(queue)] /\ wpc' = [wpc EXCEPT ![w] = "claimed"]
      BY <1>4, <2>1 DEF Retake, TakeJob, Goto
    <3>3. Range(job') \subseteq Range(job) \cup {Head(queue)}
      BY <3>2 DEF Range, TypeOK
    <3>4. \A v \in Workers : job'[v] # None <=> wpc'[v] \in {"claimed", "run"}
      BY <3>1, <3>2, NoneAssumption DEF JobInv, TypeOK
    <3> QED BY <1>4, <2>1, <3>1, <3>3, <3>4 DEF Retake, TakeJob, JobInv,
       callVars
  <2>2. CASE queue = <<>>
    <3>1. /\ UNCHANGED <<queue, job, done, cpc>> /\ wpc[w] = "retake"
          /\ \E p \in {"leaving", "park"} : wpc' = [wpc EXCEPT ![w] = p]
      BY <1>4, <2>2 DEF Retake, TakeJob, Goto, callVars
    <3> QED BY <3>1 DEF JobInv, TypeOK
  <2> QED BY <2>1, <2>2
<1>5. ASSUME NEW w \in Workers, RunJob(w) PROVE JobInv'
  <2>1. job' = [job EXCEPT ![w] = None] /\ wpc' = [wpc EXCEPT ![w] = "take"]
    BY <1>5 DEF RunJob, Goto
  <2>2. Range(job') \subseteq Range(job) \cup {None} /\ job[w] \in Range(job)
    BY <2>1 DEF Range, TypeOK
  <2>3. \A v \in Workers : job'[v] # None <=> wpc'[v] \in {"claimed", "run"}
    BY <2>1 DEF JobInv, TypeOK
  <2> QED BY <1>5, <2>2, <2>3, NoneAssumption DEF RunJob, JobInv, callVars
<1>6. ASSUME NEW w \in Workers, SpawnWorker(w) \/ PublishThread(w) \/
   Register(w) \/ Unregister(w) \/ Park(w) \/ SpuriousReturn(w) \/
   UnparkNext(w) PROVE JobInv'
  BY <1>6 DEF SpawnWorker, PublishThread, Register, Unregister, Park,
     SpuriousReturn, UnparkNext, Goto, RemoveIdle, JobInv, TypeOK,
     workerVars, callVars, ownerVars
<1>7. CASE HandOut \/ DropSender \/ CollectParked \/ WakeAllReturns \/
   UNCHANGED vars
  BY <1>7 DEF HandOut, DropSender, CollectParked, WakeAllReturns, Published,
     vars, JobInv, TypeOK, workerVars, callVars, ownerVars
<1> QED BY <1>1, <1>2, <1>3, <1>4, <1>5, <1>6, <1>7 DEF Next, CallStep,
   WorkerStep, OwnerStep
------------------------------------------------------------------------------
(* A worker on its way out saw a drained, disconnected queue. *)

\* Every step keeps leaving workers behind a drained queue.
LEMMA DrainedStep ==
  TypeOK /\ OwnerInv /\ DrainedBeforeExit /\ [Next]_vars => DrainedBeforeExit'
<1> SUFFICES ASSUME TypeOK, OwnerInv, DrainedBeforeExit, [Next]_vars
             PROVE  DrainedBeforeExit'
  OBVIOUS
<1>1. ASSUME NEW c \in Calls, TrySend(c) \/ SendFull(c) \/ ReadIdle(c) \/
   PopIdle(c) \/ Unpark(c) PROVE DrainedBeforeExit'
  BY <1>1 DEF TrySend, SendFull, ReadIdle, PopIdle, Unpark,
     DrainedBeforeExit, OwnerInv, TypeOK, workerVars, callVars, ownerVars
<1>2. ASSUME NEW w \in Workers, SpawnWorker(w) \/ PublishThread(w) \/
   FirstTake(w) \/ Register(w) \/ Retake(w) \/ Unregister(w) \/ Park(w) \/
   RunJob(w) \/ SpuriousReturn(w) \/ UnparkNext(w) PROVE DrainedBeforeExit'
  BY <1>2 DEF SpawnWorker, PublishThread, FirstTake, Register, Retake,
     Unregister, Park, RunJob, SpuriousReturn, UnparkNext, Goto, TakeJob,
     RemoveIdle, DrainedBeforeExit, OwnerInv, TypeOK, workerVars, callVars,
     ownerVars
<1>3. CASE HandOut \/ DropSender \/ CollectParked \/ WakeAllReturns \/
   UNCHANGED vars
  BY <1>3 DEF HandOut, DropSender, CollectParked, WakeAllReturns, Published,
     vars, DrainedBeforeExit, OwnerInv, TypeOK, workerVars, callVars,
     ownerVars
<1> QED BY <1>1, <1>2, <1>3 DEF Next, CallStep, WorkerStep, OwnerStep
------------------------------------------------------------------------------
(* No job is stranded: the sleeping workers of WakeInv have a waker left. *)

\* Every step leaves a queued job with somebody to run it.
LEMMA NoLostWakeupStep ==
  /\ TypeOK /\ OwnerInv /\ TargetInv /\ WakeInv /\ SleeperInv
  /\ DrainedBeforeExit /\ NoLostWakeup /\ [Next]_vars
  => NoLostWakeup'
<1> SUFFICES ASSUME TypeOK, OwnerInv, TargetInv, WakeInv, SleeperInv,
                    DrainedBeforeExit, NoLostWakeup, [Next]_vars
             PROVE  NoLostWakeup'
  OBVIOUS
<1>1. ASSUME NEW c \in Calls, TrySend(c) PROVE NoLostWakeup'
  <2>1. Submitting(c)'
    BY <1>1 DEF TrySend, Submitting, TypeOK
  <2> QED BY <2>1 DEF NoLostWakeup
<1>2. ASSUME NEW c \in Calls, ReadIdle(c) PROVE NoLostWakeup'
  <2> SUFFICES ASSUME queue # <<>>, idle = <<>>, \A v \in Workers : Asleep(v)
               PROVE  \E d \in Calls : d # c /\ Submitting(d)
    <3>1. ASSUME NEW v \in Workers PROVE wpc[v] \notin {"unborn", "exit"} \/ queue = <<>>
      BY DEF OwnerInv, DrainedBeforeExit
    <3>2. CASE idle # <<>>
      BY <1>2, <3>2 DEF ReadIdle, NoLostWakeup, Submitting, TypeOK
    <3>3. CASE idle = <<>> /\ queue # <<>>
      <4>1. \A v \in Workers : Asleep(v)' <=> Asleep(v)
        BY <1>2 DEF ReadIdle, Asleep, workerVars
      <4>2. \A d \in Calls : d # c => cpc'[d] = cpc[d]
        BY <1>2 DEF ReadIdle, TypeOK
      <4> QED BY <1>2, <3>1, <3>3, <4>1, <4>2 DEF ReadIdle, NoLostWakeup,
         Submitting, workerVars
    <3>4. CASE queue = <<>>
      BY <1>2, <3>4 DEF ReadIdle, NoLostWakeup
    <3> QED BY <3>2, <3>3, <3>4
  <2>1. PICK v \in Workers : Asleep(v)
    BY WorkersAssumption
  <2>2. owner = "ready"
    BY <1>2 DEF ReadIdle, OwnerInv, Submitting
  <2>3. v \notin Range(idle)
    BY DEF Range
  <2> QED BY <1>2, <2>1, <2>2, <2>3 DEF ReadIdle, WakeInv, WakeUpDue, Asleep,
     Submitting
<1>3. ASSUME NEW c \in Calls, PopIdle(c) PROVE NoLostWakeup'
  <2> SUFFICES ASSUME queue # <<>>, idle = <<>>, \A v \in Workers : Asleep(v)
               PROVE  \E d \in Calls : d # c /\ Submitting(d)
    <3>1. ASSUME NEW v \in Workers PROVE wpc[v] \notin {"unborn", "exit"} \/ queue = <<>>
      BY DEF OwnerInv, DrainedBeforeExit
    <3>2. CASE idle # <<>>
      BY <1>3, <3>2 DEF PopIdle, NoLostWakeup, Submitting, TypeOK
    <3>3. CASE idle = <<>> /\ queue # <<>>
      <4>1. \A v \in Workers : Asleep(v)' <=> Asleep(v)
        BY <1>3 DEF PopIdle, Asleep, workerVars
      <4>2. \A d \in Calls : d # c => cpc'[d] = cpc[d]
        BY <1>3 DEF PopIdle, TypeOK
      <4> QED BY <1>3, <3>1, <3>3, <4>1, <4>2 DEF PopIdle, NoLostWakeup,
         Submitting, workerVars
    <3>4. CASE queue = <<>>
      BY <1>3, <3>4 DEF PopIdle, NoLostWakeup
    <3> QED BY <3>2, <3>3, <3>4
  <2>1. PICK v \in Workers : Asleep(v)
    BY WorkersAssumption
  <2>2. owner = "ready"
    BY <1>3 DEF PopIdle, OwnerInv, Submitting
  <2>3. v \notin Range(idle)
    BY DEF Range
  <2> QED BY <1>3, <2>1, <2>2, <2>3 DEF PopIdle, WakeInv, WakeUpDue, Asleep,
     Submitting
<1>4. ASSUME NEW c \in Calls, Unpark(c) PROVE NoLostWakeup'
  <2>1. target[c] \in Workers /\ token'[target[c]]
    BY <1>4 DEF Unpark, TargetInv, TypeOK
  <2>2. queue # <<>> => wpc[target[c]] \notin {"unborn", "exit"}
    BY <2>1 DEF OwnerInv, DrainedBeforeExit
  <2> QED BY <1>4, <2>1, <2>2 DEF Unpark, NoLostWakeup, Asleep
<1>5. ASSUME NEW c \in Calls, SendFull(c) PROVE NoLostWakeup'
  BY <1>5 DEF SendFull, NoLostWakeup, Submitting, Asleep, TypeOK, workerVars,
     callVars, ownerVars
<1>6. ASSUME NEW w \in Workers, SpawnWorker(w) PROVE NoLostWakeup'
  <2>1. wpc'[w] = "boot"
    BY <1>6 DEF SpawnWorker, Goto, TypeOK
  <2> QED BY <2>1 DEF NoLostWakeup, Asleep
<1>7. ASSUME NEW w \in Workers, PublishThread(w) PROVE NoLostWakeup'
  <2>1. wpc'[w] = "take"
    BY <1>7 DEF PublishThread, Goto, TypeOK
  <2> QED BY <2>1 DEF NoLostWakeup, Asleep
<1>8. ASSUME NEW w \in Workers, FirstTake(w) PROVE NoLostWakeup'
  <2>1. wpc'[w] \in {"run", "exit", "register"} /\ (wpc'[w] = "exit" => queue' = <<>>)
    BY <1>8 DEF FirstTake, TakeJob, Goto, TypeOK
  <2> QED BY <2>1 DEF NoLostWakeup, Asleep
<1>9. ASSUME NEW w \in Workers, Register(w) PROVE NoLostWakeup'
  <2>1. wpc'[w] = "retake"
    BY <1>9 DEF Register, Goto, TypeOK
  <2> QED BY <2>1 DEF NoLostWakeup, Asleep
<1>10. ASSUME NEW w \in Workers, Retake(w) PROVE NoLostWakeup'
  <2>1. /\ wpc'[w] \in {"claimed", "leaving", "park"}
        /\ wpc'[w] = "park" => queue' = <<>>
    BY <1>10 DEF Retake, TakeJob, Goto, TypeOK
  <2> QED BY <2>1 DEF NoLostWakeup, Asleep
<1>11. ASSUME NEW w \in Workers, Unregister(w) PROVE NoLostWakeup'
  <2>1. wpc'[w] \in {"run", "take"} \/ (wpc'[w] = "exit" /\ queue' = <<>>)
    BY <1>11 DEF Unregister, Goto, TypeOK, DrainedBeforeExit
  <2> QED BY <2>1 DEF NoLostWakeup, Asleep
<1>12. ASSUME NEW w \in Workers, Park(w) PROVE NoLostWakeup'
  <2>1. wpc'[w] = "woken"
    BY <1>12 DEF Park, Goto, TypeOK
  <2> QED BY <2>1 DEF NoLostWakeup, Asleep
<1>13. ASSUME NEW w \in Workers, RunJob(w) PROVE NoLostWakeup'
  <2>1. wpc'[w] = "take"
    BY <1>13 DEF RunJob, Goto, TypeOK
  <2> QED BY <2>1 DEF NoLostWakeup, Asleep
<1>14. ASSUME NEW w \in Workers, SpuriousReturn(w) PROVE NoLostWakeup'
  <2>1. wpc'[w] = "woken"
    BY <1>14 DEF SpuriousReturn, Goto, TypeOK
  <2> QED BY <2>1 DEF NoLostWakeup, Asleep
<1>15. ASSUME NEW w \in Workers, UnparkNext(w) PROVE NoLostWakeup'
  BY <1>15 DEF UnparkNext, NoLostWakeup
<1>16. CASE HandOut
  BY <1>16 DEF HandOut, NoLostWakeup, Asleep, Submitting, workerVars,
     callVars
<1>17. CASE DropSender
  BY <1>17 DEF DropSender, NoLostWakeup
<1>18. CASE CollectParked
  BY <1>18 DEF CollectParked, NoLostWakeup
<1>19. CASE WakeAllReturns
  <2>1. PICK v \in Workers : TRUE
    BY WorkersAssumption
  <2>2. queue # <<>> => wpc[v] \notin {"unborn", "exit"}
    BY DEF OwnerInv, DrainedBeforeExit
  <2>3. ~Asleep(v)
    BY <1>19 DEF WakeAllReturns, SleeperInv, OwnerInv
  <2> QED BY <1>19, <2>2, <2>3 DEF WakeAllReturns, NoLostWakeup, Asleep,
     workerVars
<1>20. CASE UNCHANGED vars
  BY <1>20 DEF vars, NoLostWakeup, Submitting, Asleep, TypeOK, workerVars,
     callVars, ownerVars
<1> QED BY <1>1, <1>2, <1>3, <1>4, <1>5, <1>6, <1>7, <1>8, <1>9, <1>10,
   <1>11, <1>12, <1>13, <1>14, <1>15, <1>16, <1>17, <1>18, <1>19, <1>20 DEF
   Next, CallStep, WorkerStep, OwnerStep
------------------------------------------------------------------------------
(* The theorems *)

\* The inductive invariant holds when the pool is built.
LEMMA InitIInv == Init => IInv
<1> SUFFICES ASSUME Init PROVE IInv
  OBVIOUS
<1>1. TypeOK
  BY EmptySeq, CapacityAssumption, NoneAssumption
  DEF Init, TypeOK, WorkerPlaces, CallPlaces, OwnerPlaces
<1>2. OwnerInv /\ TargetInv /\ WakeInv /\ SleeperInv
  BY DEF Init, OwnerInv, TargetInv, WakeInv, SleeperInv, Submitting, Asleep
<1>3. JobInv
  <2>1. Range(queue) = {} /\ Range(job) \subseteq {None}
    BY DEF Init, Range
  <2> QED BY <2>1, NoneAssumption DEF Init, JobInv
<1>4. DrainedBeforeExit /\ NoLostWakeup
  BY DEF Init, DrainedBeforeExit, NoLostWakeup
<1> QED BY <1>1, <1>2, <1>3, <1>4 DEF IInv

\* The inductive invariant is inductive.
LEMMA StepIInv == IInv /\ [Next]_vars => IInv'
BY TypeStep, OwnerInvStep, TargetInvStep, WakeInvStep, SleeperInvStep,
   JobInvStep, DrainedStep, NoLostWakeupStep DEF IInv

\* The inductive invariant holds in every behaviour.
LEMMA AlwaysIInv == Spec => []IInv
BY InitIInv, StepIInv, PTL DEF Spec

\* Every variable keeps its type and the queue its bound.
THEOREM TypeCorrect == Spec => []TypeOK
<1>1. IInv => TypeOK
  BY DEF IInv
<1> QED BY <1>1, AlwaysIInv, PTL

\* wake_one and run_worker never leave a job behind with everybody asleep,
\* whatever the number of workers, callers and the capacity.
THEOREM JobsAreNotStranded == Spec => []NoLostWakeup
<1>1. IInv => NoLostWakeup
  BY DEF IInv
<1> QED BY <1>1, AlwaysIInv, PTL

\* PoolHandle::drop: no worker sleeps once wake_all has returned.
THEOREM ShutdownWakesEverybody == Spec => []NoSleeperAfterShutdown
<1>1. IInv => NoSleeperAfterShutdown
  BY DEF IInv, SleeperInv, OwnerInv, NoSleeperAfterShutdown
<1> QED BY <1>1, AlwaysIInv, PTL

\* Nobody is stranded: neither a queued job nor, after the drop, a worker.
THEOREM StrandsNobody == Spec => []NobodyIsStranded
BY JobsAreNotStranded, ShutdownWakesEverybody, PTL DEF NobodyIsStranded

\* A worker leaves only a drained and disconnected queue.
THEOREM WorkersDrainFirst == Spec => []DrainedBeforeExit
<1>1. IInv => DrainedBeforeExit
  BY DEF IInv
<1> QED BY <1>1, AlwaysIInv, PTL

------------------------------------------------------------------------------
(* Refinement: every step of the pool is a step of JobPool or stutters. *)

\* The pool starts as an empty FIFO.
LEMMA PromiseInit == Init => Promise!Init
BY DEF Init, Promise!Init

\* A step of the pool is a step of the FIFO or changes nothing of it.
LEMMA PromiseStep == IInv /\ [Next]_vars => [Promise!Next]_Promise!vars
<1> SUFFICES ASSUME IInv, [Next]_vars PROVE [Promise!Next]_Promise!vars
  OBVIOUS
<1> DEFINE Refused == {c \in Calls : cpc[c] = "refused"}
<1> DEFINE Same == UNCHANGED <<queue, job, done, sender, Refused>>
<1>0. TypeOK /\ OwnerInv /\ JobInv
  BY DEF IInv
<1>1. ASSUME NEW c \in Calls, TrySend(c) PROVE Promise!Accept(c)
  <2>0. Promise!Range(queue) = Range(queue) /\ Promise!Range(job) = Range(job)
    BY DEF Promise!Range, Range
  <2>1. ~Promise!Known(c) /\ sender
    BY <1>0, <1>1, <2>0 DEF TrySend, Promise!Known, JobInv, OwnerInv
  <2>2. Refused' = Refused
    BY <1>0, <1>1 DEF TrySend, TypeOK
  <2> QED BY <1>1, <2>1, <2>2 DEF TrySend, Promise!Accept, workerVars, ownerVars
<1>2. ASSUME NEW c \in Calls, SendFull(c) PROVE Promise!Refuse(c)
  <2>0. Promise!Range(queue) = Range(queue) /\ Promise!Range(job) = Range(job)
    BY DEF Promise!Range, Range
  <2>1. ~Promise!Known(c) /\ sender
    BY <1>0, <1>2, <2>0 DEF SendFull, Promise!Known, JobInv, OwnerInv
  <2>2. Refused' = Refused \cup {c}
    BY <1>0, <1>2 DEF SendFull, TypeOK
  <2> QED BY <1>2, <2>1, <2>2 DEF SendFull, Promise!Refuse, workerVars, ownerVars
<1>3. ASSUME NEW c \in Calls, CallStep(c) PROVE Same
  <2>1. Refused' = Refused
    BY <1>0, <1>3 DEF CallStep, ReadIdle, PopIdle, Unpark, TypeOK
  <2> QED
    BY <1>3, <2>1
    DEF CallStep, ReadIdle, PopIdle, Unpark, workerVars, ownerVars
<1>4. ASSUME NEW w \in Workers, FirstTake(w) \/ Retake(w)
      PROVE  Promise!Begin(w) \/ Same
  <2>1. job[w] = None
    BY <1>0, <1>4 DEF FirstTake, Retake, TakeJob, Goto, JobInv
  <2>2. Refused' = Refused
    BY <1>4 DEF FirstTake, Retake, TakeJob, callVars
  <2> QED
    BY <1>4, <2>1, <2>2
    DEF FirstTake, Retake, TakeJob, Promise!Begin, callVars, ownerVars
<1>5. ASSUME NEW w \in Workers, RunJob(w) PROVE Promise!Finish(w)
  BY <1>0, <1>5
  DEF RunJob, Goto, Promise!Finish, JobInv, callVars, ownerVars
<1>6. ASSUME NEW w \in Workers,
             \/ SpawnWorker(w) \/ PublishThread(w) \/ Register(w)
             \/ Unregister(w) \/ Park(w) \/ SpuriousReturn(w) \/ UnparkNext(w)
      PROVE  Same
  BY <1>6
  DEF SpawnWorker, PublishThread, Register, Unregister, Park, SpuriousReturn,
      UnparkNext, callVars, ownerVars
<1>7. CASE DropSender
  BY <1>0, <1>7 DEF DropSender, Promise!Next, Promise!Close, OwnerInv,
     workerVars, callVars
<1>8. CASE HandOut \/ CollectParked \/ WakeAllReturns
  BY <1>8
  DEF HandOut, CollectParked, WakeAllReturns, Promise!vars, workerVars, callVars
<1>9. CASE UNCHANGED vars
  BY <1>9 DEF vars, workerVars, callVars, ownerVars, Promise!vars
<1>10. Same => UNCHANGED Promise!vars
  BY DEF Promise!vars
<1> HIDE DEF Same
<1> QED
  BY <1>1, <1>2, <1>3, <1>4, <1>5, <1>6, <1>7, <1>8, <1>9, <1>10
  DEF Next, WorkerStep, OwnerStep, Promise!Next

\* The parking protocol implements a bounded first-in-first-out pool that
\* executes each accepted job once.
THEOREM PoolKeepsItsPromise == Spec => ImplementsJobPool
BY AlwaysIInv, PromiseInit, PromiseStep, PTL
DEF Spec, ImplementsJobPool, Promise!Spec
==============================================================================
