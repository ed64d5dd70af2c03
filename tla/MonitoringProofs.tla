------------------------- MODULE MonitoringProofs --------------------------
(***************************************************************************)
(* Proofs about Scheduler, for every set of checks and workers; about      *)
(* CheckStore, for any checks, thresholds and number of results; and about *)
(* Monitoring, where the scheduler, operators, the clock and restarts work *)
(* on one store.                                                           *)
(*                                                                         *)
(* The scheduler's invariant says that a check is in one place at a time   *)
(* and that the in-flight map is exact.  The store's is the conjunction of *)
(* the types, the counters' relation to the history and the status's: the  *)
(* last needs the counters, since NextRow compares them, and not the       *)
(* history, with the thresholds.  Both carry over to the whole, every step *)
(* of which is one of the scheduler's, one of the store's transactions or  *)
(* none.  A transaction reads its row in an earlier step than the one in   *)
(* which it writes, and the row is still the same because there is one     *)
(* connection.  That scheduled results are stored in the order of their    *)
(* timestamps is a property of the whole: it rests on the scheduler        *)
(* running a check in one place at a time.  So does their distance: a      *)
(* check that is listed or on its way may be stored, one that is both      *)
(* twice.                                                                  *)
(***************************************************************************)
EXTENDS Monitoring, SequenceTheorems, TLAPS

-----------------------------------------------------------------------------
(* The scheduler *)

\* How the dispatcher's position determines the rest of its state.
ControlOK ==
    /\ loop = "send" <=> sending # None
    /\ loop \notin {"next", "send"} => batch = {}
    /\ closed <=> loop \in {"drain", "returned"}
    /\ \A w \in Workers : wpc[w] = "exited" => closed /\ jobs = <<>>
    /\ loop = "returned" => \A w \in Workers : wpc[w] = "exited"

\* The inductive invariant.
IInv == TypeOK /\ ControlOK /\ OnePlace /\ InFlightExact

\* None is none of the checks: the checks are numbers.
LEMMA NoneIsNoCheck == None \notin Checks
BY ChecksAssumption, NoneAssumption

-----------------------------------------------------------------------------
(* The channel as a sequence without repetitions *)

Elements(s)  == {s[i] : i \in DOMAIN s}
Distinct(s)  == \A i, j \in DOMAIN s : s[i] = s[j] => i = j

\* An empty queue has no positions.
LEMMA EmptyDomain == DOMAIN <<>> = {}
<1> DEFINE e == <<>>
<1>1. e \in Seq(Nat) /\ Len(e) = 0
  BY EmptySeq
<1>2. DOMAIN e = 1..0
  <2> HIDE DEF e
  <2> QED
    BY <1>1, LenProperties
<1> QED
  BY <1>2

\* Sending adds exactly the sent element to the channel.
LEMMA ElementsAppend ==
    ASSUME NEW S, NEW s \in Seq(S), NEW e \in S
    PROVE  /\ Append(s, e) \in Seq(S)
           /\ Append(s, e) # <<>>
           /\ Elements(Append(s, e)) = Elements(s) \cup {e}
           /\ Distinct(s) /\ e \notin Elements(s) => Distinct(Append(s, e))
<1>1. /\ Append(s, e) \in Seq(S)
      /\ Append(s, e) # <<>>
      /\ Len(Append(s, e)) = Len(s) + 1
      /\ \A i \in 1..Len(s) : Append(s, e)[i] = s[i]
      /\ Append(s, e)[Len(s) + 1] = e
  BY AppendProperties
<1>2. /\ DOMAIN s = 1..Len(s) /\ Len(s) \in Nat
      /\ DOMAIN Append(s, e) = 1..(Len(s) + 1)
  BY <1>1, LenProperties
<1>3. Elements(Append(s, e)) = Elements(s) \cup {e}
  BY <1>1, <1>2 DEF Elements
<1>4. ASSUME Distinct(s), e \notin Elements(s) PROVE Distinct(Append(s, e))
  BY <1>1, <1>2, <1>4 DEF Elements, Distinct
<1> QED
  BY <1>1, <1>3, <1>4

\* Receiving removes exactly the received element.
LEMMA ElementsTail ==
    ASSUME NEW S, NEW s \in Seq(S), s # <<>>, Distinct(s)
    PROVE  /\ Head(s) \in S /\ Head(s) \in Elements(s)
           /\ Tail(s) \in Seq(S)
           /\ Elements(Tail(s)) = Elements(s) \ {Head(s)}
           /\ Distinct(Tail(s))
<1>1. /\ Head(s) \in S
      /\ Tail(s) \in Seq(S)
      /\ Len(Tail(s)) = Len(s) - 1
      /\ \A i \in 1..Len(Tail(s)) : Tail(s)[i] = s[i + 1]
  BY HeadTailProperties
<1>2. /\ DOMAIN s = 1..Len(s) /\ Len(s) \in Nat /\ Len(s) # 0
      /\ DOMAIN Tail(s) = 1..(Len(s) - 1)
      /\ Head(s) = s[1]
  BY <1>1, LenProperties, EmptySeq
<1>3. Head(s) \in Elements(s)
  BY <1>2 DEF Elements
<1>4. Elements(Tail(s)) = Elements(s) \ {Head(s)}
  <2>1. ASSUME NEW x \in Elements(Tail(s)) PROVE x \in Elements(s) \ {Head(s)}
    <3>1. PICK i \in 1..(Len(s) - 1) : x = s[i + 1]
      BY <2>1, <1>1, <1>2 DEF Elements
    <3>2. i + 1 \in DOMAIN s /\ 1 \in DOMAIN s /\ i + 1 # 1
      BY <3>1, <1>2
    <3> QED
      BY <3>1, <3>2, <1>2 DEF Elements, Distinct
  <2>2. ASSUME NEW x \in Elements(s) \ {Head(s)} PROVE x \in Elements(Tail(s))
    <3>1. PICK i \in 1..Len(s) : x = s[i]
      BY <2>2, <1>2 DEF Elements
    <3>2. i # 1
      BY <3>1, <2>2, <1>2
    <3>3. i - 1 \in 1..Len(Tail(s)) /\ i - 1 \in DOMAIN Tail(s) /\ (i - 1) + 1 = i
      BY <3>1, <3>2, <1>1, <1>2
    <3> QED
      BY <3>1, <3>3, <1>1 DEF Elements
  <2> QED
    BY <2>1, <2>2
<1>5. Distinct(Tail(s))
  <2> SUFFICES ASSUME NEW i \in DOMAIN Tail(s), NEW j \in DOMAIN Tail(s), Tail(s)[i] = Tail(s)[j]
               PROVE  i = j
    BY DEF Distinct
  <2>1. /\ Tail(s)[i] = s[i + 1] /\ Tail(s)[j] = s[j + 1]
        /\ i \in Nat /\ j \in Nat
        /\ i + 1 \in DOMAIN s /\ j + 1 \in DOMAIN s
    BY <1>1, <1>2
  <2> QED
    BY <2>1 DEF Distinct
<1> QED
  BY <1>1, <1>3, <1>4, <1>5

\* The channel holds nothing but members of its type.
LEMMA ElementsInSet ==
    ASSUME NEW S, NEW s \in Seq(S)
    PROVE  Elements(s) \subseteq S
BY LenProperties, ElementOfSeq DEF Elements

-----------------------------------------------------------------------------
(* The scheduler's inductive invariant *)

\* Queued is the set of the channel's elements, which OnePlace keeps distinct.
LEMMA QueuedElements == Queued = Elements(jobs)
BY DEF Queued, Elements

\* The invariant holds initially.
LEMMA InitIInv == Init => IInv
<1> SUFFICES ASSUME Init PROVE IInv
  OBVIOUS
<1> USE DEF Init
<1>1. TypeOK
  BY NoneIsNoCheck, EmptySeq DEF TypeOK, Busy
<1>2. ControlOK
  BY NoneIsNoCheck DEF ControlOK
<1>a. DOMAIN jobs = {}
  BY EmptyDomain
<1>b. \A w \in Workers : ~Busy(w)
  BY DEF Busy
<1>3. Queued = {} /\ Held = {}
  BY <1>a, <1>b DEF Queued, Held
<1>4. OnePlace
  BY <1>a, <1>b, <1>3 DEF OnePlace
<1>5. InFlightExact
  BY <1>3 DEF InFlightExact
<1> QED
  BY <1>1, <1>2, <1>4, <1>5 DEF IInv

\* While the workers and the channel stay, so do the sets they define.
LEMMA PlacesUnchanged ==
    ASSUME UNCHANGED <<jobs, wpc, job>>
    PROVE  /\ Queued' = Queued /\ Held' = Held
           /\ \A w \in Workers : Busy(w)' <=> Busy(w)
BY DEF Queued, Held, Busy

\* Steps of the dispatcher that move only the dispatcher.
LEMMA DispatcherMoves ==
    ASSUME IInv,
           \/ ListDue \/ ListFails \/ EndOfBatch \/ Tick \/ Close \/ Return
           \/ \E c \in Checks : Skip(c)
    PROVE  IInv'
<1> USE DEF IInv, dispatcherVars, workerVars
<1>1. UNCHANGED <<sending, jobs, inFlight, wpc, job>>
  BY DEF ListDue, ListFails, EndOfBatch, Tick, Close, Return, Skip
<1>2. Queued' = Queued /\ Held' = Held /\ \A w \in Workers : Busy(w)' <=> Busy(w)
  BY <1>1, PlacesUnchanged
<1>3. loop # "send" /\ loop' # "send"
  BY DEF ListDue, ListFails, EndOfBatch, Tick, Close, Return, Skip
<1>4. TypeOK'
  <2>1. batch' \in SUBSET Checks
    BY DEF TypeOK, ListDue, ListFails, EndOfBatch, Tick, Close, Return, Skip, FirstDue
  <2> QED
    BY <1>1, <1>2, <2>1
    DEF TypeOK, ListDue, ListFails, EndOfBatch, Tick, Close, Return, Skip
<1>5. ControlOK'
  <2> USE DEF ControlOK, TypeOK
  <2>1. CASE ListDue
    BY <2>1, <1>1 DEF ListDue
  <2>2. CASE ListFails
    BY <2>2, <1>1 DEF ListFails
  <2>3. CASE EndOfBatch
    BY <2>3, <1>1 DEF EndOfBatch
  <2>4. CASE Tick
    BY <2>4, <1>1 DEF Tick
  <2>5. CASE Close
    BY <2>5, <1>1 DEF Close
  <2>6. CASE Return
    BY <2>6, <1>1 DEF Return
  <2>7. CASE \E c \in Checks : Skip(c)
    <3>1. loop = "next" /\ UNCHANGED <<loop, closed>>
      BY <2>7 DEF Skip
    <3> QED
      BY <3>1, <1>1
  <2> QED
    BY <2>1, <2>2, <2>3, <2>4, <2>5, <2>6, <2>7
<1>6. OnePlace'
  BY <1>1, <1>2 DEF OnePlace
<1>7. InFlightExact'
  BY <1>1, <1>2, <1>3 DEF InFlightExact
<1> QED
  BY <1>4, <1>5, <1>6, <1>7

\* acquire: the check is nowhere else, for it was not in the map.
LEMMA AcquireIInv ==
    ASSUME IInv, NEW c \in Checks, Acquire(c)
    PROVE  IInv'
<1> USE DEF IInv, Acquire, Acquirable, workerVars
<1>1. Queued' = Queued /\ Held' = Held /\ \A w \in Workers : Busy(w)' <=> Busy(w)
  BY PlacesUnchanged
<1>2. c # None
  BY NoneIsNoCheck
<1>3. TypeOK'
  BY <1>1 DEF TypeOK
<1>4. ControlOK'
  BY <1>2 DEF ControlOK, TypeOK
<1>5. c \notin Queued \cup Held
  BY DEF InFlightExact
<1>6. OnePlace'
  BY <1>1, <1>5 DEF OnePlace
<1>7. InFlightExact'
  BY <1>1 DEF InFlightExact
<1> QED
  BY <1>3, <1>4, <1>6, <1>7

\* The acquired check moves from the dispatcher to the end of the queue.
LEMMA SendIInv ==
    ASSUME IInv, Send
    PROVE  IInv'
<1> USE DEF IInv, Send, workerVars
<1>1. Held' = Held /\ \A w \in Workers : Busy(w)' <=> Busy(w)
  BY DEF Held, Busy
<1>2. sending \in Checks
  BY DEF TypeOK, ControlOK
<1>3. Distinct(jobs) /\ sending \notin Elements(jobs) /\ sending \notin Held
  BY QueuedElements DEF OnePlace, Distinct
<1>4. /\ jobs' \in Seq(Checks) /\ jobs' # <<>>
      /\ Elements(jobs') = Elements(jobs) \cup {sending}
      /\ Distinct(jobs')
  <2>1. jobs \in Seq(Checks) /\ jobs' = Append(jobs, sending)
    BY DEF TypeOK
  <2>2. /\ Append(jobs, sending) \in Seq(Checks) /\ Append(jobs, sending) # <<>>
        /\ Elements(Append(jobs, sending)) = Elements(jobs) \cup {sending}
        /\ Distinct(Append(jobs, sending))
    BY <1>2, <1>3, <2>1, ElementsAppend
  <2> QED
    BY <2>1, <2>2
<1>5. Queued' = Queued \cup {sending}
  BY <1>4, QueuedElements DEF Queued, Elements
<1>6. None \notin Held /\ None \notin Queued'
  BY <1>2, <1>5, NoneIsNoCheck, QueuedElements, ElementsInSet DEF TypeOK, Held
<1>7. TypeOK'
  BY <1>1, <1>4 DEF TypeOK
<1>8. ControlOK'
  BY <1>2, <1>4, NoneIsNoCheck DEF ControlOK, TypeOK
<1>9. OnePlace'
  BY <1>1, <1>3, <1>4, <1>5, <1>6, QueuedElements DEF OnePlace, Distinct
<1>10. InFlightExact'
  BY <1>1, <1>5 DEF InFlightExact
<1> QED
  BY <1>7, <1>8, <1>9, <1>10

\* The acquired check leaves the dispatcher and the map at once.
LEMMA AbandonSendIInv ==
    ASSUME IInv, AbandonSend
    PROVE  IInv'
<1> USE DEF IInv, AbandonSend, Released, workerVars
<1>1. Queued' = Queued /\ Held' = Held /\ \A w \in Workers : Busy(w)' <=> Busy(w)
  BY PlacesUnchanged
<1>2. None \notin Queued \cup Held
  BY NoneIsNoCheck, QueuedElements, ElementsInSet DEF TypeOK, Held
<1>3. TypeOK'
  BY <1>1 DEF TypeOK
<1>4. ControlOK'
  BY DEF ControlOK, TypeOK
<1>5. OnePlace'
  BY <1>1, <1>2 DEF OnePlace
<1>6. InFlightExact'
  BY <1>1 DEF InFlightExact, OnePlace
<1> QED
  BY <1>3, <1>4, <1>5, <1>6

\* The head of the queue moves to a worker.
LEMMA ReceiveIInv ==
    ASSUME IInv, NEW w \in Workers, Receive(w)
    PROVE  IInv'
<1> USE DEF IInv, Receive, dispatcherVars
<1> DEFINE c == Head(jobs)
<1>1. Distinct(jobs)
  BY DEF OnePlace, Distinct
<1>2. /\ c \in Checks /\ c \in Elements(jobs)
      /\ jobs' \in Seq(Checks)
      /\ Elements(jobs') = Elements(jobs) \ {c}
      /\ Distinct(jobs')
  BY <1>1, ElementsTail DEF TypeOK
<1>3. Queued' = Queued \ {c} /\ c \in Queued
  BY <1>2, QueuedElements DEF Queued, Elements
<1>4. /\ \A v \in Workers : v # w => (Busy(v)' <=> Busy(v)) /\ job'[v] = job[v]
      /\ ~Busy(w) /\ Busy(w)' /\ job'[w] = c
  BY DEF Busy, TypeOK
<1>5. Held' = Held \cup {c}
  BY <1>4 DEF Held
<1>6. c # None /\ c \notin Held /\ c # sending
  BY <1>2, <1>3, NoneIsNoCheck DEF OnePlace
<1>7. TypeOK'
  BY <1>2, <1>4, <1>6 DEF TypeOK
<1>8. ControlOK'
  BY DEF ControlOK, TypeOK
<1>9. OnePlace'
  <2>1. \A v \in Workers : Busy(v) => job[v] # c
    BY <1>6 DEF Held
  <2>2. \A u, v \in Workers : Busy(u)' /\ Busy(v)' /\ job'[u] = job'[v] => u = v
    BY <1>4, <2>1 DEF OnePlace
  <2>3. \A i, j \in DOMAIN jobs' : jobs'[i] = jobs'[j] => i = j
    BY <1>2 DEF Distinct
  <2>4. Queued' \cap Held' = {} /\ sending' \notin Queued' \cup Held'
    BY <1>3, <1>5, <1>6 DEF OnePlace
  <2> QED
    BY <2>2, <2>3, <2>4 DEF OnePlace
<1>10. InFlightExact'
  BY <1>3, <1>5 DEF InFlightExact
<1> QED
  BY <1>7, <1>8, <1>9, <1>10

\* Steps of a worker that keep its check, and those of an idle one.
LEMMA WorkerMoves ==
    ASSUME IInv, NEW w \in Workers,
           RunEnds(w) \/ RecordResult(w) \/ RecordFails(w) \/ Exit(w)
    PROVE  IInv'
<1> USE DEF IInv, dispatcherVars, RunEnds, RecordResult, MayCommit, RecordFails, Exit, RangeEnds
<1>1. UNCHANGED <<loop, batch, sending, jobs, closed, inFlight, job, cancelled>>
  OBVIOUS
<1>2. \A v \in Workers : Busy(v)' <=> Busy(v)
  BY DEF Busy, TypeOK
<1>3. Queued' = Queued /\ Held' = Held
  BY <1>1, <1>2 DEF Queued, Held
<1>4. TypeOK'
  <2>1. due' \in SUBSET Checks
    <3>1. RecordResult(w) => job[w] \in Checks
      BY DEF TypeOK, Busy
    <3> QED
      BY <3>1 DEF TypeOK
  <2> QED
    BY <1>1, <1>2, <2>1 DEF TypeOK
<1>5. ControlOK'
  BY <1>1 DEF ControlOK, TypeOK
<1>6. OnePlace'
  BY <1>1, <1>2, <1>3 DEF OnePlace
<1>7. InFlightExact'
  BY <1>1, <1>3 DEF InFlightExact
<1> QED
  BY <1>4, <1>5, <1>6, <1>7

\* The worker's check leaves the worker and the map at once.
LEMMA ReleaseIInv ==
    ASSUME IInv, NEW w \in Workers, Release(w)
    PROVE  IInv'
<1> USE DEF IInv, dispatcherVars, Release, Released
<1>1. Queued' = Queued
  BY DEF Queued
<1>2. /\ \A v \in Workers : v # w => (Busy(v)' <=> Busy(v)) /\ job'[v] = job[v]
      /\ Busy(w) /\ ~Busy(w)' /\ job'[w] = None
  BY DEF Busy, TypeOK
<1>3. \A v \in Workers : Busy(v) /\ job[v] = job[w] => v = w
  BY <1>2 DEF OnePlace
<1>4. Held' = Held \ {job[w]} /\ job[w] \in Held
  BY <1>2, <1>3 DEF Held
<1>5. TypeOK'
  BY <1>2 DEF TypeOK
<1>6. ControlOK'
  BY DEF ControlOK, TypeOK
<1>7. OnePlace'
  BY <1>1, <1>2, <1>4 DEF OnePlace
<1>8. InFlightExact'
  BY <1>1, <1>4 DEF InFlightExact, OnePlace
<1> QED
  BY <1>5, <1>6, <1>7, <1>8

\* Time, operators and cancellation touch nothing the invariant speaks of but the context.
LEMMA EnvironmentIInv ==
    ASSUME IInv,
           \/ \E c \in Checks : BecomeDue(c) \/ ManualResult(c)
           \/ Cancel \/ Finished \/ UNCHANGED vars
    PROVE  IInv'
<1> USE DEF IInv, dispatcherVars, workerVars, programVars, vars,
        BecomeDue, ManualResult, Cancel, Finished
<1>1. UNCHANGED <<loop, batch, sending, jobs, closed, inFlight, wpc, job>>
  OBVIOUS
<1>2. Queued' = Queued /\ Held' = Held /\ \A w \in Workers : Busy(w)' <=> Busy(w)
  BY <1>1, PlacesUnchanged
<1>3. TypeOK'
  BY <1>1, <1>2 DEF TypeOK
<1>4. ControlOK' /\ OnePlace' /\ InFlightExact'
  BY <1>1, <1>2 DEF ControlOK, OnePlace, InFlightExact
<1> QED
  BY <1>3, <1>4

\* Every step preserves the invariant.
LEMMA NextIInv == IInv /\ [Next]_vars => IInv'
<1> SUFFICES ASSUME IInv, [Next]_vars PROVE IInv'
  OBVIOUS
<1>1. CASE Dispatcher
  BY <1>1, DispatcherMoves, AcquireIInv, SendIInv, AbandonSendIInv DEF Dispatcher
<1>2. CASE \E w \in Workers : Worker(w)
  BY <1>2, ReceiveIInv, WorkerMoves, ReleaseIInv DEF Worker
<1>3. CASE \/ \E c \in Checks : BecomeDue(c) \/ ManualResult(c)
           \/ Cancel \/ Finished \/ UNCHANGED vars
  BY <1>3, EnvironmentIInv
<1> QED
  BY <1>1, <1>2, <1>3 DEF Next

-----------------------------------------------------------------------------
(* What holds in every reachable state of the scheduler *)

\* The strengthened invariant holds throughout.
THEOREM Invariance == Spec => []IInv
<1>1. Init => IInv
  BY InitIInv
<1>2. IInv /\ [Next]_vars => IInv'
  BY NextIInv
<1> QED
  BY <1>1, <1>2, PTL DEF Spec

\* Type correctness: in particular no worker runs the zero value of a closed channel.
THEOREM TypeCorrect == Spec => []TypeOK
<1>1. IInv => TypeOK
  BY DEF IInv
<1> QED
  BY <1>1, Invariance, PTL

\* No check is queued twice, run by two workers, or queued while it is run.
THEOREM NoDoubleRun == Spec => []OnePlace
<1>1. IInv => OnePlace
  BY DEF IInv
<1> QED
  BY <1>1, Invariance, PTL

\* The in-flight map neither leaks a check nor forgets one.
THEOREM MapExact == Spec => []InFlightExact
<1>1. IInv => InFlightExact
  BY DEF IInv
<1> QED
  BY <1>1, Invariance, PTL

\* A Run that has returned leaves no queued check, no worker and an empty map.
THEOREM ReturnIsClean == Spec => []CleanReturn
<1>1. IInv => CleanReturn
  <2> SUFFICES ASSUME IInv, loop = "returned"
               PROVE  jobs = <<>> /\ inFlight = {} /\ \A w \in Workers : wpc[w] = "exited"
    BY DEF CleanReturn
  <2>1. \A w \in Workers : wpc[w] = "exited"
    BY DEF IInv, ControlOK
  <2>2. jobs = <<>>
    BY <2>1, WorkersAssumption DEF IInv, ControlOK
  <2>3. Queued = {}
    BY <2>2 DEF Queued
  <2>4. Held = {}
    BY <2>1 DEF Held, Busy
  <2> QED
    BY <2>1, <2>2, <2>3, <2>4 DEF IInv, InFlightExact
<1> QED
  BY <1>1, Invariance, PTL

-----------------------------------------------------------------------------
(* The refinement of CheckRuns *)

Waiting(c) == c \in Queued \/ (loop = "send" /\ c = sending)
Running(c) == \E w \in Workers : job[w] = c /\ wpc[w] \in {"running", "recording"}
Ending(c)  == \E w \in Workers : job[w] = c /\ wpc[w] = "releasing"

PhaseOfAll == [c \in Checks |-> PhaseOf(c)]

\* The three places exclude one another, so PhaseOf's order of cases is immaterial.
LEMMA PhaseCases ==
    ASSUME IInv, NEW c \in Checks
    PROVE  /\ PhaseOf(c) = "waiting" <=> Waiting(c)
           /\ PhaseOf(c) = "running" <=> Running(c)
           /\ PhaseOf(c) = "ending" <=> Ending(c)
           /\ PhaseOf(c) = "idle" <=> c \notin inFlight
           /\ PhaseOf(c) \in {"idle", "waiting", "running", "ending"}
<1> USE DEF IInv
<1>1. Waiting(c) => ~Running(c) /\ ~Ending(c)
  BY DEF Waiting, Running, Ending, OnePlace, Held, Busy
<1>2. Running(c) => ~Ending(c)
  BY DEF Running, Ending, OnePlace, Busy
<1>3. c \in inFlight <=> Waiting(c) \/ Running(c) \/ Ending(c)
  BY DEF InFlightExact, Waiting, Running, Ending, Held, Busy
<1> QED
  BY <1>1, <1>2, <1>3 DEF PhaseOf, Waiting, Running, Ending

\* A step under which no check changes place changes no phase.
LEMMA SamePhases ==
    ASSUME \A c \in Checks : /\ Waiting(c)' <=> Waiting(c)
                             /\ Running(c)' <=> Running(c)
                             /\ Ending(c)' <=> Ending(c)
    PROVE  PhaseOfAll' = PhaseOfAll
<1>1. \A c \in Checks : PhaseOf(c)' = PhaseOf(c)
  BY DEF PhaseOf, Waiting, Running, Ending
<1> QED
  BY <1>1 DEF PhaseOfAll

\* A step under which one check alone changes place changes that check's phase.
LEMMA OnePhase ==
    ASSUME NEW c \in Checks,
           \A d \in Checks \ {c} : /\ Waiting(d)' <=> Waiting(d)
                                   /\ Running(d)' <=> Running(d)
                                   /\ Ending(d)' <=> Ending(d)
    PROVE  PhaseOfAll' = [PhaseOfAll EXCEPT ![c] = PhaseOf(c)']
<1>1. \A d \in Checks \ {c} : PhaseOf(d)' = PhaseOf(d)
  BY DEF PhaseOf, Waiting, Running, Ending
<1> QED
  BY <1>1 DEF PhaseOfAll

\* Steps that leave the channel, the send and the workers alone.
LEMMA StillPhases ==
    ASSUME UNCHANGED <<jobs, wpc, job>>,
           loop # "send", loop' # "send"
    PROVE  PhaseOfAll' = PhaseOfAll
BY SamePhases DEF Waiting, Running, Ending, Queued

\* Initially nothing is executed and nothing is offered.
LEMMA InitRefines == Init => Abstract!Init
<1> SUFFICES ASSUME Init PROVE Abstract!Init
  OBVIOUS
<1>1. Queued = {}
  BY EmptyDomain DEF Init, Queued
<1>2. \A c \in Checks : PhaseOf(c) = "idle"
  BY <1>1, NoneIsNoCheck DEF Init, PhaseOf
<1> QED
  BY <1>2 DEF Init, Abstract!Init

\* The dispatcher's steps are offers, passes, claims, withdrawals or stutters.
LEMMA DispatcherRefines ==
    ASSUME IInv, IInv', Dispatcher
    PROVE  Abstract!Next \/ UNCHANGED Abstract!vars
<1> USE DEF PhaseOfAll
<1>1. CASE ListDue
  <2>1. PhaseOfAll' = PhaseOfAll
    BY <1>1, StillPhases DEF ListDue, workerVars
  <2>2. batch = {} /\ batch' \in SUBSET due
    BY <1>1 DEF ListDue, FirstDue, IInv, ControlOK
  <2>3. Abstract!Offer
    BY <1>1, <2>1, <2>2 DEF ListDue, Abstract!Offer
  <2> QED
    BY <2>3 DEF Abstract!Next
<1>2. CASE ListFails \/ EndOfBatch \/ Tick \/ Close \/ Return
  <2>1. PhaseOfAll' = PhaseOfAll
    BY <1>2, StillPhases DEF ListFails, EndOfBatch, Tick, Close, Return, workerVars
  <2>2. UNCHANGED <<batch, due, cancelled>>
    BY <1>2 DEF ListFails, EndOfBatch, Tick, Close, Return
  <2> QED
    BY <2>1, <2>2 DEF Abstract!vars
<1>3. CASE Send
  <2>1. Queued' = Queued \cup {sending}
    <3>1. jobs \in Seq(Checks) /\ sending \in Checks /\ jobs' = Append(jobs, sending)
      BY <1>3 DEF Send, IInv, TypeOK, ControlOK
    <3>2. Elements(Append(jobs, sending)) = Elements(jobs) \cup {sending}
      BY <3>1, ElementsAppend
    <3> QED
      BY <3>1, <3>2 DEF Queued, Elements
  <2>2. PhaseOfAll' = PhaseOfAll
    BY <1>3, <2>1, SamePhases DEF Send, workerVars, Waiting, Running, Ending
  <2> QED
    BY <1>3, <2>2 DEF Send, Abstract!vars
<1>4. CASE AbandonSend
  <2>1. PICK c \in Checks : c = sending
    BY <1>4 DEF AbandonSend, IInv, ControlOK, TypeOK
  <2>2. PhaseOf(c) = "waiting"
    BY <1>4, <2>1, PhaseCases DEF AbandonSend, Waiting
  <2>3. Queued' = Queued /\ UNCHANGED <<wpc, job>>
    BY <1>4 DEF AbandonSend, Queued, workerVars
  <2>4. ~Waiting(c)' /\ ~Running(c)' /\ ~Ending(c)'
    BY <1>4, <2>1, <2>3
    DEF AbandonSend, IInv, OnePlace, Waiting, Running, Ending, Held, Busy
  <2>5. PhaseOf(c)' = "idle"
    BY <2>4 DEF PhaseOf, Waiting, Running, Ending
  <2>6. PhaseOfAll' = [PhaseOfAll EXCEPT ![c] = PhaseOf(c)']
    BY <1>4, <2>1, <2>3, OnePhase DEF AbandonSend, Waiting, Running, Ending
  <2>7. Abstract!Withdraw(c)
    BY <1>4, <2>2, <2>5, <2>6 DEF AbandonSend, Abstract!Withdraw
  <2> QED
    BY <2>7 DEF Abstract!Next
<1>5. ASSUME NEW c \in Checks, Skip(c) PROVE Abstract!Next
  <2>1. PhaseOfAll' = PhaseOfAll
    BY <1>5, StillPhases DEF Skip, workerVars
  <2>2. PhaseOf(c) # "idle"
    BY <1>5, PhaseCases DEF Skip, Acquirable
  <2>3. Abstract!Pass(c)
    BY <1>5, <2>1, <2>2 DEF Skip, IsNext, Abstract!Pass
  <2> QED
    BY <2>3 DEF Abstract!Next
<1>6. ASSUME NEW c \in Checks, Acquire(c) PROVE Abstract!Next
  <2>1. PhaseOf(c) = "idle"
    BY <1>6, PhaseCases DEF Acquire, Acquirable
  <2>2. Queued' = Queued /\ UNCHANGED <<wpc, job>>
    BY <1>6 DEF Acquire, Queued, workerVars
  <2>3. PhaseOf(c)' = "waiting"
    BY <1>6, <2>2 DEF Acquire, PhaseOf
  <2>4. PhaseOfAll' = [PhaseOfAll EXCEPT ![c] = PhaseOf(c)']
    BY <1>6, <2>2, OnePhase DEF Acquire, Waiting, Running, Ending
  <2>5. Abstract!Claim(c)
    BY <1>6, <2>1, <2>3, <2>4 DEF Acquire, IsNext, Abstract!Claim
  <2> QED
    BY <2>5 DEF Abstract!Next
<1> QED
  BY <1>1, <1>2, <1>3, <1>4, <1>5, <1>6 DEF Dispatcher

\* What a step of worker w on its check c does to the other checks' places: nothing.
LEMMA WorkerPhase ==
    ASSUME IInv, NEW w \in Workers, NEW c \in Checks,
           \A v \in Workers \ {w} : wpc'[v] = wpc[v] /\ job'[v] = job[v],
           \A d \in Checks \ {c} : Waiting(d)' <=> Waiting(d),
           job[w] \in {c, None}, job'[w] \in {c, None}
    PROVE  PhaseOfAll' = [PhaseOfAll EXCEPT ![c] = PhaseOf(c)']
<1>1. \A d \in Checks \ {c} : d # job[w] /\ d # job'[w]
  BY NoneIsNoCheck
<1>2. \A d \in Checks \ {c} : (Running(d)' <=> Running(d)) /\ (Ending(d)' <=> Ending(d))
  BY <1>1 DEF Running, Ending
<1> QED
  BY <1>2, OnePhase

\* A receive begins the execution of the check at the head of the queue.
LEMMA ReceiveRefines ==
    ASSUME IInv, IInv', NEW w \in Workers, Receive(w)
    PROVE  Abstract!Next
<1> USE DEF PhaseOfAll
<1>1. jobs \in Seq(Checks) /\ jobs # <<>> /\ Distinct(jobs) /\ jobs' = Tail(jobs)
  BY DEF Receive, IInv, TypeOK, OnePlace, Distinct
<1>2. Head(jobs) \in Checks /\ Head(jobs) \in Elements(jobs)
  BY <1>1, ElementsTail
<1>3. PICK c \in Checks : c = Head(jobs)
  BY <1>2
<1>4. c \in Queued /\ Queued' = Queued \ {c}
  <2>1. Elements(Tail(jobs)) = Elements(jobs) \ {Head(jobs)}
    BY <1>1, ElementsTail
  <2> QED
    BY <1>1, <1>2, <1>3, <2>1 DEF Queued, Elements
<1>5. PhaseOf(c) = "waiting"
  BY <1>4 DEF PhaseOf
<1>6. /\ job[w] = None /\ job'[w] = c /\ wpc'[w] = "running"
      /\ \A v \in Workers \ {w} : wpc'[v] = wpc[v] /\ job'[v] = job[v]
      /\ UNCHANGED <<loop, batch, sending, cancelled, due>>
  BY <1>3 DEF Receive, IInv, TypeOK, Busy, dispatcherVars
<1>7. c # sending
  BY <1>4 DEF IInv, OnePlace
<1>8. PhaseOf(c)' = "running"
  <2>1. ~Waiting(c)' /\ Running(c)'
    BY <1>4, <1>6, <1>7 DEF Waiting, Running
  <2> QED
    BY <2>1 DEF PhaseOf, Waiting, Running
<1>9. PhaseOfAll' = [PhaseOfAll EXCEPT ![c] = PhaseOf(c)']
  BY <1>4, <1>6, WorkerPhase DEF Waiting
<1>10. Abstract!Begin(c)
  BY <1>5, <1>6, <1>8, <1>9 DEF Abstract!Begin
<1> QED
  BY <1>10 DEF Abstract!Next

\* A worker's steps begin, record, drop or end the execution of its check.
LEMMA WorkerRefines ==
    ASSUME IInv, IInv', NEW w \in Workers, Worker(w), ~Receive(w)
    PROVE  Abstract!Next \/ UNCHANGED Abstract!vars
<1> USE DEF PhaseOfAll
<1>1. CASE Exit(w)
  <2>1. Queued' = Queued /\ UNCHANGED <<loop, batch, sending, job, cancelled, due>>
    BY <1>1 DEF Exit, Queued, dispatcherVars
  <2>2. \A v \in Workers : wpc'[v] = wpc[v] \/ (wpc[v] = "idle" /\ wpc'[v] = "exited")
    BY <1>1 DEF Exit, RangeEnds, IInv, TypeOK
  <2>3. \A c \in Checks : /\ Running(c)' <=> Running(c)
                          /\ Ending(c)' <=> Ending(c)
    BY <2>1, <2>2 DEF Running, Ending
  <2>4. PhaseOfAll' = PhaseOfAll
    BY <2>1, <2>3, SamePhases DEF Waiting
  <2> QED
    BY <2>1, <2>4 DEF Abstract!vars
<1>2. ASSUME ~Exit(w) PROVE Abstract!Next \/ UNCHANGED Abstract!vars
  <2>1. RunEnds(w) \/ RecordResult(w) \/ RecordFails(w) \/ Release(w)
    BY <1>2 DEF Worker
  <2>2. Busy(w)
    BY <2>1 DEF RunEnds, RecordResult, RecordFails, Release, Busy
  <2>3. PICK c \in Checks : c = job[w]
    BY <2>2 DEF IInv, TypeOK
  <2>4. /\ Queued' = Queued /\ UNCHANGED <<loop, batch, sending, cancelled>>
        /\ \A v \in Workers \ {w} : wpc'[v] = wpc[v] /\ job'[v] = job[v]
        /\ job'[w] \in {c, None}
    <3>1. UNCHANGED <<loop, batch, sending, jobs, cancelled>>
      BY <2>1 DEF RunEnds, RecordResult, RecordFails, Release, dispatcherVars
    <3>2. Queued' = Queued
      BY <3>1 DEF Queued
    <3>3. job \in [Workers -> Checks \cup {None}] /\ DOMAIN wpc = Workers
      BY DEF IInv, TypeOK
    <3>4. CASE RunEnds(w) \/ RecordResult(w) \/ RecordFails(w)
      BY <2>3, <3>1, <3>2, <3>3, <3>4 DEF RunEnds, RecordResult, RecordFails
    <3>5. CASE Release(w)
      BY <3>1, <3>2, <3>3, <3>5 DEF Release
    <3> QED
      BY <2>1, <3>4, <3>5
  <2>5. PhaseOfAll' = [PhaseOfAll EXCEPT ![c] = PhaseOf(c)']
    BY <2>3, <2>4, WorkerPhase DEF Waiting
  <2>6. ~Waiting(c) /\ ~Waiting(c)'
    BY <2>2, <2>3, <2>4 DEF Waiting, IInv, OnePlace, Held
  <2>7. \A v \in Workers \ {w} : Busy(v) => job[v] # c
    BY <2>2, <2>3 DEF IInv, OnePlace
  <2>8. CASE RunEnds(w) /\ ~cancelled
    <3>1. Running(c) /\ Running(c)'
      BY <2>3, <2>8 DEF RunEnds, Running, IInv, TypeOK
    <3>2. PhaseOf(c)' = PhaseOf(c)
      BY <3>1, <2>6 DEF PhaseOf, Waiting, Running
    <3>3. PhaseOfAll' = PhaseOfAll
      BY <2>5, <3>2
    <3> QED
      BY <2>4, <2>8, <3>3 DEF RunEnds, Abstract!vars
  <2>9. CASE (RunEnds(w) /\ cancelled) \/ RecordFails(w) \/ RecordResult(w)
    <3>1. /\ wpc[w] \in {"running", "recording"} /\ wpc'[w] = "releasing" /\ job' = job
      BY <2>9 DEF RunEnds, RecordFails, RecordResult, IInv, TypeOK
    <3>2. Running(c) /\ ~Running(c)' /\ Ending(c)'
      BY <2>3, <2>4, <2>7, <3>1 DEF Running, Ending, Busy
    <3>3. PhaseOf(c) = "running" /\ PhaseOf(c)' = "ending"
      BY <2>6, <3>2 DEF PhaseOf, Waiting, Running, Ending
    <3>4. CASE RecordResult(w)
      <4>1. Abstract!Record(c)
        BY <2>3, <2>4, <2>5, <3>3, <3>4 DEF RecordResult, MayCommit, Abstract!Record
      <4> QED
        BY <4>1 DEF Abstract!Next
    <3>5. CASE (RunEnds(w) /\ cancelled) \/ RecordFails(w)
      <4>1. Abstract!Drop(c)
        BY <2>4, <2>5, <3>3, <3>5 DEF RunEnds, RecordFails, Abstract!Drop
      <4> QED
        BY <4>1 DEF Abstract!Next
    <3> QED
      BY <2>9, <3>4, <3>5
  <2>10. CASE Release(w)
    <3>1. wpc[w] = "releasing" /\ wpc'[w] = "idle" /\ job'[w] = None
      BY <2>10 DEF Release, IInv, TypeOK
    <3>2. ~Running(c) /\ Ending(c) /\ ~Running(c)' /\ ~Ending(c)'
      BY <2>3, <2>4, <2>7, <3>1, NoneIsNoCheck DEF Running, Ending, Busy
    <3>3. PhaseOf(c) = "ending" /\ PhaseOf(c)' = "idle"
      BY <2>6, <3>2 DEF PhaseOf, Waiting, Running, Ending
    <3>4. Abstract!End(c)
      BY <2>4, <2>5, <2>10, <3>3 DEF Release, Abstract!End
    <3> QED
      BY <3>4 DEF Abstract!Next
  <2> QED
    BY <2>1, <2>8, <2>9, <2>10
<1> QED
  BY <1>1, <1>2

\* Time, operators and cancellation are the abstract specification's environment and stop.
LEMMA EnvironmentRefines ==
    ASSUME IInv, IInv',
           \/ \E c \in Checks : BecomeDue(c) \/ ManualResult(c)
           \/ Cancel \/ Finished \/ UNCHANGED vars
    PROVE  Abstract!Next \/ UNCHANGED Abstract!vars
<1> USE DEF PhaseOfAll, dispatcherVars, workerVars, programVars, vars
<1>1. UNCHANGED <<loop, batch, sending, jobs, wpc, job>>
  BY DEF BecomeDue, ManualResult, Cancel, Finished
<1>2. PhaseOfAll' = PhaseOfAll
  BY <1>1, SamePhases DEF Waiting, Running, Ending, Queued
<1>3. CASE \E c \in Checks : BecomeDue(c) \/ ManualResult(c)
  <2>1. due' \in SUBSET Checks /\ cancelled' = cancelled
    BY <1>3 DEF BecomeDue, ManualResult, IInv, TypeOK
  <2>2. Abstract!Environment
    BY <1>1, <1>2, <2>1 DEF Abstract!Environment
  <2> QED
    BY <2>2 DEF Abstract!Next
<1>4. CASE Cancel
  <2>1. Abstract!Stop
    BY <1>1, <1>2, <1>4 DEF Cancel, Abstract!Stop
  <2> QED
    BY <2>1 DEF Abstract!Next
<1>5. CASE Finished \/ UNCHANGED vars
  BY <1>1, <1>2, <1>5 DEF Finished, Abstract!vars
<1> QED
  BY <1>3, <1>4, <1>5

\* Every behaviour of the scheduler is one of the abstract specification: a check
\* is executed only on the offer of a poll, once per offer and one at a time.
THEOREM Refinement == Spec => RunsPromise
<1>1. Init => Abstract!Init
  BY InitRefines
<1>2. IInv /\ IInv' /\ [Next]_vars => [Abstract!Next]_(Abstract!vars)
  <2> SUFFICES ASSUME IInv, IInv', [Next]_vars
               PROVE  Abstract!Next \/ UNCHANGED Abstract!vars
    OBVIOUS
  <2>1. CASE Dispatcher
    BY <2>1, DispatcherRefines
  <2>2. CASE \E w \in Workers : Worker(w)
    BY <2>2, ReceiveRefines, WorkerRefines
  <2>3. CASE \/ \E c \in Checks : BecomeDue(c) \/ ManualResult(c)
             \/ Cancel \/ Finished \/ UNCHANGED vars
    BY <2>3, EnvironmentRefines
  <2> QED
    BY <2>1, <2>2, <2>3 DEF Next
<1> QED
  BY <1>1, <1>2, Invariance, PTL DEF Spec, RunsPromise, Abstract!Spec

-----------------------------------------------------------------------------
(* The store *)

\* ListDue goes by the time of the row that was stored last.
NewestOK ==
    \A c \in Checks :
        check[c].lastChecked =
            IF history[c] = <<>> THEN None ELSE history[c][Len(history[c])].at

StoreInv == StoreTypeOK /\ CountersMatchHistory /\ StatusMatchesHistory /\ NewestOK

-----------------------------------------------------------------------------
(* Appending a result to a history *)

\* The run of results b that a history ends in grows by a result b ...
LEMMA RunGrows ==
    ASSUME NEW h \in Seq(Result), NEW e \in Result, NEW n \in Nat,
           EndsInRun(h, e.healthy, n)
    PROVE  EndsInRun(Append(h, e), e.healthy, n + 1)
<1> DEFINE g == Append(h, e)
<1>1. Len(g) = Len(h) + 1 /\ g[Len(h) + 1] = e /\ \A i \in 1..Len(h) : g[i] = h[i]
  OBVIOUS
<1>2. Len(h) \in Nat
  OBVIOUS
<1> HIDE DEF g
<1>3. n + 1 <= Len(g)
  BY <1>1, <1>2 DEF EndsInRun
<1>4. ASSUME NEW i \in (Len(g) - (n + 1) + 1)..Len(g) PROVE g[i].healthy = e.healthy
  <2>1. CASE i = Len(h) + 1
    BY <2>1, <1>1
  <2>2. CASE i # Len(h) + 1
    <3>1. i \in (Len(h) - n + 1)..Len(h) /\ i \in 1..Len(h)
      BY <2>2, <1>1, <1>2 DEF EndsInRun
    <3> QED
      BY <3>1, <1>1 DEF EndsInRun
  <2> QED
    BY <2>1, <2>2
<1>5. ASSUME n + 1 < Len(g) PROVE g[Len(g) - (n + 1)].healthy # e.healthy
  <2>1. n < Len(h) /\ Len(g) - (n + 1) = Len(h) - n /\ Len(h) - n \in 1..Len(h)
    BY <1>5, <1>1, <1>2
  <2> QED
    BY <2>1, <1>1 DEF EndsInRun
<1> QED
  BY <1>3, <1>4, <1>5 DEF EndsInRun, g

\* ... and every other run ends.
LEMMA RunBreaks ==
    ASSUME NEW h \in Seq(Result), NEW e \in Result, NEW b \in BOOLEAN, b # e.healthy
    PROVE  EndsInRun(Append(h, e), b, 0)
<1>1. Len(Append(h, e)) = Len(h) + 1 /\ Append(h, e)[Len(h) + 1] = e /\ Len(h) \in Nat
  OBVIOUS
<1> QED
  BY <1>1 DEF EndsInRun

\* A run of at least n results b, n being positive, reaches n at its last result ...
LEMMA ReachedByRun ==
    ASSUME NEW h \in Seq(Result), NEW e \in Result, NEW b \in BOOLEAN,
           NEW n \in Nat \ {0}, NEW k \in Nat, EndsInRun(Append(h, e), b, k), n <= k
    PROVE  Len(h) + 1 \in Reached(Append(h, e), b, n)
<1> DEFINE g == Append(h, e)
<1>1. Len(g) = Len(h) + 1 /\ Len(h) \in Nat
  OBVIOUS
<1> HIDE DEF g
<1>2. EndsInRun(g, b, k)
  BY DEF g
<1>3. Len(h) + 1 \in 1..Len(g) /\ n <= Len(h) + 1
  BY <1>1, <1>2 DEF EndsInRun
<1>4. \A i \in (Len(h) + 1 - n + 1)..(Len(h) + 1) : g[i].healthy = b
  BY <1>1, <1>2 DEF EndsInRun
<1> QED
  BY <1>3, <1>4 DEF Reached, g

\* ... a shorter one does not ...
LEMMA NotReachedByRun ==
    ASSUME NEW h \in Seq(Result), NEW e \in Result, NEW b \in BOOLEAN,
           NEW n \in Nat \ {0}, NEW k \in Nat, EndsInRun(Append(h, e), b, k), k < n
    PROVE  Len(h) + 1 \notin Reached(Append(h, e), b, n)
<1> DEFINE g == Append(h, e)
<1>1. Len(g) = Len(h) + 1 /\ Len(h) \in Nat
  OBVIOUS
<1> HIDE DEF g
<1>2. EndsInRun(g, b, k)
  BY DEF g
<1>3. SUFFICES ASSUME n <= Len(g), \A i \in (Len(g) - n + 1)..Len(g) : g[i].healthy = b
               PROVE  FALSE
  BY <1>1 DEF Reached, g
<1>4. k < Len(g) /\ Len(g) - k \in (Len(g) - n + 1)..Len(g)
  BY <1>1, <1>3
<1> QED
  BY <1>2, <1>3, <1>4 DEF EndsInRun

\* ... and what earlier results have reached stays.
LEMMA ReachedBefore ==
    ASSUME NEW h \in Seq(Result), NEW e \in Result, NEW b \in BOOLEAN,
           NEW n \in Nat \ {0}, NEW k \in 1..Len(h)
    PROVE  k \in Reached(Append(h, e), b, n) <=> k \in Reached(h, b, n)
<1> DEFINE g == Append(h, e)
<1>1. Len(g) = Len(h) + 1 /\ Len(h) \in Nat /\ \A i \in 1..Len(h) : g[i] = h[i]
  OBVIOUS
<1> HIDE DEF g
<1>2. n <= k => (k - n + 1)..k \subseteq 1..Len(h)
  BY <1>1
<1>3. n <= k => \A i \in (k - n + 1)..k : g[i] = h[i]
  BY <1>1, <1>2
<1>4. k \in 1..Len(g)
  BY <1>1
<1> QED
  BY <1>3, <1>4 DEF Reached, g

\* The positions a run reaches are positions of the history.
LEMMA ReachedRange ==
    ASSUME NEW h \in Seq(Result), NEW b \in BOOLEAN, NEW n \in Nat \ {0}
    PROVE  Reached(h, b, n) \subseteq 1..Len(h)
BY DEF Reached

-----------------------------------------------------------------------------
(* The verdict on a history *)

\* NextRow comes to the verdict on the longer history from that on the shorter one
\* and the two counters.
LEMMA VerdictAppend ==
    ASSUME NEW h \in Seq(Result), NEW e \in Result,
           NEW f \in Nat \ {0}, NEW r \in Nat \ {0},
           NEW down \in Nat, NEW up \in Nat,
           EndsInRun(Append(h, e), FALSE, down), EndsInRun(Append(h, e), TRUE, up)
    PROVE  /\ up >= r /\ e.healthy = TRUE => Verdict(Append(h, e), f, r) = "healthy"
           /\ down >= f /\ e.healthy = FALSE => Verdict(Append(h, e), f, r) = "critical"
           /\ ~(up >= r /\ e.healthy = TRUE) /\ ~(down >= f /\ e.healthy = FALSE) =>
                Verdict(Append(h, e), f, r) = Verdict(h, f, r)
<1> DEFINE g  == Append(h, e)
           D  == Reached(h, FALSE, f)
           U  == Reached(h, TRUE, r)
           D2 == Reached(g, FALSE, f)
           U2 == Reached(g, TRUE, r)
           n  == Len(h) + 1
<1>1. Len(g) = n /\ Len(h) \in Nat /\ g[n] = e
  OBVIOUS
<1>2. g \in Seq(Result)
  OBVIOUS
<1>3. D \subseteq 1..Len(h) /\ U \subseteq 1..Len(h)
  BY ReachedRange
<1>4. D2 \subseteq 1..n /\ U2 \subseteq 1..n
  BY <1>1, <1>2, ReachedRange
<1>5. \A k \in 1..Len(h) : (k \in D2 <=> k \in D) /\ (k \in U2 <=> k \in U)
  BY ReachedBefore
<1>6. (n \in D2 <=> down >= f) /\ (n \in U2 <=> up >= r)
  <2>1. down >= f => n \in D2
    BY ReachedByRun
  <2>2. ~(down >= f) => n \notin D2
    <3>1. ~(down >= f) => down < f
      OBVIOUS
    <3> QED
      BY <3>1, NotReachedByRun
  <2>3. up >= r => n \in U2
    BY ReachedByRun
  <2>4. ~(up >= r) => n \notin U2
    <3>1. ~(up >= r) => up < r
      OBVIOUS
    <3> QED
      BY <3>1, NotReachedByRun
  <2> QED
    BY <2>1, <2>2, <2>3, <2>4
<1>7. (n \in D2 => e.healthy = FALSE) /\ (n \in U2 => e.healthy = TRUE)
  BY <1>1 DEF Reached
<1>8. Verdict(g, f, r) = IF \E k \in D2 : \A j \in U2 : j < k THEN "critical"
                         ELSE IF U2 # {} THEN "healthy" ELSE "unknown"
  BY DEF Verdict
<1>9. Verdict(h, f, r) = IF \E k \in D : \A j \in U : j < k THEN "critical"
                         ELSE IF U # {} THEN "healthy" ELSE "unknown"
  BY DEF Verdict
<1> HIDE DEF g, D, U, D2, U2
<1>10. CASE n \in U2
  <2>1. n \notin D2 /\ e.healthy = TRUE /\ up >= r
    BY <1>10, <1>6, <1>7
  <2>2. ~\E k \in D2 : \A j \in U2 : j < k
    BY <1>10, <1>1, <1>4
  <2> QED
    BY <2>1, <2>2, <1>8, <1>10 DEF g
<1>11. CASE n \in D2
  <2>1. n \notin U2 /\ e.healthy = FALSE /\ down >= f
    BY <1>11, <1>6, <1>7
  <2>2. \A j \in U2 : j < n
    BY <2>1, <1>1, <1>4
  <2> QED
    BY <2>1, <2>2, <1>8, <1>11 DEF g
<1>12. CASE n \notin D2 /\ n \notin U2
  <2>1. D2 = D /\ U2 = U
    <3>1. 1..n = (1..Len(h)) \cup {n}
      BY <1>1
    <3> QED
      BY <3>1, <1>3, <1>4, <1>5, <1>12
  <2>2. ~(down >= f) /\ ~(up >= r)
    BY <1>6, <1>12
  <2> QED
    BY <2>1, <2>2, <1>8, <1>9 DEF g
<1> QED
  BY <1>10, <1>11, <1>12

\* The verdict on an empty history.
LEMMA VerdictEmpty ==
    ASSUME NEW f \in Nat \ {0}, NEW r \in Nat \ {0}
    PROVE  Verdict(<<>>, f, r) = "unknown"
<1> DEFINE e == <<>>
<1>1. e \in Seq(Result) /\ 1..Len(e) = {}
  OBVIOUS
<1> HIDE DEF e
<1>2. Reached(e, TRUE, r) \subseteq {} /\ Reached(e, FALSE, f) \subseteq {}
  <2>1. Reached(e, TRUE, r) \subseteq 1..Len(e) /\ Reached(e, FALSE, f) \subseteq 1..Len(e)
    BY <1>1, ReachedRange
  <2> QED
    BY <2>1, <1>1
<1>3. Verdict(e, f, r) = "unknown"
  BY <1>2 DEF Verdict
<1> QED
  BY <1>3 DEF e

-----------------------------------------------------------------------------
(* The row *)

\* A result keeps the row of its type and its thresholds.
LEMMA NextRowType ==
    ASSUME NEW row \in Row, NEW healthy \in BOOLEAN, NEW at \in Nat
    PROVE  /\ NextRow(row, healthy, at) \in Row
           /\ NextRow(row, healthy, at).failureThreshold = row.failureThreshold
           /\ NextRow(row, healthy, at).recoveryThreshold = row.recoveryThreshold
           /\ NextRow(row, healthy, at).successes = IF healthy THEN row.successes + 1 ELSE 0
           /\ NextRow(row, healthy, at).failures = IF healthy THEN 0 ELSE row.failures + 1
           /\ NextRow(row, healthy, at).lastChecked = at
           /\ NextRow(row, healthy, at).status =
                IF healthy /\ NextRow(row, healthy, at).successes >= row.recoveryThreshold
                THEN "healthy"
                ELSE IF ~healthy /\ NextRow(row, healthy, at).failures >= row.failureThreshold
                THEN "critical"
                ELSE row.status
<1> DEFINE S   == IF healthy THEN row.successes + 1 ELSE 0
           F   == IF healthy THEN 0 ELSE row.failures + 1
           V   == IF healthy /\ S >= row.recoveryThreshold THEN "healthy"
                  ELSE IF ~healthy /\ F >= row.failureThreshold THEN "critical"
                  ELSE row.status
           new == [row EXCEPT !.successes = S, !.failures = F, !.lastChecked = at, !.status = V]
<1>1. NextRow(row, healthy, at) = new
  BY DEF NextRow, Extended, Reaches
<1>2. S \in Nat /\ F \in Nat /\ V \in Status
  BY DEF Row, Status
<1> HIDE DEF S, F, V
<1>3. /\ new \in Row /\ new.successes = S /\ new.failures = F /\ new.status = V
      /\ new.lastChecked = at
      /\ new.failureThreshold = row.failureThreshold
      /\ new.recoveryThreshold = row.recoveryThreshold
  BY <1>2 DEF Row
<1> HIDE DEF new
<1> QED
  BY <1>1, <1>3 DEF S, F, V

\* The counters of the next row are those of the longer history.
LEMMA NextCounters ==
    ASSUME NEW h \in Seq(Result), NEW row \in Row, NEW e \in Result,
           NEW healthy \in BOOLEAN, NEW at \in Nat, e.healthy = healthy,
           EndsInRun(h, TRUE, row.successes), EndsInRun(h, FALSE, row.failures)
    PROVE  /\ EndsInRun(Append(h, e), TRUE, NextRow(row, healthy, at).successes)
           /\ EndsInRun(Append(h, e), FALSE, NextRow(row, healthy, at).failures)
<1> DEFINE new == NextRow(row, healthy, at)
<1>1. row.successes \in Nat /\ row.failures \in Nat
  BY DEF Row
<1>2. /\ new.successes = IF healthy THEN row.successes + 1 ELSE 0
      /\ new.failures = IF healthy THEN 0 ELSE row.failures + 1
  BY NextRowType
<1> HIDE DEF new
<1>3. CASE healthy
  <2>1. EndsInRun(Append(h, e), TRUE, row.successes + 1)
    BY <1>1, <1>3, RunGrows
  <2>2. EndsInRun(Append(h, e), FALSE, 0)
    BY <1>3, RunBreaks
  <2> QED
    BY <1>2, <1>3, <2>1, <2>2 DEF new
<1>4. CASE ~healthy
  <2>1. EndsInRun(Append(h, e), FALSE, row.failures + 1)
    BY <1>1, <1>4, RunGrows
  <2>2. EndsInRun(Append(h, e), TRUE, 0)
    BY <1>4, RunBreaks
  <2> QED
    BY <1>2, <1>4, <2>1, <2>2 DEF new
<1> QED
  BY <1>3, <1>4

\* The parts of the invariant that speak of one check.
CheckInv(row, h) ==
    /\ EndsInRun(h, TRUE, row.successes)
    /\ EndsInRun(h, FALSE, row.failures)
    /\ row.status = Verdict(h, row.failureThreshold, row.recoveryThreshold)
    /\ row.lastChecked = IF h = <<>> THEN None ELSE h[Len(h)].at

\* The invariant is one condition for each check.
LEMMA StoreInvByCheck ==
    StoreInv <=> StoreTypeOK /\ \A c \in Checks : CheckInv(check[c], history[c])
BY DEF StoreInv, CountersMatchHistory, StatusMatchesHistory, NewestOK, CheckInv

\* It holds of a check that was just created.
LEMMA CheckInvNew ==
    ASSUME NEW f \in 1..MaxThreshold, NEW r \in 1..MaxThreshold
    PROVE  NewRow(f, r) \in Row /\ CheckInv(NewRow(f, r), <<>>)
<1> DEFINE row == NewRow(f, r)
           e   == <<>>
<1>1. /\ row \in Row /\ row.successes = 0 /\ row.failures = 0 /\ row.status = "unknown"
      /\ row.failureThreshold = f /\ row.recoveryThreshold = r /\ row.lastChecked = None
  BY ThresholdAssumption DEF NewRow, Row, Status
<1>2. Len(e) = 0
  OBVIOUS
<1>3. Verdict(e, f, r) = "unknown"
  BY VerdictEmpty, ThresholdAssumption
<1> HIDE DEF row, e
<1>4. EndsInRun(e, TRUE, 0) /\ EndsInRun(e, FALSE, 0)
  BY <1>2 DEF EndsInRun
<1>5. e = <<>>
  BY DEF e
<1> QED
  BY <1>1, <1>3, <1>4, <1>5 DEF CheckInv, row

\* It survives a result of the check.
LEMMA CheckInvNext ==
    ASSUME NEW row \in Row, NEW h \in Seq(Result), NEW healthy \in BOOLEAN,
           NEW at \in Nat, NEW manual \in BOOLEAN, CheckInv(row, h)
    PROVE  LET new == NextRow(row, healthy, at)
               e   == [healthy |-> healthy, at |-> at, manual |-> manual]
           IN  CheckInv(new, Append(h, e))
<1> DEFINE new == NextRow(row, healthy, at)
           e   == [healthy |-> healthy, at |-> at, manual |-> manual]
           g   == Append(h, e)
<1>1. e \in Result
  BY DEF Result
<1>2. /\ row.failureThreshold \in Nat \ {0} /\ row.recoveryThreshold \in Nat \ {0}
      /\ new \in Row /\ new.successes \in Nat /\ new.failures \in Nat
  <2>1. new \in Row
    BY NextRowType
  <2> HIDE DEF new
  <2> QED
    BY <2>1, ThresholdAssumption DEF Row
<1>3. EndsInRun(g, TRUE, new.successes) /\ EndsInRun(g, FALSE, new.failures)
  <2>1. e.healthy = healthy
    OBVIOUS
  <2> HIDE DEF e
  <2> QED
    BY <1>1, <2>1, NextCounters DEF CheckInv
<1>4. Verdict(g, row.failureThreshold, row.recoveryThreshold) =
        IF healthy /\ new.successes >= row.recoveryThreshold THEN "healthy"
        ELSE IF ~healthy /\ new.failures >= row.failureThreshold THEN "critical"
        ELSE Verdict(h, row.failureThreshold, row.recoveryThreshold)
  <2> DEFINE k == row.failureThreshold
             l == row.recoveryThreshold
             m == new.failures
             n == new.successes
  <2>1. k \in Nat \ {0} /\ l \in Nat \ {0} /\ m \in Nat /\ n \in Nat
    BY <1>2
  <2>2. EndsInRun(Append(h, e), FALSE, m) /\ EndsInRun(Append(h, e), TRUE, n)
    BY <1>3
  <2> HIDE DEF new, k, l, m, n, e
  <2>3. /\ n >= l /\ e.healthy = TRUE => Verdict(Append(h, e), k, l) = "healthy"
        /\ m >= k /\ e.healthy = FALSE => Verdict(Append(h, e), k, l) = "critical"
        /\ ~(n >= l /\ e.healthy = TRUE) /\ ~(m >= k /\ e.healthy = FALSE) =>
             Verdict(Append(h, e), k, l) = Verdict(h, k, l)
    BY <1>1, <2>1, <2>2, VerdictAppend
  <2>4. e.healthy = healthy
    BY DEF e
  <2> QED
    BY <2>3, <2>4 DEF k, l, m, n
<1>5. new.status = Verdict(g, new.failureThreshold, new.recoveryThreshold)
  BY <1>4, NextRowType DEF CheckInv
<1>6. g # <<>> /\ g[Len(g)].at = at
  OBVIOUS
<1>7. new.lastChecked = at
  BY NextRowType
<1> HIDE DEF new, g, e
<1>8. CheckInv(new, g)
  BY <1>3, <1>5, <1>6, <1>7 DEF CheckInv
<1> QED
  BY <1>8 DEF new, g, e

-----------------------------------------------------------------------------
(* The theorems about the store *)

\* The invariant holds initially.
LEMMA StoreInvInit == StoreInit => StoreInv
<1> SUFFICES ASSUME StoreInit PROVE StoreInv
  OBVIOUS
<1>1. StoreTypeOK
  <2>1. check \in [Checks -> Row]
    BY CheckInvNew DEF StoreInit
  <2>2. history \in [Checks -> Seq(Result)]
    BY DEF StoreInit
  <2>3. machineStatus \in [Checks -> Status] /\ audits \in [Checks -> Nat]
    BY DEF StoreInit, Status
  <2> QED
    BY <2>1, <2>2, <2>3 DEF StoreTypeOK
<1>2. ASSUME NEW c \in Checks PROVE CheckInv(check[c], history[c])
  <2>1. PICK f \in 1..MaxThreshold, r \in 1..MaxThreshold : check[c] = NewRow(f, r)
    BY DEF StoreInit
  <2> QED
    BY <2>1, CheckInvNew DEF StoreInit
<1> QED
  BY <1>1, <1>2, StoreInvByCheck

\* One transaction preserves the invariant.
LEMMA RecordPreserves ==
    ASSUME StoreInv, NEW c \in Checks, NEW healthy \in BOOLEAN, NEW at \in Nat,
           NEW manual \in BOOLEAN, Record(c, check[c], healthy, at, manual)
    PROVE  StoreInv'
<1> DEFINE e   == [healthy |-> healthy, at |-> at, manual |-> manual]
           new == NextRow(check[c], healthy, at)
<1>1. e \in Result /\ e.healthy = healthy /\ e.at = at
  BY DEF Result
<1>2. StoreTypeOK /\ \A d \in Checks : CheckInv(check[d], history[d])
  BY StoreInvByCheck
<1>3. new \in Row
  BY <1>2, NextRowType DEF StoreTypeOK
<1>4. check' = [check EXCEPT ![c] = new] /\ history' = [history EXCEPT ![c] = Append(@, e)]
  BY DEF Record
<1>5. new.status \in Status /\ machineStatus' = [machineStatus EXCEPT ![c] = new.status]
  BY <1>2, <1>3, <1>4 DEF Record, StoreTypeOK, Row
<1>6. audits' \in [Checks -> Nat]
  BY <1>2 DEF Record, StoreTypeOK
<1>7. CheckInv(new, Append(history[c], e))
  <2>1. check[c] \in Row /\ history[c] \in Seq(Result)
    BY <1>2 DEF StoreTypeOK
  <2> QED
    BY <1>2, <2>1, CheckInvNext
<1> HIDE DEF e, new
<1>8. StoreTypeOK'
  <2>1. check' \in [Checks -> Row]
    BY <1>2, <1>3, <1>4 DEF StoreTypeOK
  <2>2. machineStatus' \in [Checks -> Status]
    BY <1>2, <1>5 DEF StoreTypeOK
  <2>3. history' \in [Checks -> Seq(Result)]
    <3>1. Append(history[c], e) \in Seq(Result)
      BY <1>1, <1>2 DEF StoreTypeOK
    <3> QED
      BY <3>1, <1>2, <1>4 DEF StoreTypeOK
  <2> QED
    BY <1>6, <2>1, <2>2, <2>3 DEF StoreTypeOK
<1>9. ASSUME NEW d \in Checks PROVE CheckInv(check'[d], history'[d])
  <2>1. CASE d = c
    BY <2>1, <1>2, <1>4, <1>7 DEF StoreTypeOK
  <2>2. CASE d # c
    BY <2>2, <1>2, <1>4 DEF StoreTypeOK
  <2> QED
    BY <2>1, <2>2
<1> QED
  BY <1>8, <1>9 DEF StoreInv, CountersMatchHistory, StatusMatchesHistory, NewestOK, CheckInv

\* Every result preserves the invariant.
LEMMA StoreInvNext == StoreInv /\ [StoreNext]_storeVars => StoreInv'
<1> SUFFICES ASSUME StoreInv, [StoreNext]_storeVars PROVE StoreInv'
  OBVIOUS
<1>1. CASE StoreNext
  BY <1>1, RecordPreserves DEF StoreNext
<1>2. CASE UNCHANGED storeVars
  BY <1>2 DEF storeVars, StoreInv, StoreTypeOK, CountersMatchHistory, StatusMatchesHistory,
              NewestOK
<1> QED
  BY <1>1, <1>2

\* recordResult on its own (CheckStore), whoever calls it: the counters, the status and
\* the time of the last check agree with the history after every result, for any
\* thresholds.
THEOREM StoreInvariance == StoreSpec => []StoreInv
<1>1. StoreInit => StoreInv
  BY StoreInvInit
<1>2. StoreInv /\ [StoreNext]_storeVars => StoreInv'
  BY StoreInvNext
<1> QED
  BY <1>1, <1>2, PTL DEF StoreSpec

-----------------------------------------------------------------------------
(* The whole *)

\* The types of the variables that Monitoring adds.
OutcomesOK ==
    /\ clock \in Nat
    /\ probe \in [Workers -> Outcomes \cup {None}]
    /\ handler \in [Handlers ->
            {AtRest} \cup
            [pc : {"running"}, check : Checks, outcome : {None}] \cup
            [pc : {"recording"}, check : Checks, outcome : Outcomes]]

\* A result that a worker is about to record is younger than every scheduled result
\* in its check's history, and none is from the future.
OrderOK ==
    /\ \A w \in Workers : probe[w] # None => wpc[w] = "recording" /\ probe[w].at <= clock
    /\ \A c \in Checks : \A i \in DOMAIN history[c] :
        ~history[c][i].manual =>
            /\ history[c][i].at <= clock
            /\ \A w \in Workers : probe[w] # None /\ job[w] = c => history[c][i].at <= probe[w].at
    /\ ScheduledInOrder

\* What a transaction has read is the row as it still is, and at most one has begun.
TxOK ==
    /\ \A w \in Workers : Began(probe[w]) => probe[w].row = check[job[w]]
    /\ \A m \in Handlers : Began(handler[m].outcome) =>
            handler[m].outcome.row = check[handler[m].check]
    /\ \A v, w \in Workers : Began(probe[v]) /\ Began(probe[w]) => v = w
    /\ \A m, n \in Handlers :
            Began(handler[m].outcome) /\ Began(handler[n].outcome) => m = n
    /\ \A w \in Workers, m \in Handlers : ~(Began(probe[w]) /\ Began(handler[m].outcome))

\* A check on its way to a result: queued, being sent, run or recorded.
Pending(c) == Waiting(c) \/ Running(c)

\* What EarlyOnce says of one history.
Early(h) ==
    \A i \in DOMAIN h :
        i + 2 \in DOMAIN h /\ (\A j \in i..(i + 2) : ~h[j].manual) =>
            h[i].at + Interval <= h[i + 2].at

\* A scheduled result of time t may follow the history, though the last may be young.
Spaced(h, t) ==
    Len(h) >= 2 /\ ~h[Len(h)].manual /\ ~h[Len(h) - 1].manual =>
        h[Len(h) - 1].at + Interval <= t

\* Two of them may.
Rested(h, t) == Len(h) >= 1 /\ ~h[Len(h)].manual => h[Len(h)].at + Interval <= t

\* A check that is listed or on its way may be stored; one that is both, twice.
SpacedOK ==
    /\ \A c \in Checks : Early(history[c])
    /\ due = DueChecks(check, clock)
    /\ \A c \in Checks : c \in batch \/ Pending(c) => Spaced(history[c], clock)
    /\ \A c \in Checks : c \in batch /\ Pending(c) => Rested(history[c], clock)
    /\ \A w \in Workers : probe[w] # None => Spaced(history[job[w]], probe[w].at)

MInv == IInv /\ StoreInv /\ OutcomesOK /\ OrderOK /\ TxOK /\ SpacedOK

-----------------------------------------------------------------------------
(* The scheduler within the whole *)

\* The scheduler's invariant does not depend on what the store reports as due.
LEMMA DueIsFree ==
    ASSUME IInv, UNCHANGED programVars, due' \in SUBSET Checks
    PROVE  IInv'
<1> USE DEF IInv, programVars, dispatcherVars, workerVars
<1>1. Queued' = Queued /\ Held' = Held /\ \A w \in Workers : Busy(w)' <=> Busy(w)
  BY PlacesUnchanged
<1>2. TypeOK'
  BY <1>1 DEF TypeOK
<1>3. ControlOK'
  BY DEF ControlOK
<1>4. OnePlace'
  BY <1>1 DEF OnePlace
<1>5. InFlightExact'
  BY <1>1 DEF InFlightExact
<1> QED
  BY <1>2, <1>3, <1>4, <1>5

\* The due checks are checks.
LEMMA DueChecksType == \A rows, now : DueChecks(rows, now) \in SUBSET Checks
BY DEF DueChecks

\* A restart makes an initial state of the scheduler, but for what is due.
LEMMA RestartIInv ==
    ASSUME IInv, Restart
    PROVE  IInv'
<1> USE DEF Restart
<1>1. \A w \in Workers : ~Busy(w)'
  BY DEF Busy
<1>2. Queued' = {} /\ Held' = {}
  BY <1>1, EmptyDomain DEF Queued, Held
<1>3. TypeOK'
  <2>1. jobs' \in Seq(Checks)
    BY EmptySeq
  <2> QED
    BY <2>1, <1>1 DEF IInv, TypeOK
<1>4. ControlOK'
  BY DEF ControlOK
<1>5. OnePlace'
  BY <1>1, <1>2, EmptyDomain DEF OnePlace
<1>6. InFlightExact'
  BY <1>2 DEF InFlightExact
<1> QED
  BY <1>3, <1>4, <1>5, <1>6 DEF IInv

\* Every step of the whole preserves the scheduler's invariant.
LEMMA StepIInv ==
    ASSUME IInv, [MNext]_mvars
    PROVE  IInv'
<1>1. CASE SchedulerStep
  <2>1. Next
    BY <1>1 DEF SchedulerStep, Worker, Next
  <2> QED
    BY <2>1, NextIInv
<1>2. ASSUME NEW w \in Workers, ScheduledResult(w) \/ ScheduledResultFails(w) PROVE IInv'
  <2>1. Next
    BY <1>2 DEF ScheduledResult, ScheduledResultFails, Worker, Next
  <2> QED
    BY <2>1, NextIInv
<1>3. ASSUME NEW m \in Handlers, ManualRecord(m) PROVE IInv'
  BY <1>3, DueIsFree, DueChecksType DEF ManualRecord
<1>4. CASE Elapse
  BY <1>4, DueIsFree, DueChecksType DEF Elapse
<1>5. CASE Restart
  BY <1>5, RestartIInv
<1>6. ASSUME UNCHANGED vars PROVE IInv'
  BY <1>6, NextIInv
<1>7. ASSUME NEW w \in Workers, TakeTime(w) \/ BeginScheduled(w) PROVE IInv'
  BY <1>6, <1>7 DEF TakeTime, BeginScheduled
<1>8. ASSUME NEW m \in Handlers,
             \/ \E c \in Checks : RunNow(m, c)
             \/ RunNowEnds(m) \/ BeginManual(m) \/ ManualFails(m)
      PROVE  IInv'
  BY <1>6, <1>8 DEF RunNow, RunNowEnds, BeginManual, ManualFails
<1>9. CASE UNCHANGED mvars
  BY <1>6, <1>9 DEF mvars
<1> QED
  BY <1>1, <1>2, <1>3, <1>4, <1>5, <1>7, <1>8, <1>9 DEF MNext

-----------------------------------------------------------------------------
(* The store within the whole *)

\* A worker with an outcome to record has a check.
LEMMA RecordingHasJob ==
    ASSUME IInv, NEW w \in Workers, wpc[w] = "recording"
    PROVE  job[w] \in Checks
BY DEF IInv, TypeOK, Busy

\* The types of the outcomes a worker or a handler is about to record.
LEMMA OutcomeTypes ==
    ASSUME OutcomesOK
    PROVE  /\ \A w \in Workers : probe[w] # None =>
                probe[w].healthy \in BOOLEAN /\ probe[w].at \in Nat
           /\ \A m \in Handlers : handler[m].outcome # None =>
                /\ handler[m].pc = "recording" /\ handler[m].check \in Checks
                /\ handler[m].outcome.healthy \in BOOLEAN /\ handler[m].outcome.at \in Nat
BY DEF OutcomesOK, Outcomes, AtRest

\* Every step of the whole is a transaction of the store or leaves it alone.
LEMMA StepStore ==
    ASSUME IInv, OutcomesOK, TxOK, [MNext]_mvars
    PROVE  [StoreNext]_storeVars
<1>1. ASSUME NEW w \in Workers, ScheduledResult(w) PROVE StoreNext
  <2>1. job[w] \in Checks /\ probe[w].healthy \in BOOLEAN /\ probe[w].at \in Nat
    BY <1>1, RecordingHasJob, OutcomeTypes DEF ScheduledResult, RecordResult, Began
  <2>2. Record(job[w], check[job[w]], probe[w].healthy, probe[w].at, FALSE)
    BY <1>1 DEF ScheduledResult, TxOK
  <2> QED
    BY <2>1, <2>2 DEF StoreNext
<1>2. ASSUME NEW m \in Handlers, ManualRecord(m) PROVE StoreNext
  <2>1. /\ handler[m].check \in Checks
        /\ handler[m].outcome.healthy \in BOOLEAN /\ handler[m].outcome.at \in Nat
    BY <1>2, OutcomeTypes DEF ManualRecord, Began
  <2>2. Record(handler[m].check, check[handler[m].check], handler[m].outcome.healthy,
               handler[m].outcome.at, TRUE)
    BY <1>2 DEF ManualRecord, TxOK
  <2> QED
    BY <2>1, <2>2 DEF StoreNext
<1>3. CASE SchedulerStep \/ Elapse \/ Restart \/ UNCHANGED mvars
  BY <1>3 DEF SchedulerStep, Elapse, Restart, mvars, storeVars
<1>4. ASSUME NEW w \in Workers, TakeTime(w) \/ BeginScheduled(w) \/ ScheduledResultFails(w)
      PROVE  UNCHANGED storeVars
  BY <1>4 DEF TakeTime, BeginScheduled, ScheduledResultFails
<1>5. ASSUME NEW m \in Handlers,
             \/ \E c \in Checks : RunNow(m, c)
             \/ RunNowEnds(m) \/ BeginManual(m) \/ ManualFails(m)
      PROVE  UNCHANGED storeVars
  BY <1>5 DEF RunNow, RunNowEnds, BeginManual, ManualFails
<1> QED
  BY <1>1, <1>2, <1>3, <1>4, <1>5 DEF MNext

-----------------------------------------------------------------------------
(* Outcomes *)

\* A worker with an outcome reads the row of a check.
LEMMA WorkersRow ==
    ASSUME IInv, StoreInv, NEW w \in Workers, wpc[w] = "recording"
    PROVE  check[job[w]] \in Row
BY RecordingHasJob DEF StoreInv, StoreTypeOK

\* Every step keeps the outcomes of their types.
LEMMA StepOutcomes ==
    ASSUME IInv, StoreInv, OutcomesOK, OrderOK, [MNext]_mvars
    PROVE  OutcomesOK'
<1> USE DEF OutcomesOK
<1>1. ASSUME UNCHANGED <<clock, probe, handler>> PROVE OutcomesOK'
  BY <1>1
<1>2. CASE SchedulerStep \/ UNCHANGED mvars
  BY <1>1, <1>2 DEF SchedulerStep, mvars
<1>3. ASSUME NEW w \in Workers, TakeTime(w) PROVE OutcomesOK'
  <2>1. PICK healthy \in BOOLEAN : probe' = [probe EXCEPT ![w] = NewOutcome(healthy)]
    BY <1>3 DEF TakeTime
  <2>2. NewOutcome(healthy) \in Outcomes
    BY DEF NewOutcome, Outcomes
  <2> QED
    BY <1>3, <2>1, <2>2 DEF TakeTime
<1>4. ASSUME NEW w \in Workers, ScheduledResult(w) \/ ScheduledResultFails(w) PROVE OutcomesOK'
  BY <1>4 DEF ScheduledResult, ScheduledResultFails
<1>5. ASSUME NEW m \in Handlers, NEW c \in Checks, RunNow(m, c) PROVE OutcomesOK'
  BY <1>5 DEF RunNow
<1>6. ASSUME NEW m \in Handlers, RunNowEnds(m) PROVE OutcomesOK'
  <2>1. PICK healthy \in BOOLEAN :
          handler' = [handler EXCEPT ![m].pc = "recording", ![m].outcome = NewOutcome(healthy)]
    BY <1>6 DEF RunNowEnds
  <2>2. NewOutcome(healthy) \in Outcomes
    BY DEF NewOutcome, Outcomes
  <2>3. handler[m] \in [pc : {"running"}, check : Checks, outcome : {None}]
    BY <1>6 DEF RunNowEnds, AtRest
  <2>4. [handler[m] EXCEPT !.pc = "recording", !.outcome = NewOutcome(healthy)]
          \in [pc : {"recording"}, check : Checks, outcome : Outcomes]
    BY <2>2, <2>3
  <2>5. handler' = [handler EXCEPT ![m] =
          [handler[m] EXCEPT !.pc = "recording", !.outcome = NewOutcome(healthy)]]
    BY <2>1
  <2> HIDE DEF Outcomes
  <2> QED
    BY <1>6, <2>4, <2>5 DEF RunNowEnds
<1>7. ASSUME NEW m \in Handlers, ManualRecord(m) \/ ManualFails(m) PROVE OutcomesOK'
  BY <1>7 DEF ManualRecord, ManualFails
<1>8. CASE Elapse
  BY <1>8 DEF Elapse
<1>9. CASE Restart
  BY <1>9 DEF Restart
<1>10. ASSUME NEW w \in Workers, BeginScheduled(w) PROVE OutcomesOK'
  <2>1. probe[w] \in Outcomes /\ check[job[w]] \in Row
    <3>1. wpc[w] = "recording"
      BY <1>10 DEF BeginScheduled, OrderOK
    <3> QED
      BY <1>10, <3>1, WorkersRow DEF BeginScheduled
  <2>2. [probe[w] EXCEPT !.row = check[job[w]]] \in Outcomes
    BY <2>1 DEF Outcomes
  <2>3. probe' = [probe EXCEPT ![w] = [probe[w] EXCEPT !.row = check[job[w]]]]
    BY <1>10 DEF BeginScheduled
  <2> HIDE DEF Outcomes
  <2> QED
    BY <1>10, <2>2, <2>3 DEF BeginScheduled
<1>11. ASSUME NEW m \in Handlers, BeginManual(m) PROVE OutcomesOK'
  <2> DEFINE o == handler[m].outcome
             r == check[handler[m].check]
  <2>1. handler[m] \in [pc : {"recording"}, check : Checks, outcome : Outcomes]
    BY <1>11 DEF BeginManual, AtRest
  <2>2. o \in Outcomes /\ r \in Row
    BY <2>1 DEF StoreInv, StoreTypeOK
  <2>3. [o EXCEPT !.row = r] \in Outcomes
    BY <2>2 DEF Outcomes
  <2>4. handler' = [handler EXCEPT ![m] = [handler[m] EXCEPT !.outcome = [o EXCEPT !.row = r]]]
    BY <1>11 DEF BeginManual
  <2>5. [handler[m] EXCEPT !.outcome = [o EXCEPT !.row = r]]
          \in [pc : {"recording"}, check : Checks, outcome : Outcomes]
    BY <2>1, <2>3
  <2> HIDE DEF Outcomes
  <2> QED
    BY <1>11, <2>4, <2>5 DEF BeginManual
<1> QED
  BY <1>2, <1>3, <1>4, <1>5, <1>6, <1>7, <1>8, <1>9, <1>10, <1>11 DEF MNext

-----------------------------------------------------------------------------
(* The order of the scheduled results *)

\* What a transaction does to the histories.
LEMMA RecordHistory ==
    ASSUME StoreTypeOK, NEW c \in Checks, NEW e,
           history' = [history EXCEPT ![c] = Append(@, e)]
    PROVE  /\ \A d \in Checks \ {c} : history'[d] = history[d]
           /\ DOMAIN history[c] = 1..Len(history[c]) /\ Len(history[c]) \in Nat
           /\ DOMAIN history'[c] = 1..(Len(history[c]) + 1)
           /\ \A i \in DOMAIN history[c] : history'[c][i] = history[c][i]
           /\ history'[c][Len(history[c]) + 1] = e
<1> DEFINE h == history[c]
<1>1. h \in Seq(Result)
  BY DEF StoreTypeOK
<1>2. history'[c] = Append(h, e) /\ \A d \in Checks \ {c} : history'[d] = history[d]
  BY DEF StoreTypeOK
<1>3. /\ DOMAIN h = 1..Len(h) /\ Len(h) \in Nat
      /\ DOMAIN Append(h, e) = 1..(Len(h) + 1)
      /\ \A i \in 1..Len(h) : Append(h, e)[i] = h[i]
      /\ Append(h, e)[Len(h) + 1] = e
  <2> HIDE DEF h
  <2> QED
    BY <1>1
<1> QED
  BY <1>2, <1>3

\* A step that stores nothing and leaves the workers with an outcome where they are.
LEMMA OrderKept ==
    ASSUME OrderOK, UNCHANGED <<clock, history>>,
           \A w \in Workers : probe'[w] # None =>
                /\ probe[w] # None /\ probe'[w].at = probe[w].at
                /\ wpc'[w] = wpc[w] /\ job'[w] = job[w]
    PROVE  OrderOK'
<1>1. \A w \in Workers : probe'[w] # None => wpc'[w] = "recording" /\ probe'[w].at <= clock'
  BY DEF OrderOK
<1>2. \A c \in Checks : \A i \in DOMAIN history'[c] :
        ~history'[c][i].manual =>
            /\ history'[c][i].at <= clock'
            /\ \A w \in Workers : probe'[w] # None /\ job'[w] = c =>
                    history'[c][i].at <= probe'[w].at
  BY DEF OrderOK
<1>3. ScheduledInOrder'
  BY DEF OrderOK, ScheduledInOrder
<1> QED
  BY <1>1, <1>2, <1>3 DEF OrderOK

\* The scheduler's own steps keep the order of the results.
LEMMA SchedulerStepOrder ==
    ASSUME IInv, OrderOK, SchedulerStep
    PROVE  OrderOK'
<1> USE DEF SchedulerStep
<1>1. UNCHANGED <<clock, history, probe>>
  BY DEF storeVars
<1>2. \A w \in Workers : probe[w] # None => wpc[w] = "recording"
  BY DEF OrderOK
<1>3. CASE Dispatcher \/ Cancel
  <2>1. UNCHANGED <<wpc, job>>
    BY <1>3 DEF Dispatcher, ListDue, ListFails, Send, AbandonSend, EndOfBatch, Tick, Close,
                Return, Skip, Acquire, Cancel, workerVars
  <2> QED
    BY <1>1, <2>1, OrderKept
<1>4. ASSUME NEW w \in Workers,
             \/ Receive(w) \/ RunEnds(w) \/ Release(w) \/ Exit(w)
             \/ RecordFails(w) /\ probe[w] = None
      PROVE  OrderOK'
  <2>1. probe[w] = None
    BY <1>2, <1>4 DEF Receive, RunEnds, Release, Exit
  <2>2. \A v \in Workers \ {w} : wpc'[v] = wpc[v] /\ job'[v] = job[v]
    BY <1>4 DEF Receive, RunEnds, Release, Exit, RecordFails, IInv, TypeOK
  <2> QED
    BY <1>1, <2>1, <2>2, OrderKept
<1> QED
  BY <1>3, <1>4

\* An outcome is taken after everything the scheduler has stored of its check.
LEMMA TakeTimeOrder ==
    ASSUME OutcomesOK, OrderOK, NEW w \in Workers, TakeTime(w)
    PROVE  OrderOK'
<1>1. wpc[w] = "recording" /\ UNCHANGED <<clock, history, wpc, job>>
  BY DEF TakeTime, vars, workerVars, storeVars
<1>2. /\ probe'[w].at = clock
      /\ \A v \in Workers \ {w} : probe'[v] = probe[v]
  <2>1. PICK healthy \in BOOLEAN : probe' = [probe EXCEPT ![w] = NewOutcome(healthy)]
    BY DEF TakeTime
  <2>2. NewOutcome(healthy).at = clock
    BY DEF NewOutcome
  <2> QED
    BY <2>1, <2>2 DEF OutcomesOK
<1>3. clock \in Nat
  BY DEF OutcomesOK
<1>4. \A v \in Workers : probe'[v] # None => wpc'[v] = "recording" /\ probe'[v].at <= clock'
  BY <1>1, <1>2, <1>3 DEF OrderOK
<1>5. ASSUME NEW c \in Checks, NEW i \in DOMAIN history[c], ~history[c][i].manual
      PROVE  /\ history[c][i].at <= clock
             /\ \A v \in Workers : probe'[v] # None /\ job[v] = c => history[c][i].at <= probe'[v].at
  BY <1>2, <1>5 DEF OrderOK
<1>6. ScheduledInOrder'
  BY <1>1 DEF OrderOK, ScheduledInOrder
<1> QED
  BY <1>1, <1>4, <1>5, <1>6 DEF OrderOK

\* The step the scheduler's mutual exclusion is for: no other worker is about to
\* record an outcome of the same check.
LEMMA ScheduledResultOrder ==
    ASSUME IInv, StoreInv, OutcomesOK, OrderOK, NEW w \in Workers, ScheduledResult(w)
    PROVE  OrderOK'
<1> DEFINE c == job[w]
           n == Len(history[c]) + 1
           t == probe[w].at
<1>1. /\ probe[w] # None /\ wpc[w] = "recording" /\ c \in Checks /\ t \in Nat
  BY RecordingHasJob, OutcomeTypes DEF ScheduledResult, RecordResult, Began
<1>2. t <= clock /\ clock' = clock /\ job' = job
  BY <1>1 DEF OrderOK, ScheduledResult, RecordResult
<1>3. /\ \A d \in Checks \ {c} : history'[d] = history[d]
      /\ DOMAIN history[c] = 1..Len(history[c]) /\ Len(history[c]) \in Nat
      /\ DOMAIN history'[c] = 1..n
      /\ \A i \in DOMAIN history[c] : history'[c][i] = history[c][i]
      /\ history'[c][n].at = t
  <2> DEFINE e == [healthy |-> probe[w].healthy, at |-> t, manual |-> FALSE]
  <2>1. history' = [history EXCEPT ![c] = Append(@, e)]
    BY DEF ScheduledResult, Record
  <2>2. e.at = t /\ StoreTypeOK
    BY DEF StoreInv
  <2> HIDE DEF c, t, e
  <2> QED
    BY <1>1, <2>1, <2>2, RecordHistory
<1>4. /\ probe'[w] = None
      /\ \A v \in Workers \ {w} : probe'[v] = probe[v] /\ wpc'[v] = wpc[v]
  BY DEF ScheduledResult, RecordResult, OutcomesOK, IInv, TypeOK
<1>5. \A v \in Workers \ {w} : probe[v] # None => job[v] # c
  <2>1. \A v \in Workers : probe[v] # None => Busy(v)
    BY DEF OrderOK, Busy
  <2> QED
    BY <1>1, <2>1 DEF IInv, OnePlace
<1>6. \A i \in DOMAIN history[c] : ~history[c][i].manual => history[c][i].at <= t
  BY <1>1 DEF OrderOK
<1> HIDE DEF c, t
<1>7. \A v \in Workers : probe'[v] # None => wpc'[v] = "recording" /\ probe'[v].at <= clock'
  BY <1>2, <1>4 DEF OrderOK
<1>8. ASSUME NEW d \in Checks, NEW i \in DOMAIN history'[d], ~history'[d][i].manual
      PROVE  /\ history'[d][i].at <= clock'
             /\ \A v \in Workers : probe'[v] # None /\ job'[v] = d =>
                    history'[d][i].at <= probe'[v].at
  <2>1. CASE d # c
    <3>1. history'[d] = history[d]
      BY <1>3, <2>1
    <3> QED
      BY <1>2, <1>4, <1>8, <3>1 DEF OrderOK
  <2>2. CASE d = c
    <3>1. \A v \in Workers : ~(probe'[v] # None /\ job'[v] = c)
      BY <1>2, <1>4, <1>5
    <3>2. CASE i = n
      BY <1>2, <1>3, <2>2, <3>1, <3>2
    <3>3. CASE i # n
      <4>1. i \in DOMAIN history[c] /\ history'[c][i] = history[c][i]
        BY <1>3, <2>2, <3>3
      <4> QED
        BY <1>1, <1>2, <1>8, <2>2, <3>1, <4>1 DEF OrderOK
    <3> QED
      BY <3>2, <3>3
  <2> QED
    BY <2>1, <2>2
<1>9. ASSUME NEW d \in Checks, NEW i \in DOMAIN history'[d], NEW j \in DOMAIN history'[d],
             i < j, ~history'[d][i].manual, ~history'[d][j].manual
      PROVE  history'[d][i].at <= history'[d][j].at
  <2>1. CASE d # c
    <3>1. history'[d] = history[d]
      BY <1>3, <2>1
    <3> QED
      BY <1>9, <3>1 DEF OrderOK, ScheduledInOrder
  <2>2. CASE d = c
    <3>1. i \in DOMAIN history[c] /\ history'[c][i] = history[c][i]
      BY <1>3, <1>9, <2>2
    <3>2. CASE j = n
      BY <1>3, <1>6, <1>9, <2>2, <3>1, <3>2
    <3>3. CASE j # n
      <4>1. j \in DOMAIN history[c] /\ history'[c][j] = history[c][j]
        BY <1>3, <2>2, <3>3
      <4> QED
        BY <1>1, <1>9, <2>2, <3>1, <4>1 DEF OrderOK, ScheduledInOrder
    <3> QED
      BY <3>2, <3>3
  <2> QED
    BY <2>1, <2>2
<1> QED
  BY <1>7, <1>8, <1>9 DEF OrderOK, ScheduledInOrder

\* An operator's result may be stored late, and is passed over.
LEMMA ManualRecordOrder ==
    ASSUME StoreInv, OutcomesOK, OrderOK, NEW m \in Handlers, ManualRecord(m)
    PROVE  OrderOK'
<1> DEFINE c == handler[m].check
           n == Len(history[c]) + 1
           e == [healthy |-> handler[m].outcome.healthy, at |-> handler[m].outcome.at,
                 manual |-> TRUE]
<1>1. UNCHANGED <<clock, probe, wpc, job>>
  BY DEF ManualRecord, programVars, workerVars
<1>2. c \in Checks
  BY OutcomeTypes DEF ManualRecord, Began
<1>3. history' = [history EXCEPT ![c] = Append(@, e)] /\ e.manual = TRUE /\ StoreTypeOK
  BY DEF ManualRecord, Record, StoreInv
<1> HIDE DEF c, e
<1>4. /\ \A d \in Checks \ {c} : history'[d] = history[d]
      /\ DOMAIN history[c] = 1..Len(history[c]) /\ Len(history[c]) \in Nat
      /\ DOMAIN history'[c] = 1..n
      /\ \A i \in DOMAIN history[c] : history'[c][i] = history[c][i]
      /\ history'[c][n].manual = TRUE
  BY <1>2, <1>3, RecordHistory
<1>5. \A d \in Checks : \A i \in DOMAIN history'[d] : ~history'[d][i].manual =>
        i \in DOMAIN history[d] /\ history'[d][i] = history[d][i]
  <2>1. ASSUME NEW d \in Checks, NEW i \in DOMAIN history'[d], ~history'[d][i].manual
        PROVE  i \in DOMAIN history[d] /\ history'[d][i] = history[d][i]
    <3>1. CASE d = c
      BY <1>4, <2>1, <3>1
    <3>2. CASE d # c
      BY <1>4, <2>1, <3>2
    <3> QED
      BY <3>1, <3>2
  <2> QED
    BY <2>1
<1>6. \A d \in Checks : \A i \in DOMAIN history'[d] :
        ~history'[d][i].manual =>
            /\ history'[d][i].at <= clock
            /\ \A w \in Workers : probe[w] # None /\ job[w] = d => history'[d][i].at <= probe[w].at
  BY <1>5 DEF OrderOK
<1>7. ScheduledInOrder'
  BY <1>5 DEF OrderOK, ScheduledInOrder
<1> QED
  BY <1>1, <1>6, <1>7 DEF OrderOK

\* Time passing keeps the order of the results.
LEMMA ElapseOrder ==
    ASSUME StoreInv, OutcomesOK, OrderOK, Elapse
    PROVE  OrderOK'
<1>1. clock' = clock + 1 /\ clock \in Nat /\ UNCHANGED <<history, probe, wpc, job>>
  BY DEF Elapse, OutcomesOK, programVars, workerVars, storeVars
<1>2. \A w \in Workers : probe[w] # None => probe[w].at \in Nat
  BY OutcomeTypes
<1>3. \A c \in Checks : \A i \in DOMAIN history[c] : history[c][i].at \in Nat
  <2>1. ASSUME NEW c \in Checks, NEW i \in DOMAIN history[c] PROVE history[c][i].at \in Nat
    <3>1. history[c] \in Seq(Result)
      BY DEF StoreInv, StoreTypeOK
    <3>2. history[c][i] \in Result
      BY <2>1, <3>1, ElementOfSeq, LenProperties
    <3> QED
      BY <3>2 DEF Result
  <2> QED
    BY <2>1
<1>4. \A w \in Workers : probe[w] # None => wpc[w] = "recording" /\ probe[w].at <= clock'
  BY <1>1, <1>2 DEF OrderOK
<1>5. \A c \in Checks : \A i \in DOMAIN history[c] :
        ~history[c][i].manual =>
            /\ history[c][i].at <= clock'
            /\ \A w \in Workers : probe[w] # None /\ job[w] = c => history[c][i].at <= probe[w].at
  BY <1>1, <1>3 DEF OrderOK
<1>6. ScheduledInOrder'
  BY <1>1 DEF OrderOK, ScheduledInOrder
<1> QED
  BY <1>1, <1>4, <1>5, <1>6 DEF OrderOK

\* Every step keeps the order of the results.
LEMMA StepOrder ==
    ASSUME IInv, StoreInv, OutcomesOK, OrderOK, [MNext]_mvars
    PROVE  OrderOK'
<1>1. CASE SchedulerStep
  BY <1>1, SchedulerStepOrder
<1>2. ASSUME NEW w \in Workers, TakeTime(w) \/ ScheduledResult(w) PROVE OrderOK'
  BY <1>2, TakeTimeOrder, ScheduledResultOrder
<1>3. ASSUME NEW w \in Workers, ScheduledResultFails(w) PROVE OrderOK'
  <2>1. UNCHANGED <<clock, history, job>>
    BY <1>3 DEF ScheduledResultFails, RecordFails, storeVars
  <2>2. probe' = [probe EXCEPT ![w] = None] /\ wpc' = [wpc EXCEPT ![w] = "releasing"]
    BY <1>3 DEF ScheduledResultFails, RecordFails
  <2>3. \A v \in Workers : probe'[v] # None =>
            probe'[v] = probe[v] /\ wpc'[v] = wpc[v] /\ job'[v] = job[v]
    BY <2>1, <2>2 DEF OutcomesOK, IInv, TypeOK
  <2> QED
    BY <2>1, <2>3, OrderKept
<1>4. ASSUME NEW m \in Handlers, ManualRecord(m) PROVE OrderOK'
  BY <1>4, ManualRecordOrder
<1>5. ASSUME NEW m \in Handlers,
             \/ \E c \in Checks : RunNow(m, c)
             \/ RunNowEnds(m) \/ BeginManual(m) \/ ManualFails(m)
      PROVE  OrderOK'
  <2>1. UNCHANGED <<clock, history, probe, wpc, job>>
    BY <1>5 DEF RunNow, RunNowEnds, BeginManual, ManualFails, vars, workerVars, storeVars
  <2> QED
    BY <2>1, OrderKept
<1>6. CASE Elapse
  BY <1>6, ElapseOrder
<1>7. CASE Restart
  <2>1. UNCHANGED <<clock, history>> /\ \A w \in Workers : probe'[w] = None
    BY <1>7 DEF Restart, storeVars
  <2> QED
    BY <2>1, OrderKept
<1>8. CASE UNCHANGED mvars
  <2>1. UNCHANGED <<clock, history, probe, wpc, job>>
    BY <1>8 DEF mvars, vars, workerVars, storeVars
  <2> QED
    BY <2>1, OrderKept
<1>9. ASSUME NEW w \in Workers, BeginScheduled(w) PROVE OrderOK'
  <2>1. UNCHANGED <<clock, history, wpc, job>> /\ probe[w] # None
    BY <1>9 DEF BeginScheduled, vars, workerVars, storeVars
  <2>2. probe' = [probe EXCEPT ![w].row = check[job[w]]]
    BY <1>9 DEF BeginScheduled
  <2>3. \A v \in Workers : probe'[v] # None => probe[v] # None /\ probe'[v].at = probe[v].at
    <3>1. probe \in [Workers -> Outcomes \cup {None}] /\ probe[w] \in Outcomes
      BY <2>1 DEF OutcomesOK
    <3>2. [probe[w] EXCEPT !.row = check[job[w]]].at = probe[w].at
      BY <3>1 DEF Outcomes
    <3>3. probe' = [probe EXCEPT ![w] = [probe[w] EXCEPT !.row = check[job[w]]]]
      BY <2>2
    <3> QED
      BY <2>1, <3>1, <3>2, <3>3
  <2> QED
    BY <2>1, <2>3, OrderKept
<1> QED
  BY <1>1, <1>2, <1>3, <1>4, <1>5, <1>6, <1>7, <1>8, <1>9 DEF MNext

-----------------------------------------------------------------------------
(* The transactions *)

\* A step that changes no row and begins no transaction.
LEMMA TxKept ==
    ASSUME TxOK, check' = check,
           \A w \in Workers : Began(probe'[w]) =>
                Began(probe[w]) /\ probe'[w].row = probe[w].row /\ job'[w] = job[w],
           \A m \in Handlers : Began(handler'[m].outcome) =>
                handler'[m].outcome = handler[m].outcome /\ handler'[m].check = handler[m].check
    PROVE  TxOK'
BY DEF TxOK, Began

\* A step after which no transaction is open.
LEMMA TxClosed ==
    ASSUME \A w \in Workers : ~Began(probe'[w]),
           \A m \in Handlers : ~Began(handler'[m].outcome)
    PROVE  TxOK'
BY DEF TxOK, Began

\* What the steps of a handler leave of its transaction.
LEMMA HandlerTx ==
    ASSUME OutcomesOK, NEW m \in Handlers,
           (\E c \in Checks : RunNow(m, c)) \/ RunNowEnds(m) \/ ManualRecord(m) \/ ManualFails(m)
    PROVE  /\ ~Began(handler'[m].outcome)
           /\ \A n \in Handlers \ {m} : handler'[n] = handler[n]
<1>1. CASE \E c \in Checks : RunNow(m, c)
  BY <1>1 DEF RunNow, OutcomesOK, Began
<1>2. CASE RunNowEnds(m)
  <2>1. PICK healthy \in BOOLEAN :
          handler' = [handler EXCEPT ![m].pc = "recording", ![m].outcome = NewOutcome(healthy)]
    BY <1>2 DEF RunNowEnds
  <2>2. handler[m] \in [pc : {"running"}, check : Checks, outcome : {None}]
    <3>1. handler[m].pc = "running"
      BY <1>2 DEF RunNowEnds
    <3>2. handler[m] \in {AtRest} \cup
            [pc : {"running"}, check : Checks, outcome : {None}] \cup
            [pc : {"recording"}, check : Checks, outcome : Outcomes]
      BY DEF OutcomesOK
    <3> QED
      BY <3>1, <3>2 DEF AtRest
  <2>3. [handler[m] EXCEPT !.pc = "recording", !.outcome = NewOutcome(healthy)].outcome
          = NewOutcome(healthy)
    BY <2>2
  <2>4. handler' = [handler EXCEPT ![m] =
          [handler[m] EXCEPT !.pc = "recording", !.outcome = NewOutcome(healthy)]]
    BY <2>1
  <2>5. NewOutcome(healthy).row = None
    BY DEF NewOutcome
  <2> QED
    BY <2>3, <2>4, <2>5 DEF OutcomesOK, Began
<1>3. CASE ManualRecord(m) \/ ManualFails(m)
  <2>1. handler' = [handler EXCEPT ![m] = AtRest] /\ AtRest.outcome = None
    BY <1>3 DEF ManualRecord, ManualFails, AtRest
  <2> QED
    BY <2>1 DEF OutcomesOK, Began
<1> QED
  BY <1>1, <1>2, <1>3

\* Every step keeps the transactions apart, and their rows as they were read.
LEMMA StepTx ==
    ASSUME IInv, OutcomesOK, OrderOK, TxOK, [MNext]_mvars
    PROVE  TxOK'
<1>1. CASE SchedulerStep
  <2>1. UNCHANGED <<probe, handler, check>>
    BY <1>1 DEF SchedulerStep, storeVars
  <2>2. \A w \in Workers : probe[w] # None => job'[w] = job[w]
    <3>1. \A w \in Workers : probe[w] # None => wpc[w] = "recording"
      BY DEF OrderOK
    <3>2. CASE Dispatcher \/ Cancel
      BY <3>2 DEF Dispatcher, ListDue, ListFails, Send, AbandonSend, EndOfBatch, Tick, Close,
                  Return, Skip, Acquire, Cancel, workerVars
    <3>3. ASSUME NEW v \in Workers,
                 \/ Receive(v) \/ RunEnds(v) \/ Release(v) \/ Exit(v)
                 \/ RecordFails(v) /\ probe[v] = None
          PROVE  \A w \in Workers : probe[w] # None => job'[w] = job[w]
      BY <3>1, <3>3 DEF Receive, RunEnds, Release, Exit, RecordFails, IInv, TypeOK
    <3> QED
      BY <1>1, <3>2, <3>3 DEF SchedulerStep
  <2> QED
    BY <2>1, <2>2, TxKept DEF Began
<1>2. ASSUME NEW w \in Workers, TakeTime(w) \/ ScheduledResultFails(w) PROVE TxOK'
  <2>1. UNCHANGED <<handler, check, job>>
    BY <1>2 DEF TakeTime, ScheduledResultFails, RecordFails, vars, storeVars
  <2>2. ~Began(probe'[w]) /\ \A v \in Workers \ {w} : probe'[v] = probe[v]
    BY <1>2 DEF TakeTime, ScheduledResultFails, NewOutcome, Began, OutcomesOK
  <2> QED
    BY <2>1, <2>2, TxKept
<1>3. ASSUME NEW w \in Workers, ScheduledResult(w) PROVE TxOK'
  <2>1. Began(probe[w]) /\ handler' = handler /\ probe' = [probe EXCEPT ![w] = None]
    BY <1>3 DEF ScheduledResult
  <2>2. \A v \in Workers : ~Began(probe'[v])
    BY <2>1 DEF TxOK, Began, OutcomesOK
  <2> QED
    BY <2>1, <2>2, TxClosed DEF TxOK
<1>4. ASSUME NEW m \in Handlers, ManualRecord(m) PROVE TxOK'
  <2>1. Began(handler[m].outcome) /\ probe' = probe
    BY <1>4 DEF ManualRecord
  <2>2. \A n \in Handlers : ~Began(handler'[n].outcome)
    BY <1>4, <2>1, HandlerTx DEF TxOK
  <2> QED
    BY <2>1, <2>2, TxClosed DEF TxOK
<1>5. ASSUME NEW m \in Handlers,
             (\E c \in Checks : RunNow(m, c)) \/ RunNowEnds(m) \/ ManualFails(m)
      PROVE  TxOK'
  <2>1. UNCHANGED <<probe, check, job>>
    BY <1>5 DEF RunNow, RunNowEnds, ManualFails, vars, storeVars
  <2>2. ~Began(handler'[m].outcome) /\ \A n \in Handlers \ {m} : handler'[n] = handler[n]
    BY <1>5, HandlerTx
  <2> QED
    BY <2>1, <2>2, TxKept
<1>6. ASSUME NEW w \in Workers, BeginScheduled(w) PROVE TxOK'
  <2>1. UNCHANGED <<handler, check, job>> /\ ConnectionFree /\ probe[w] # None
    BY <1>6 DEF BeginScheduled, vars, storeVars
  <2>2. /\ probe'[w].row = check[job[w]]
        /\ \A v \in Workers \ {w} : probe'[v] = probe[v]
    <3>1. probe \in [Workers -> Outcomes \cup {None}] /\ probe[w] \in Outcomes
      BY <2>1 DEF OutcomesOK
    <3>2. [probe[w] EXCEPT !.row = check[job[w]]].row = check[job[w]]
      BY <3>1 DEF Outcomes
    <3>3. probe' = [probe EXCEPT ![w] = [probe[w] EXCEPT !.row = check[job[w]]]]
      BY <1>6 DEF BeginScheduled
    <3> QED
      BY <3>1, <3>2, <3>3
  <2>3. \A v \in Workers \ {w} : ~Began(probe'[v])
    BY <2>1, <2>2 DEF ConnectionFree
  <2>4. \A m \in Handlers : ~Began(handler'[m].outcome)
    BY <2>1 DEF ConnectionFree
  <2> QED
    BY <2>1, <2>2, <2>3, <2>4 DEF TxOK, Began
<1>7. ASSUME NEW m \in Handlers, BeginManual(m) PROVE TxOK'
  <2> DEFINE o == handler[m].outcome
             r == check[handler[m].check]
  <2>1. UNCHANGED <<probe, check, job>> /\ ConnectionFree
    BY <1>7 DEF BeginManual, vars, storeVars
  <2>2. /\ handler'[m].outcome.row = r /\ handler'[m].check = handler[m].check
        /\ \A n \in Handlers \ {m} : handler'[n] = handler[n]
    <3>1. handler[m] \in [pc : {"recording"}, check : Checks, outcome : Outcomes]
      BY <1>7 DEF BeginManual, OutcomesOK, AtRest
    <3>2. [o EXCEPT !.row = r].row = r
      BY <3>1 DEF Outcomes
    <3>3. handler' = [handler EXCEPT ![m] = [handler[m] EXCEPT !.outcome = [o EXCEPT !.row = r]]]
      BY <1>7 DEF BeginManual
    <3>4. \A x : /\ [handler[m] EXCEPT !.outcome = x].outcome = x
                 /\ [handler[m] EXCEPT !.outcome = x].check = handler[m].check
      BY <3>1
    <3>5. handler'[m] = [handler[m] EXCEPT !.outcome = [o EXCEPT !.row = r]]
      BY <3>3 DEF OutcomesOK
    <3> HIDE DEF o, r
    <3> QED
      BY <3>2, <3>3, <3>4, <3>5 DEF OutcomesOK
  <2>3. \A n \in Handlers \ {m} : ~Began(handler'[n].outcome)
    BY <2>1, <2>2 DEF ConnectionFree
  <2>4. \A w \in Workers : ~Began(probe'[w])
    BY <2>1 DEF ConnectionFree
  <2> HIDE DEF o
  <2> QED
    BY <2>1, <2>2, <2>3, <2>4 DEF TxOK, Began
<1>8. CASE Restart
  <2>1. \A w \in Workers : ~Began(probe'[w])
    BY <1>8 DEF Restart, Began
  <2>2. \A m \in Handlers : ~Began(handler'[m].outcome)
    BY <1>8 DEF Restart, Began, AtRest
  <2> QED
    BY <2>1, <2>2, TxClosed
<1>9. CASE Elapse \/ UNCHANGED mvars
  <2>1. UNCHANGED <<probe, handler, check, job>>
    BY <1>9 DEF Elapse, mvars, vars, storeVars, programVars, workerVars
  <2> QED
    BY <2>1, TxKept
<1> QED
  BY <1>1, <1>2, <1>3, <1>4, <1>5, <1>6, <1>7, <1>8, <1>9 DEF MNext

-----------------------------------------------------------------------------
(* The distance of the scheduled results *)

\* The invariant's first part is EarlyOnce.
LEMMA EarlyOnceByCheck == EarlyOnce <=> \A c \in Checks : Early(history[c])
BY DEF EarlyOnce, Early

\* The results of a history.
LEMMA HistoryResults ==
    ASSUME NEW h \in Seq(Result)
    PROVE  /\ DOMAIN h = 1..Len(h) /\ Len(h) \in Nat
           /\ \A i \in DOMAIN h : h[i] \in Result /\ h[i].at \in Nat
<1>1. DOMAIN h = 1..Len(h) /\ Len(h) \in Nat /\ \A i \in DOMAIN h : h[i] \in Result
  BY ElementOfSeq, LenProperties
<1> QED
  BY <1>1 DEF Result

\* A history with one more result.
LEMMA AppendedResult ==
    ASSUME NEW h \in Seq(Result), NEW e \in Result
    PROVE  /\ Append(h, e) \in Seq(Result)
           /\ Len(Append(h, e)) = Len(h) + 1 /\ Append(h, e)[Len(h) + 1] = e
           /\ \A i \in 1..Len(h) : Append(h, e)[i] = h[i]
OBVIOUS

\* One more result keeps the distances if it is an operator's, or as late as it has to be.
LEMMA EarlyAppend ==
    ASSUME NEW h \in Seq(Result), NEW e \in Result, Early(h),
           e.manual \/ Spaced(h, e.at)
    PROVE  Early(Append(h, e))
<1> DEFINE g == Append(h, e)
           n == Len(h)
<1>1. n \in Nat /\ DOMAIN h = 1..n
  BY HistoryResults
<1>2. g \in Seq(Result) /\ Len(g) = n + 1 /\ g[n + 1] = e /\ \A i \in 1..n : g[i] = h[i]
  BY AppendedResult
<1>3. DOMAIN g = 1..(n + 1)
  BY <1>2, HistoryResults
<1> HIDE DEF g, n
<1>4. SUFFICES ASSUME NEW i \in DOMAIN g, i + 2 \in DOMAIN g, \A j \in i..(i + 2) : ~g[j].manual
               PROVE  g[i].at + Interval <= g[i + 2].at
  BY DEF Early, g
<1>5. CASE i + 2 \in 1..n
  <2>1. i \in 1..n /\ i..(i + 2) \subseteq 1..n
    BY <1>1, <1>3, <1>4, <1>5
  <2>2. g[i] = h[i] /\ g[i + 2] = h[i + 2] /\ \A j \in i..(i + 2) : ~h[j].manual
    BY <1>2, <1>4, <1>5, <2>1
  <2> QED
    BY <1>1, <1>5, <2>1, <2>2 DEF Early
<1>6. CASE i + 2 \notin 1..n
  <2>1. i + 2 = n + 1 /\ i = n - 1 /\ n >= 2
    BY <1>1, <1>3, <1>4, <1>6
  <2>2. ~g[n - 1].manual /\ ~g[n].manual /\ ~g[n + 1].manual
    BY <1>1, <1>4, <2>1
  <2>3. g[n - 1] = h[n - 1] /\ g[n] = h[n]
    BY <1>1, <1>2, <2>1
  <2>4. h[n - 1].at + Interval <= e.at
    BY <1>2, <2>1, <2>2, <2>3 DEF Spaced, n
  <2> QED
    BY <1>2, <2>1, <2>3, <2>4
<1> QED
  BY <1>5, <1>6

\* What a further result makes of the distance that is left.
LEMMA SpacedAppend ==
    ASSUME NEW h \in Seq(Result), NEW e \in Result, NEW t
    PROVE  /\ e.manual \/ Rested(h, t) => Spaced(Append(h, e), t)
           /\ e.manual => Rested(Append(h, e), t)
<1> DEFINE g == Append(h, e)
           n == Len(h)
<1>1. n \in Nat
  BY HistoryResults
<1>2. Len(g) = n + 1 /\ g[n + 1] = e /\ \A i \in 1..n : g[i] = h[i]
  BY AppendedResult
<1> HIDE DEF g
<1>3. ASSUME e.manual \/ Rested(h, t), Len(g) >= 2, ~g[Len(g)].manual, ~g[Len(g) - 1].manual
      PROVE  g[Len(g) - 1].at + Interval <= t
  <2>1. n >= 1 /\ Len(g) - 1 = n /\ g[n] = h[n] /\ g[Len(g)] = e
    BY <1>1, <1>2, <1>3
  <2> QED
    BY <1>3, <2>1 DEF Rested
<1>4. e.manual => Rested(g, t)
  BY <1>2 DEF Rested
<1> QED
  BY <1>3, <1>4 DEF Spaced, g

\* Time makes room.
LEMMA SpacedLater ==
    ASSUME NEW h \in Seq(Result), NEW t \in Nat
    PROVE  (Spaced(h, t) => Spaced(h, t + 1)) /\ (Rested(h, t) => Rested(h, t + 1))
<1>1. Len(h) \in Nat /\ \A i \in 1..Len(h) : h[i].at \in Nat
  BY HistoryResults
<1>2. Interval \in Nat
  BY BoundsAssumption
<1>3. Spaced(h, t) => Spaced(h, t + 1)
  BY <1>1, <1>2 DEF Spaced
<1>4. Rested(h, t) => Rested(h, t + 1)
  BY <1>1, <1>2 DEF Rested
<1> QED
  BY <1>3, <1>4

\* A check that is due has rested.
LEMMA DueIsRested ==
    ASSUME StoreInv, OutcomesOK, OrderOK, SpacedOK, NEW c \in Checks, c \in due
    PROVE  Spaced(history[c], clock) /\ Rested(history[c], clock)
<1> DEFINE h == history[c]
<1>1. h \in Seq(Result) /\ clock \in Nat /\ Interval \in Nat
  BY BoundsAssumption DEF StoreInv, StoreTypeOK, OutcomesOK
<1>2. \A i, j \in DOMAIN h : i < j /\ ~h[i].manual /\ ~h[j].manual => h[i].at <= h[j].at
  BY DEF OrderOK, ScheduledInOrder
<1>3. check[c].lastChecked = None \/ check[c].lastChecked + Interval <= clock
  BY DEF SpacedOK, DueChecks, IsDue
<1>4. check[c].lastChecked = IF h = <<>> THEN None ELSE h[Len(h)].at
  BY DEF StoreInv, NewestOK
<1> HIDE DEF h
<1>5. DOMAIN h = 1..Len(h) /\ Len(h) \in Nat /\ \A i \in DOMAIN h : h[i].at \in Nat
  BY <1>1, HistoryResults
<1>6. CASE h = <<>>
  <2>1. Len(h) = 0
    BY <1>6, <1>1, EmptySeq
  <2> QED
    BY <2>1 DEF Spaced, Rested, h
<1>7. CASE h # <<>>
  <2>1. Len(h) >= 1
    BY <1>1, <1>7, EmptySeq
  <2>2. h[Len(h)].at \in Nat /\ h[Len(h)].at + Interval <= clock
    <3>1. h[Len(h)].at \in Nat
      BY <1>5, <2>1
    <3>2. h[Len(h)].at # None
      BY <3>1, NoneAssumption
    <3>3. check[c].lastChecked = h[Len(h)].at
      BY <1>4, <1>7
    <3> QED
      BY <1>3, <3>1, <3>2, <3>3
  <2>3. ASSUME Len(h) >= 2, ~h[Len(h)].manual, ~h[Len(h) - 1].manual
        PROVE  h[Len(h) - 1].at + Interval <= clock
    <3>1. h[Len(h) - 1].at <= h[Len(h)].at /\ h[Len(h) - 1].at \in Nat
      BY <1>2, <1>5, <2>3
    <3> QED
      BY <1>1, <2>2, <3>1
  <2> QED
    BY <2>2, <2>3 DEF Spaced, Rested, h
<1> QED
  BY <1>6, <1>7

\* In the scheduler a check gets on its way only from the list, which grows only by what
\* is due.
LEMMA NextMoves ==
    ASSUME IInv, IInv', Next
    PROVE  /\ \A c \in Checks : Pending(c)' => Pending(c) \/ (c \in batch /\ c \notin batch')
           /\ batch' \subseteq batch \/ batch' \subseteq due
<1>1. Abstract!Next \/ UNCHANGED Abstract!vars
  <2>1. CASE Dispatcher
    BY <2>1, DispatcherRefines
  <2>2. CASE \E w \in Workers : Worker(w)
    BY <2>2, ReceiveRefines, WorkerRefines
  <2>3. CASE \/ \E c \in Checks : BecomeDue(c) \/ ManualResult(c)
             \/ Cancel \/ Finished
    BY <2>3, EnvironmentRefines
  <2> QED
    BY <2>1, <2>2, <2>3 DEF Next
<1> DEFINE P == PhaseOfAll
<1>2. \A c \in Checks : P[c] \in {"waiting", "running"} <=> Pending(c)
  BY DEF PhaseOfAll, PhaseOf, Pending, Waiting, Running
<1>3. \A c \in Checks : P'[c] \in {"waiting", "running"} <=> Pending(c)'
  BY DEF PhaseOfAll, PhaseOf, Pending, Waiting, Running
<1>4. /\ \A c \in Checks : P'[c] \in {"waiting", "running"} =>
            P[c] \in {"waiting", "running"} \/ (c \in batch /\ c \notin batch')
      /\ batch' \subseteq batch \/ batch' \subseteq due
  <2>1. DOMAIN P = Checks
    BY DEF PhaseOfAll
  <2> QED
    BY <1>1, <2>1 DEF Abstract!Next, Abstract!vars, Abstract!Offer, Abstract!Pass, Abstract!Claim,
        Abstract!Withdraw, Abstract!Begin, Abstract!Record, Abstract!Drop, Abstract!End,
        Abstract!Environment, Abstract!Stop, PhaseOfAll
<1> QED
  BY <1>2, <1>3, <1>4

\* A step that stores nothing keeps the distances.
LEMMA SpacedKept ==
    ASSUME SpacedOK, UNCHANGED <<check, history, clock, due>>,
           \A c \in Checks : Pending(c)' => Pending(c) \/ (c \in batch /\ c \notin batch'),
           \/ batch' \subseteq batch
           \/ \A c \in Checks : c \in batch' =>
                    Spaced(history[c], clock) /\ Rested(history[c], clock),
           \A w \in Workers : probe'[w] # None => Spaced(history[job'[w]], probe'[w].at)
    PROVE  SpacedOK'
<1>1. \A c \in Checks : c \in batch' \/ Pending(c)' => Spaced(history[c], clock)
  BY DEF SpacedOK
<1>2. \A c \in Checks : c \in batch' /\ Pending(c)' => Rested(history[c], clock)
  BY DEF SpacedOK
<1> QED
  BY <1>1, <1>2 DEF SpacedOK

\* The steps of the scheduler's own keep the distances.
LEMMA SchedulerStepSpaced ==
    ASSUME IInv, IInv', StoreInv, OutcomesOK, OrderOK, SpacedOK, Next,
           UNCHANGED <<check, history, clock, due>>,
           \A w \in Workers : probe'[w] # None => probe'[w] = probe[w] /\ job'[w] = job[w]
    PROVE  SpacedOK'
<1>1. /\ \A c \in Checks : Pending(c)' => Pending(c) \/ (c \in batch /\ c \notin batch')
      /\ batch' \subseteq batch \/ batch' \subseteq due
  BY NextMoves
<1>2. \A c \in Checks : c \in due => Spaced(history[c], clock) /\ Rested(history[c], clock)
  BY DueIsRested
<1>3. \A w \in Workers : probe'[w] # None => Spaced(history[job'[w]], probe'[w].at)
  BY DEF SpacedOK
<1>4. \/ batch' \subseteq batch
      \/ \A c \in Checks : c \in batch' =>
            Spaced(history[c], clock) /\ Rested(history[c], clock)
  BY <1>1, <1>2
<1> QED
  BY <1>1, <1>3, <1>4, SpacedKept

\* A step that leaves the scheduler where it is.
LEMMA PendingKept ==
    ASSUME UNCHANGED <<jobs, loop, sending, wpc, job>>
    PROVE  \A c \in Checks : Pending(c)' <=> Pending(c)
BY DEF Pending, Waiting, Running, Queued

\* A result in one check's history, after which the check is not on its way any more or
\* the result is an operator's.
LEMMA StoredSpaced ==
    ASSUME StoreTypeOK, SpacedOK, NEW c \in Checks, NEW e \in Result,
           history' = [history EXCEPT ![c] = Append(@, e)],
           clock' = clock, due' = DueChecks(check', clock), batch' = batch,
           e.manual \/ (Pending(c) /\ ~Pending(c)' /\ Spaced(history[c], e.at)),
           \A d \in Checks : Pending(d)' => Pending(d),
           \A w \in Workers : probe'[w] # None =>
                probe'[w] = probe[w] /\ job'[w] = job[w] /\ (e.manual \/ job[w] # c)
    PROVE  SpacedOK'
<1>1. /\ history'[c] = Append(history[c], e) /\ history[c] \in Seq(Result)
      /\ \A d \in Checks \ {c} : history'[d] = history[d]
  BY DEF StoreTypeOK
<1>2. \A d \in Checks : Early(history'[d])
  BY <1>1, EarlyAppend DEF SpacedOK
<1>3. due' = DueChecks(check', clock')
  OBVIOUS
<1>4. /\ e.manual \/ Rested(history[c], clock) => Spaced(history'[c], clock)
      /\ e.manual => Rested(history'[c], clock)
      /\ \A t : e.manual => Spaced(history'[c], t)
  BY <1>1, SpacedAppend
<1>5. \A d \in Checks : d \in batch' \/ Pending(d)' => Spaced(history'[d], clock')
  BY <1>1, <1>4 DEF SpacedOK
<1>6. \A d \in Checks : d \in batch' /\ Pending(d)' => Rested(history'[d], clock')
  BY <1>1, <1>4 DEF SpacedOK
<1>7. ASSUME NEW w \in Workers, probe'[w] # None
      PROVE  Spaced(history'[job'[w]], probe'[w].at)
  <2>1. probe'[w] = probe[w] /\ job'[w] = job[w] /\ (e.manual \/ job[w] # c)
    BY <1>7
  <2>2. Spaced(history[job[w]], probe[w].at)
    BY <1>7, <2>1 DEF SpacedOK
  <2>3. CASE job[w] = c
    BY <1>4, <2>1, <2>3
  <2>4. CASE job[w] # c
    <3>1. history'[job[w]] = history[job[w]]
      BY <2>4
    <3> QED
      BY <2>1, <2>2, <3>1
  <2> QED
    BY <2>3, <2>4
<1> QED
  BY <1>2, <1>3, <1>5, <1>6, <1>7 DEF SpacedOK

\* The result of a scheduled run.
LEMMA ScheduledResultSpaced ==
    ASSUME IInv, IInv', StoreInv, OutcomesOK, OrderOK, SpacedOK,
           NEW w \in Workers, ScheduledResult(w)
    PROVE  SpacedOK'
<1> DEFINE e == [healthy |-> probe[w].healthy, at |-> probe[w].at, manual |-> FALSE]
<1>0. PICK c \in Checks : c = job[w]
  BY RecordingHasJob DEF ScheduledResult, RecordResult
<1>1. /\ probe[w] # None /\ wpc[w] = "recording" /\ c = job[w]
      /\ probe[w].at \in Nat /\ probe[w].healthy \in BOOLEAN
  BY <1>0, OutcomeTypes DEF ScheduledResult, RecordResult, Began
<1>2. e \in Result /\ e.at = probe[w].at /\ ~e.manual
  BY <1>1 DEF Result
<1>3. /\ history' = [history EXCEPT ![c] = Append(@, e)]
      /\ clock' = clock /\ due' = DueChecks(check', clock)
      /\ job' = job /\ batch' = batch /\ wpc' = [wpc EXCEPT ![w] = "releasing"]
      /\ UNCHANGED <<jobs, loop, sending>>
  BY <1>0 DEF ScheduledResult, Record, RecordResult, dispatcherVars
<1>4. /\ probe'[w] = None
      /\ \A v \in Workers \ {w} : probe'[v] = probe[v] /\ wpc'[v] = wpc[v]
      /\ wpc'[w] = "releasing"
  BY DEF ScheduledResult, RecordResult, OutcomesOK, IInv, TypeOK
<1>5. \A v \in Workers \ {w} : Busy(v) => job[v] # c
  BY <1>1 DEF IInv, OnePlace, Busy
<1>6. \A v \in Workers \ {w} : probe[v] # None => job[v] # c
  BY <1>1, <1>5 DEF OrderOK, Busy
<1>7. Pending(c)
  BY <1>1 DEF Pending, Running
<1>8. \A d \in Checks : Pending(d)' => Pending(d)
  BY <1>3, <1>4 DEF Pending, Waiting, Running, Queued
<1>9. ~Pending(c)'
  <2>1. c \in Held
    BY <1>1 DEF Held, Busy
  <2>2. ~Waiting(c)
    BY <2>1 DEF Waiting, IInv, OnePlace
  <2>3. ~Waiting(c)'
    BY <1>3, <2>2 DEF Waiting, Queued
  <2>4. ~Running(c)'
    BY <1>3, <1>4, <1>5 DEF Running, Busy
  <2> QED
    BY <2>3, <2>4 DEF Pending
<1>10. Spaced(history[c], e.at)
  BY <1>1, <1>2 DEF SpacedOK
<1>11. StoreTypeOK
  BY DEF StoreInv
<1>12. \A v \in Workers : probe'[v] # None =>
          probe'[v] = probe[v] /\ job'[v] = job[v] /\ job[v] # c
  BY <1>1, <1>3, <1>4, <1>6
<1> HIDE DEF e
<1> QED
  BY <1>1, <1>2, <1>3, <1>7, <1>8, <1>9, <1>10, <1>11, <1>12, StoredSpaced

\* The result of an operator's run may come at any time.
LEMMA ManualRecordSpaced ==
    ASSUME StoreInv, OutcomesOK, SpacedOK, NEW m \in Handlers, ManualRecord(m)
    PROVE  SpacedOK'
<1> DEFINE c == handler[m].check
           e == [healthy |-> handler[m].outcome.healthy, at |-> handler[m].outcome.at,
                 manual |-> TRUE]
<1>1. /\ c \in Checks
      /\ handler[m].outcome.at \in Nat /\ handler[m].outcome.healthy \in BOOLEAN
  BY OutcomeTypes DEF ManualRecord, Began
<1>2. e \in Result /\ e.manual
  BY <1>1 DEF Result
<1>3. /\ history' = [history EXCEPT ![c] = Append(@, e)]
      /\ clock' = clock /\ due' = DueChecks(check', clock) /\ StoreTypeOK
  BY DEF ManualRecord, Record, StoreInv
<1>4. UNCHANGED <<batch, jobs, loop, sending, wpc, job, probe>>
  BY DEF ManualRecord, programVars, dispatcherVars, workerVars
<1>5. \A d \in Checks : Pending(d)' => Pending(d)
  BY <1>4, PendingKept
<1> HIDE DEF c, e
<1> QED
  BY <1>1, <1>2, <1>3, <1>4, <1>5, StoredSpaced

\* Every step keeps the distances.
LEMMA StepSpaced ==
    ASSUME IInv, IInv', StoreInv, OutcomesOK, OrderOK, SpacedOK, [MNext]_mvars
    PROVE  SpacedOK'
<1>1. CASE SchedulerStep
  <2>1. UNCHANGED <<check, history, clock, probe>>
    BY <1>1 DEF SchedulerStep, storeVars
  <2>2. Next
    BY <1>1 DEF SchedulerStep, Next, Worker
  <2>3. due' = due
    BY <1>1 DEF SchedulerStep, Dispatcher, ListDue, ListFails, Send, AbandonSend, EndOfBatch,
        Tick, Close, Return, Skip, Acquire, Cancel, Receive, RunEnds, Release, Exit, RecordFails
  <2>4. \A w \in Workers : probe[w] # None => job'[w] = job[w]
    <3>1. \A w \in Workers : probe[w] # None => wpc[w] = "recording"
      BY DEF OrderOK
    <3>2. CASE Dispatcher \/ Cancel
      BY <3>2 DEF Dispatcher, ListDue, ListFails, Send, AbandonSend, EndOfBatch, Tick, Close,
                  Return, Skip, Acquire, Cancel, workerVars
    <3>3. ASSUME NEW v \in Workers,
                 \/ Receive(v) \/ RunEnds(v) \/ Release(v) \/ Exit(v)
                 \/ RecordFails(v) /\ probe[v] = None
          PROVE  \A w \in Workers : probe[w] # None => job'[w] = job[w]
      BY <3>1, <3>3 DEF Receive, RunEnds, Release, Exit, RecordFails, IInv, TypeOK
    <3> QED
      BY <1>1, <3>2, <3>3 DEF SchedulerStep
  <2> QED
    BY <2>1, <2>2, <2>3, <2>4, SchedulerStepSpaced
<1>2. ASSUME NEW w \in Workers, TakeTime(w) PROVE SpacedOK'
  <2>1. UNCHANGED <<check, history, clock, due, batch, jobs, loop, sending, wpc, job>>
    BY <1>2 DEF TakeTime, vars, dispatcherVars, workerVars, storeVars
  <2>2. probe'[w].at = clock /\ \A v \in Workers \ {w} : probe'[v] = probe[v]
    <3>1. PICK healthy \in BOOLEAN : probe' = [probe EXCEPT ![w] = NewOutcome(healthy)]
      BY <1>2 DEF TakeTime
    <3>2. NewOutcome(healthy).at = clock
      BY DEF NewOutcome
    <3> QED
      BY <3>1, <3>2 DEF OutcomesOK
  <2>3. job[w] \in Checks /\ Pending(job[w])
    BY <1>2, RecordingHasJob DEF TakeTime, Pending, Running
  <2>4. \A v \in Workers : probe'[v] # None => Spaced(history[job'[v]], probe'[v].at)
    BY <2>1, <2>2, <2>3 DEF SpacedOK
  <2> QED
    BY <2>1, <2>4, PendingKept, SpacedKept
<1>3. ASSUME NEW w \in Workers, ScheduledResultFails(w) PROVE SpacedOK'
  <2>1. UNCHANGED <<check, history, clock, due, job>>
    BY <1>3 DEF ScheduledResultFails, RecordFails, storeVars
  <2>2. probe' = [probe EXCEPT ![w] = None] /\ Next
    BY <1>3 DEF ScheduledResultFails, Next, Worker
  <2>3. \A v \in Workers : probe'[v] # None => probe'[v] = probe[v] /\ job'[v] = job[v]
    BY <2>1, <2>2 DEF OutcomesOK
  <2> QED
    BY <2>1, <2>2, <2>3, SchedulerStepSpaced
<1>4. ASSUME NEW w \in Workers, ScheduledResult(w) PROVE SpacedOK'
  BY <1>4, ScheduledResultSpaced
<1>5. ASSUME NEW m \in Handlers, ManualRecord(m) PROVE SpacedOK'
  BY <1>5, ManualRecordSpaced
<1>6. ASSUME NEW w \in Workers, BeginScheduled(w) PROVE SpacedOK'
  <2>1. /\ UNCHANGED <<check, history, clock, due, batch, jobs, loop, sending, wpc, job>>
        /\ probe[w] # None
    BY <1>6 DEF BeginScheduled, vars, dispatcherVars, workerVars, storeVars
  <2>2. \A v \in Workers : probe'[v] # None => probe[v] # None /\ probe'[v].at = probe[v].at
    <3>1. probe \in [Workers -> Outcomes \cup {None}] /\ probe[w] \in Outcomes
      BY <2>1 DEF OutcomesOK
    <3>2. [probe[w] EXCEPT !.row = check[job[w]]].at = probe[w].at
      BY <3>1 DEF Outcomes
    <3>3. probe' = [probe EXCEPT ![w] = [probe[w] EXCEPT !.row = check[job[w]]]]
      BY <1>6 DEF BeginScheduled
    <3> QED
      BY <2>1, <3>1, <3>2, <3>3
  <2>3. \A v \in Workers : probe'[v] # None => Spaced(history[job'[v]], probe'[v].at)
    BY <2>1, <2>2 DEF SpacedOK
  <2> QED
    BY <2>1, <2>3, PendingKept, SpacedKept
<1>7. ASSUME \/ \E m \in Handlers :
                \/ \E c \in Checks : RunNow(m, c)
                \/ RunNowEnds(m) \/ BeginManual(m) \/ ManualFails(m)
             \/ UNCHANGED mvars
      PROVE  SpacedOK'
  <2>1. UNCHANGED <<check, history, clock, due, batch, jobs, loop, sending, wpc, job, probe>>
    BY <1>7 DEF RunNow, RunNowEnds, BeginManual, ManualFails, mvars, vars, dispatcherVars,
                workerVars, storeVars
  <2>2. \A v \in Workers : probe'[v] # None => Spaced(history[job'[v]], probe'[v].at)
    BY <2>1 DEF SpacedOK
  <2> QED
    BY <2>1, <2>2, PendingKept, SpacedKept
<1>8. CASE Restart
  <2>1. /\ UNCHANGED <<check, history, clock, due>>
        /\ batch' = {} /\ jobs' = <<>> /\ loop' = "list"
        /\ \A w \in Workers : probe'[w] = None /\ wpc'[w] = "idle"
    BY <1>8 DEF Restart, storeVars
  <2>2. \A c \in Checks : ~Pending(c)'
    BY <2>1, EmptyDomain DEF Pending, Waiting, Running, Queued
  <2> QED
    BY <2>1, <2>2, SpacedKept
<1>9. CASE Elapse
  <2>1. /\ UNCHANGED <<check, history, batch, jobs, loop, sending, wpc, job, probe>>
        /\ clock' = clock + 1 /\ due' = DueChecks(check, clock') /\ clock \in Nat
    BY <1>9 DEF Elapse, programVars, dispatcherVars, workerVars, storeVars, OutcomesOK
  <2>2. \A c \in Checks : history[c] \in Seq(Result)
    BY DEF StoreInv, StoreTypeOK
  <2>3. \A c \in Checks : /\ Spaced(history[c], clock) => Spaced(history[c], clock')
                          /\ Rested(history[c], clock) => Rested(history[c], clock')
    BY <2>1, <2>2, SpacedLater
  <2>4. \A c \in Checks : Pending(c)' <=> Pending(c)
    BY <2>1, PendingKept
  <2>5. \A c \in Checks : c \in batch' \/ Pending(c)' => Spaced(history'[c], clock')
    BY <2>1, <2>3, <2>4 DEF SpacedOK
  <2>6. \A c \in Checks : c \in batch' /\ Pending(c)' => Rested(history'[c], clock')
    BY <2>1, <2>3, <2>4 DEF SpacedOK
  <2> QED
    BY <2>1, <2>5, <2>6 DEF SpacedOK
<1> QED
  BY <1>1, <1>2, <1>3, <1>4, <1>5, <1>6, <1>7, <1>8, <1>9 DEF MNext

-----------------------------------------------------------------------------
(* The theorems *)

\* The invariant holds initially.
LEMMA MInvInit == MInit => MInv
<1> SUFFICES ASSUME MInit PROVE MInv
  OBVIOUS
<1> USE DEF MInit
<1>1. IInv
  BY InitIInv
<1>2. StoreInv
  BY StoreInvInit
<1>3. OutcomesOK
  BY DEF OutcomesOK
<1>4. OrderOK
  <2>1. \A c \in Checks : DOMAIN history[c] = {}
    BY EmptyDomain DEF StoreInit
  <2> QED
    BY <2>1 DEF OrderOK, ScheduledInOrder
<1>5. TxOK
  BY DEF TxOK, Began, AtRest
<1>6. SpacedOK
  <2>1. \A c \in Checks : DOMAIN history[c] = {} /\ Len(history[c]) = 0
    BY EmptyDomain, EmptySeq DEF StoreInit
  <2>2. batch = {} /\ \A c \in Checks : ~Pending(c)
    BY EmptyDomain DEF Init, Pending, Waiting, Running, Queued
  <2>3. \A c \in Checks : Early(history[c])
    BY <2>1 DEF Early
  <2> QED
    BY <2>2, <2>3 DEF SpacedOK
<1> QED
  BY <1>1, <1>2, <1>3, <1>4, <1>5, <1>6 DEF MInv

\* Every step preserves the invariant.
LEMMA MInvNext == MInv /\ [MNext]_mvars => MInv'
<1> SUFFICES ASSUME MInv, [MNext]_mvars PROVE MInv'
  OBVIOUS
<1> USE DEF MInv
<1>1. IInv'
  BY StepIInv
<1>2. StoreInv'
  BY StepStore, StoreInvNext
<1>3. OutcomesOK'
  BY StepOutcomes
<1>4. OrderOK'
  BY StepOrder
<1>5. TxOK'
  BY StepTx
<1>6. SpacedOK'
  BY <1>1, StepSpaced
<1> QED
  BY <1>1, <1>2, <1>3, <1>4, <1>5, <1>6

\* The invariant holds of the whole, through any interleaving and any number of
\* restarts.
THEOREM MonitoringInvariance == MSpec => []MInv
<1>1. MInit => MInv
  BY MInvInit
<1>2. MInv /\ [MNext]_mvars => MInv'
  BY MInvNext
<1> QED
  BY <1>1, <1>2, PTL DEF MSpec

\* recordResult's counters (store.go) are the lengths of the runs the history ends
\* in, although scheduler and operators record results of the same check.
THEOREM CountersCorrect == MSpec => []CountersMatchHistory
<1>1. MInv => CountersMatchHistory
  BY DEF MInv, StoreInv
<1> QED
  BY <1>1, MonitoringInvariance, PTL

\* A check is shown as critical or healthy exactly when its history says so.
THEOREM StatusCorrect == MSpec => []StatusMatchesHistory
<1>1. MInv => StatusMatchesHistory
  BY DEF MInv, StoreInv
<1> QED
  BY <1>1, MonitoringInvariance, PTL

\* Scheduled results of a check are stored in the order of their timestamps, across
\* restarts and whatever operators do.
THEOREM ScheduledOrder == MSpec => []ScheduledInOrder
<1>1. MInv => ScheduledInOrder
  BY DEF MInv, OrderOK
<1> QED
  BY <1>1, MonitoringInvariance, PTL

\* A check that has been run while it stood in the list of due ones may be run once more
\* before its interval has passed, but not twice, across restarts and whatever operators
\* do: of three scheduled results in a row, the third was taken an interval after the first.
THEOREM EarlyOnlyOnce == MSpec => []EarlyOnce
<1>1. MInv => EarlyOnce
  BY EarlyOnceByCheck DEF MInv, SpacedOK
<1> QED
  BY <1>1, MonitoringInvariance, PTL

\* The whole uses the store as CheckStore says: the monitoring service implements the
\* store's specification.
THEOREM StoreRefinement == MSpec => StoreSpec
<1>1. MInit => StoreInit
  BY DEF MInit
<1>2. MInv /\ [MNext]_mvars => [StoreNext]_storeVars
  BY StepStore DEF MInv
<1> QED
  BY <1>1, <1>2, MonitoringInvariance, PTL DEF MSpec, StoreSpec
=============================================================================
