-------------------------- MODULE DiscoveryProofs --------------------------
(***************************************************************************)
(* Theorems about discovery jobs, for any pool of workers, any number of   *)
(* requests, jobs, addresses and restarts.  First what every step of the   *)
(* scanner preserves, which the jobs' invariant builds on.                 *)
(***************************************************************************)
EXTENDS Discovery, FiniteSetTheorems, TLAPS

-----------------------------------------------------------------------------
(* The scanner *)

\* AddressesAccounted, one address at a time.
Apart ==
    /\ \A v, w \in Workers :
        result[v] # None /\ result[w] # None /\ result[v].address = result[w].address => v = w
    /\ \A w \in Workers : result[w] # None =>
        /\ result[w].address \notin todo
        /\ hand # None => hand.address # result[w].address
        /\ \A r \in consumed : r.address # result[w].address
    /\ hand # None => hand.address \notin todo /\ \A r \in consumed : r.address # hand.address
    /\ \A r \in consumed : r.address \notin todo
    /\ \A r, s \in consumed : r.address = s.address => r = s

\* Where address a is.
Somewhere(a) ==
    \/ a \in todo
    \/ \E w \in Workers : result[w] # None /\ result[w].address = a
    \/ hand # None /\ hand.address = a
    \/ \E r \in consumed : r.address = a

NoneMissing == scan # "out" /\ ~Done => \A a \in Addresses : a \in target <=> Somewhere(a)

\* How the positions of the goroutines and the flags go together.
ControlOK ==
    /\ outcome # "none" => scan = "out"
    /\ failed => hand = None
    /\ hand # None => hand.whole \/ cancelled
    /\ \A w \in Workers :
        wpc[w] \in {"waiting", "identifying", "sending"} => result[w].whole \/ Done
    /\ scan # "out" /\ ~Done =>
        /\ feeder = "closed" => todo = {}
        /\ feeder = "feeding" => \E w \in Workers : wpc[w] # "exited"

\* The inductive invariant.
ScanInv ==
    ScannerTypeOK /\ ControlOK /\ Apart /\ NoneMissing /\ OnlyWholeProbes /\ OkMeansAll

USE AddressesAssumption, PoolAssumption

LEMMA Accounted == ASSUME ScanInv PROVE AddressesAccounted
<1>1. ScannerTypeOK /\ Apart /\ NoneMissing
  BY DEF ScanInv
<1>2. /\ todo \cap InPool = {} /\ todo \cap InHand = {} /\ todo \cap Consumed = {}
      /\ InPool \cap InHand = {} /\ InPool \cap Consumed = {} /\ InHand \cap Consumed = {}
  BY <1>1 DEF Apart, InPool, InHand, Consumed
<1>3. ASSUME scan # "out", ~Done PROVE target = todo \cup InPool \cup InHand \cup Consumed
  <2>1. \A a \in Addresses : a \in target <=> Somewhere(a)
    BY <1>1, <1>3 DEF NoneMissing
  <2>2. \A a : Somewhere(a) <=> a \in todo \cup InPool \cup InHand \cup Consumed
    BY DEF Somewhere, InPool, InHand, Consumed
  <2>3. todo \cup InPool \cup InHand \cup Consumed \subseteq Addresses
    BY <1>1 DEF ScannerTypeOK, InPool, InHand, Consumed, Results
  <2>4. target \subseteq Addresses
    BY <1>1 DEF ScannerTypeOK
  <2> QED BY <2>1, <2>2, <2>3, <2>4
<1> QED BY <1>1, <1>2, <1>3 DEF Apart, AddressesAccounted

\* No step of the scanner: nothing changes.
LEMMA ScannerStutters == ASSUME ScanInv, UNCHANGED scannerVars PROVE ScanInv'
BY DEF ScanInv, scannerVars, poolVars, callVars, ScannerTypeOK, ControlOK, Apart, NoneMissing,
       Somewhere, OnlyWholeProbes, OkMeansAll, Consumed, Done

LEMMA InitScanInv == ScannerInit => ScanInv
BY DEF ScannerInit, ScanInv, ScannerTypeOK, WorkerStates, ControlOK, Apart, NoneMissing,
       OnlyWholeProbes, OkMeansAll, Consumed, Done

-----------------------------------------------------------------------------
(* The feeder and the workers *)

LEMMA FeedKeeps ==
    ASSUME ScanInv, NEW w \in Workers, NEW a \in Addresses, Feed(w, a)
    PROVE  ScanInv'
<1> DEFINE given == [address |-> a, responsive |-> FALSE, whole |-> FALSE]
<1>0. ScannerTypeOK /\ ControlOK /\ Apart /\ NoneMissing /\ OnlyWholeProbes /\ OkMeansAll
  BY DEF ScanInv
<1>1. /\ a \in todo /\ wpc[w] = "idle" /\ feeder = "feeding"
      /\ todo' = todo \ {a}
      /\ result' = [result EXCEPT ![w] = given]
      /\ wpc' = [wpc EXCEPT ![w] = "probing"]
      /\ UNCHANGED <<feeder, scan, target, hand, consumed, failed, outcome, cancelled>>
  BY DEF Feed, Rest, callVars
<1>2. given \in Results /\ given # None /\ given.address = a
  <2>1. given \in Results /\ given.address = a
    BY DEF Results
  <2> QED BY <2>1
<1>3. result \in [Workers -> Results \cup {None}] /\ wpc \in [Workers -> WorkerStates]
  BY <1>0 DEF ScannerTypeOK
<1>4. /\ result'[w] = given /\ wpc'[w] = "probing"
      /\ \A v \in Workers \ {w} : result'[v] = result[v] /\ wpc'[v] = wpc[v]
  BY <1>1, <1>3
<1>5. result[w] = None
  BY <1>0, <1>1 DEF ScannerTypeOK
<1> HIDE DEF given
<1>6. ScannerTypeOK'
  BY <1>0, <1>1, <1>2, <1>4 DEF ScannerTypeOK, WorkerStates
<1>7. ControlOK'
  BY <1>0, <1>1, <1>4 DEF ControlOK, Done
<1>8. Apart'
  BY <1>0, <1>1, <1>2, <1>4 DEF Apart
<1>9. NoneMissing'
  BY <1>0, <1>1, <1>2, <1>4, <1>5 DEF NoneMissing, Somewhere, Done
<1>10. OnlyWholeProbes' /\ OkMeansAll'
  BY <1>0, <1>1 DEF OnlyWholeProbes, OkMeansAll, Consumed
<1> QED BY <1>6, <1>7, <1>8, <1>9, <1>10 DEF ScanInv

LEMMA CloseJobsKeeps == ASSUME ScanInv, CloseJobs PROVE ScanInv'
BY DEF ScanInv, CloseJobs, callVars, ScannerTypeOK, ControlOK, Apart, NoneMissing, Somewhere,
       OnlyWholeProbes, OkMeansAll, Consumed, Done

\* A worker goes on with the probe of the address it has: what it has may turn out
\* incomplete only once the context is done.
Probing(w, place, probe) ==
    /\ result' = [result EXCEPT ![w] = probe]
    /\ wpc' = [wpc EXCEPT ![w] = place]
    /\ UNCHANGED <<todo, feeder, callVars, cancelled>>

LEMMA ProbingKeeps ==
    ASSUME ScanInv, NEW w \in Workers, NEW probe \in Results,
           NEW place \in {"waiting", "identifying", "sending"},
           result[w] # None, probe.address = result[w].address, probe.whole \/ Done,
           Probing(w, place, probe)
    PROVE  ScanInv'
<1>0. ScannerTypeOK /\ ControlOK /\ Apart /\ NoneMissing /\ OnlyWholeProbes /\ OkMeansAll
  BY DEF ScanInv
<1>1. /\ result' = [result EXCEPT ![w] = probe]
      /\ wpc' = [wpc EXCEPT ![w] = place]
      /\ UNCHANGED <<todo, feeder, scan, target, hand, consumed, failed, outcome, cancelled>>
  BY DEF Probing, callVars
<1>2. result \in [Workers -> Results \cup {None}] /\ wpc \in [Workers -> WorkerStates]
  BY <1>0 DEF ScannerTypeOK
<1>3. /\ result'[w] = probe /\ wpc'[w] = place /\ probe # None
      /\ \A v \in Workers \ {w} : result'[v] = result[v] /\ wpc'[v] = wpc[v]
  BY <1>1, <1>2
<1>4. ScannerTypeOK'
  BY <1>0, <1>1, <1>3 DEF ScannerTypeOK, WorkerStates
<1>5. ControlOK'
  BY <1>0, <1>1, <1>3 DEF ControlOK, Done
<1>6. Apart'
  BY <1>0, <1>1, <1>3 DEF Apart
<1>7. NoneMissing'
  BY <1>0, <1>1, <1>3 DEF NoneMissing, Somewhere, Done
<1>8. OnlyWholeProbes' /\ OkMeansAll'
  BY <1>0, <1>1 DEF OnlyWholeProbes, OkMeansAll, Consumed
<1> QED BY <1>4, <1>5, <1>6, <1>7, <1>8 DEF ScanInv

\* A worker that is at a probe has one.
LEMMA HasProbe ==
    ASSUME ScanInv, NEW w \in Workers,
           wpc[w] \in {"probing", "waiting", "identifying", "sending"}
    PROVE  result[w] \in Results /\ result[w] # None
BY DEF ScanInv, ScannerTypeOK

LEMMA ProbeKeeps == ASSUME ScanInv, NEW w \in Workers, Probe(w) PROVE ScanInv'
<1>1. result[w] \in Results /\ result[w] # None
  BY HasProbe DEF Probe
<1>2. PICK responsive \in BOOLEAN, whole \in IF Done THEN BOOLEAN ELSE {TRUE} :
        /\ result' = [result EXCEPT ![w] =
                        [@ EXCEPT !.responsive = responsive, !.whole = whole]]
        /\ wpc' = [wpc EXCEPT ![w] =
                    IF responsive /\ ~Done THEN "waiting" ELSE "sending"]
  BY DEF Probe
<1> DEFINE probe == [result[w] EXCEPT !.responsive = responsive, !.whole = whole]
           place == IF responsive /\ ~Done THEN "waiting" ELSE "sending"
<1>3. probe \in Results /\ probe.address = result[w].address /\ probe.whole = whole
  BY <1>1 DEF Results
<1>4. result' = [result EXCEPT ![w] = probe]
  BY <1>2
<1>5. Probing(w, place, probe)
  BY <1>2, <1>4 DEF Probe, Probing
<1>6. probe.whole \/ Done
  BY <1>3
<1>7. place \in {"waiting", "identifying", "sending"}
  OBVIOUS
<1> HIDE DEF probe, place
<1> QED BY <1>1, <1>3, <1>5, <1>6, <1>7, ProbingKeeps

LEMMA AcquireSlotKeeps == ASSUME ScanInv, NEW w \in Workers, AcquireSlot(w) PROVE ScanInv'
<1>1. result[w] \in Results /\ result[w] # None
  BY HasProbe DEF AcquireSlot
<1>2. result[w].whole \/ Done
  BY DEF AcquireSlot, ScanInv, ControlOK
<1>3. result' = [result EXCEPT ![w] = result[w]]
  BY DEF AcquireSlot, ScanInv, ScannerTypeOK
<1>4. Probing(w, "identifying", result[w])
  BY <1>3 DEF AcquireSlot, Probing
<1> QED BY <1>1, <1>2, <1>4, ProbingKeeps

LEMMA SkipIdentityKeeps == ASSUME ScanInv, NEW w \in Workers, SkipIdentity(w) PROVE ScanInv'
<1>1. result[w] \in Results /\ result[w] # None
  BY HasProbe DEF SkipIdentity
<1> DEFINE probe == [result[w] EXCEPT !.whole = FALSE]
<1>2. probe \in Results /\ probe.address = result[w].address
  BY <1>1 DEF Results
<1>3. Probing(w, "sending", probe) /\ Done
  BY DEF SkipIdentity, Probing
<1> HIDE DEF probe
<1> QED BY <1>1, <1>2, <1>3, ProbingKeeps

LEMMA IdentifyKeeps == ASSUME ScanInv, NEW w \in Workers, Identify(w) PROVE ScanInv'
<1>1. result[w] \in Results /\ result[w] # None
  BY HasProbe DEF Identify
<1>2. PICK whole \in IF Done THEN BOOLEAN ELSE {TRUE} :
        result' = [result EXCEPT ![w].whole = whole]
  BY DEF Identify
<1> DEFINE probe == [result[w] EXCEPT !.whole = whole]
<1>3. probe \in Results /\ probe.address = result[w].address /\ probe.whole = whole
  BY <1>1 DEF Results
<1>4. Probing(w, "sending", probe)
  BY <1>2 DEF Identify, Probing
<1>5. probe.whole \/ Done
  BY <1>3
<1> HIDE DEF probe
<1> QED BY <1>1, <1>3, <1>4, <1>5, ProbingKeeps

LEMMA SendResultKeeps == ASSUME ScanInv, NEW w \in Workers, SendResult(w) PROVE ScanInv'
<1>0. ScannerTypeOK /\ ControlOK /\ Apart /\ NoneMissing /\ OnlyWholeProbes /\ OkMeansAll
  BY DEF ScanInv
<1>1. /\ wpc[w] = "sending" /\ scan = "ranging"
      /\ hand' = IF failed THEN None ELSE result[w]
      /\ scan' = IF failed THEN "ranging" ELSE "consuming"
      /\ result' = [result EXCEPT ![w] = None]
      /\ wpc' = [wpc EXCEPT ![w] = "idle"]
      /\ UNCHANGED <<todo, feeder, target, consumed, failed, outcome, cancelled>>
  BY <1>0 DEF SendResult, HandedOn, ScannerTypeOK
<1>2. result \in [Workers -> Results \cup {None}] /\ wpc \in [Workers -> WorkerStates]
  BY <1>0 DEF ScannerTypeOK
<1>3. /\ result'[w] = None /\ wpc'[w] = "idle"
      /\ \A v \in Workers \ {w} : result'[v] = result[v] /\ wpc'[v] = wpc[v]
  BY <1>1, <1>2
<1>4. result[w] \in Results /\ result[w] # None /\ hand = None
  BY <1>0, <1>1, HasProbe DEF ScannerTypeOK
<1>5. ScannerTypeOK'
  BY <1>0, <1>1, <1>3, <1>4 DEF ScannerTypeOK, WorkerStates
<1>6. ControlOK'
  BY <1>0, <1>1, <1>3, <1>4 DEF ControlOK, Done
<1>7. Apart'
  BY <1>0, <1>1, <1>3, <1>4 DEF Apart
<1>8. NoneMissing'
  BY <1>0, <1>1, <1>3, <1>4 DEF NoneMissing, Somewhere, Done
<1>9. OnlyWholeProbes' /\ OkMeansAll'
  BY <1>0, <1>1 DEF OnlyWholeProbes, OkMeansAll, Consumed
<1> QED BY <1>5, <1>6, <1>7, <1>8, <1>9 DEF ScanInv

LEMMA DropResultKeeps == ASSUME ScanInv, NEW w \in Workers, DropResult(w) PROVE ScanInv'
<1>0. ScannerTypeOK /\ ControlOK /\ Apart /\ NoneMissing /\ OnlyWholeProbes /\ OkMeansAll
  BY DEF ScanInv
<1>1. /\ Done
      /\ result' = [result EXCEPT ![w] = None]
      /\ wpc' = [wpc EXCEPT ![w] = "exited"]
      /\ UNCHANGED <<todo, feeder, scan, target, hand, consumed, failed, outcome, cancelled>>
  BY DEF DropResult, callVars
<1>2. result \in [Workers -> Results \cup {None}] /\ wpc \in [Workers -> WorkerStates]
  BY <1>0 DEF ScannerTypeOK
<1>3. /\ result'[w] = None /\ wpc'[w] = "exited"
      /\ \A v \in Workers \ {w} : result'[v] = result[v] /\ wpc'[v] = wpc[v]
  BY <1>1, <1>2
<1>4. ScannerTypeOK'
  BY <1>0, <1>1, <1>3 DEF ScannerTypeOK, WorkerStates
<1>5. ControlOK' /\ NoneMissing'
  BY <1>0, <1>1, <1>3 DEF ControlOK, NoneMissing, Done
<1>6. Apart'
  BY <1>0, <1>1, <1>3 DEF Apart
<1>7. OnlyWholeProbes' /\ OkMeansAll'
  BY <1>0, <1>1 DEF OnlyWholeProbes, OkMeansAll, Consumed
<1> QED BY <1>4, <1>5, <1>6, <1>7 DEF ScanInv

LEMMA ExitKeeps == ASSUME ScanInv, NEW w \in Workers, Exit(w) PROVE ScanInv'
<1>1. /\ wpc \in [Workers -> WorkerStates] /\ wpc[w] = "idle" /\ feeder = "closed"
      /\ wpc' = [wpc EXCEPT ![w] = "exited"]
      /\ UNCHANGED <<todo, feeder, result, scan, target, hand, consumed, failed, outcome,
                     cancelled>>
  BY DEF Exit, callVars, ScanInv, ScannerTypeOK
<1>2. ScannerTypeOK'
  BY <1>1 DEF ScanInv, ScannerTypeOK, WorkerStates
<1>3. ControlOK'
  BY <1>1 DEF ScanInv, ControlOK, Done
<1>4. Apart' /\ NoneMissing' /\ OnlyWholeProbes' /\ OkMeansAll'
  BY <1>1 DEF ScanInv, Apart, NoneMissing, Somewhere, OnlyWholeProbes, OkMeansAll, Consumed, Done
<1> QED BY <1>2, <1>3, <1>4 DEF ScanInv

\* Every step of a worker.
LEMMA WorkerKeeps == ASSUME ScanInv, NEW w \in Workers, Worker(w) PROVE ScanInv'
BY ProbeKeeps, AcquireSlotKeeps, SkipIdentityKeeps, IdentifyKeeps, SendResultKeeps,
   DropResultKeeps, ExitKeeps, FeedKeeps DEF Worker

-----------------------------------------------------------------------------
(* The goroutine that called Scan *)

\* Some worker is started, as there is one and an address for it.
LEMMA CallKeeps ==
    ASSUME ScanInv, NEW T \in SUBSET Addresses, T # {}, Call(T)
    PROVE  ScanInv'
<1>1. PICK W \in SUBSET Workers :
        /\ Cardinality(W) = IF Cardinality(T) < Cardinality(Workers)
                            THEN Cardinality(T) ELSE Cardinality(Workers)
        /\ wpc' = [w \in Workers |-> IF w \in W THEN "idle" ELSE "exited"]
  BY DEF Call
<1>2. Cardinality(T) # 0 /\ Cardinality(Workers) # 0
  <2>1. IsFiniteSet(T)
    BY FS_Subset
  <2> QED BY <2>1, FS_EmptySet
<1>3. \E w \in Workers : wpc'[w] # "exited"
  <2>1. W # {}
    BY <1>1, <1>2, FS_EmptySet
  <2> QED BY <1>1, <2>1
<1>4. /\ scan = "out" /\ scan' = "ranging" /\ target' = T /\ todo' = T
      /\ feeder' = "feeding" /\ result' = [w \in Workers |-> None]
      /\ consumed' = {} /\ failed' = FALSE /\ outcome' = "none"
      /\ UNCHANGED <<hand, cancelled>>
  BY DEF Call
<1>5. hand = None
  BY <1>4 DEF ScanInv, ScannerTypeOK
<1>6. ScannerTypeOK'
  BY <1>1, <1>4, <1>5 DEF ScanInv, ScannerTypeOK, WorkerStates
<1>7. ControlOK'
  BY <1>1, <1>3, <1>4, <1>5 DEF ControlOK, Done
<1>8. Apart' /\ NoneMissing' /\ OnlyWholeProbes' /\ OkMeansAll'
  BY <1>4, <1>5 DEF Apart, NoneMissing, Somewhere, OnlyWholeProbes, OkMeansAll
<1> QED BY <1>6, <1>7, <1>8 DEF ScanInv

\* The transaction that accepts a result needs the context: the result is of a probe
\* that was carried through.
LEMMA ConsumeOkKeeps == ASSUME ScanInv, ConsumeOk, ~cancelled PROVE ScanInv'
<1>0. ScannerTypeOK /\ ControlOK /\ Apart /\ NoneMissing /\ OnlyWholeProbes /\ OkMeansAll
  BY DEF ScanInv
<1>1. /\ scan = "consuming" /\ scan' = "ranging"
      /\ consumed' = consumed \cup {hand} /\ hand' = None
      /\ UNCHANGED <<todo, feeder, wpc, result, target, failed, outcome, cancelled>>
  BY DEF ConsumeOk, poolVars
<1>2. hand \in Results /\ hand # None /\ hand.whole
  BY <1>0, <1>1 DEF ScannerTypeOK, ControlOK
<1>3. ScannerTypeOK'
  BY <1>0, <1>1, <1>2 DEF ScannerTypeOK
<1>4. ControlOK'
  BY <1>0, <1>1 DEF ControlOK, Done
<1>5. Apart'
  BY <1>0, <1>1, <1>2 DEF Apart
<1>6. NoneMissing'
  BY <1>0, <1>1, <1>2 DEF NoneMissing, Somewhere, Done
<1>7. OnlyWholeProbes' /\ OkMeansAll'
  BY <1>0, <1>1, <1>2 DEF OnlyWholeProbes, OkMeansAll, ControlOK
<1> QED BY <1>3, <1>4, <1>5, <1>6, <1>7 DEF ScanInv

LEMMA ConsumeFailsKeeps == ASSUME ScanInv, ConsumeFails PROVE ScanInv'
<1>1. /\ scan = "consuming" /\ scan' = "ranging" /\ failed' = TRUE /\ hand' = None
      /\ UNCHANGED <<todo, feeder, wpc, result, target, consumed, outcome, cancelled>>
  BY DEF ConsumeFails, FailedNow, poolVars
<1>2. ScannerTypeOK' /\ ControlOK'
  BY <1>1 DEF ScanInv, ScannerTypeOK, ControlOK, Done
<1>3. Apart' /\ NoneMissing' /\ OnlyWholeProbes' /\ OkMeansAll'
  BY <1>1 DEF ScanInv, Apart, NoneMissing, OnlyWholeProbes, OkMeansAll, Consumed, Done
<1> QED BY <1>2, <1>3 DEF ScanInv

\* With every worker gone and the context not done, the feeder has nothing left and
\* every address of the target was consumed.
LEMMA ReturnKeeps == ASSUME ScanInv, Return PROVE ScanInv'
<1>0. ScannerTypeOK /\ ControlOK /\ Apart /\ NoneMissing /\ OnlyWholeProbes /\ OkMeansAll
  BY DEF ScanInv
<1>1. /\ scan = "ranging" /\ scan' = "out" /\ \A w \in Workers : wpc[w] = "exited"
      /\ outcome' = IF Done THEN "error" ELSE "ok"
      /\ UNCHANGED <<todo, feeder, wpc, result, target, hand, consumed, failed, cancelled>>
  BY DEF Return, Outcome, poolVars
<1>2. hand = None /\ \A w \in Workers : result[w] = None
  BY <1>0, <1>1 DEF ScannerTypeOK
<1>3. ScannerTypeOK' /\ ControlOK'
  BY <1>0, <1>1, <1>2 DEF ScannerTypeOK, ControlOK, Done
<1>4. Apart' /\ NoneMissing' /\ OnlyWholeProbes'
  BY <1>0, <1>1 DEF Apart, NoneMissing, OnlyWholeProbes
<1>5. OkMeansAll'
  <2> SUFFICES ASSUME ~Done PROVE Consumed = target
    BY <1>0, <1>1 DEF OkMeansAll, OnlyWholeProbes, Consumed
  <2>1. todo = {}
    BY <1>0, <1>1 DEF ControlOK, ScannerTypeOK
  <2>2. \A a \in Addresses : a \in target <=> \E r \in consumed : r.address = a
    BY <1>0, <1>1, <1>2, <2>1 DEF NoneMissing, Somewhere
  <2>3. target \subseteq Addresses /\ \A r \in consumed : r.address \in Addresses
    BY <1>0 DEF ScannerTypeOK, Results
  <2> QED BY <2>2, <2>3 DEF Consumed
<1> QED BY <1>3, <1>4, <1>5 DEF ScanInv

LEMMA CancelKeeps == ASSUME ScanInv, CancelContext PROVE ScanInv'
BY DEF ScanInv, CancelContext, poolVars, callVars, ScannerTypeOK, ControlOK, Apart, NoneMissing,
       OnlyWholeProbes, OkMeansAll, Consumed, Done

-----------------------------------------------------------------------------
(* The jobs *)

USE JobsAssumption

\* OneScanAtATime, holder by holder.
Exclusive ==
    /\ \A p, q \in Requests : request[p] # "idle" /\ request[q] # "idle" => p = q
    /\ \A q \in Requests : request[q] # "idle" => runner = "off"
    /\ running <=> runner # "off" \/ \E q \in Requests : request[q] # "idle"

\* What every row says of its devices.
RowOK(j) ==
    /\ jobs[j] = None => devices[j] = {}
    /\ jobs[j] # None =>
        /\ jobs[j].responsive = Cardinality(devices[j])
        /\ jobs[j].responsive <= jobs[j].processed
        /\ jobs[j].status = "completed" => jobs[j].processed = jobs[j].total
RowsOK == \A j \in JobIds : RowOK(j)

\* A job that was inserted and nothing else.
Fresh(j) ==
    /\ j \in JobIds /\ jobs[j] # None
    /\ jobs[j].status = "pending" /\ jobs[j].processed = 0
    /\ jobs[j].target # {} /\ jobs[j].total = Cardinality(jobs[j].target)
    /\ devices[j] = {}

HandlersOK ==
    \A q \in Requests : IF request[q] = "reading" THEN Fresh(reads[q]) ELSE reads[q] = None

\* The job of the background goroutine, where its scan is under way or has ended well:
\* what was consumed is in its row.
ScannedOK ==
    /\ jobs[current] # None /\ jobs[current].status = "running"
    /\ target = jobs[current].target /\ jobs[current].total = Cardinality(target)
    /\ IsFiniteSet(consumed)
    /\ jobs[current].processed = Cardinality(consumed)
    /\ jobs[current].processed = Cardinality(Consumed)
    /\ devices[current] \subseteq Consumed

CurrentOK ==
    /\ runner = "marking" => Fresh(current)
    /\ runner \in {"scanning", "completing"} => ScannedOK
    /\ runner = "completing" => outcome = "ok"
    /\ runner = "failing" => jobs[current] # None /\ jobs[current].status \in {"pending", "running"}

\* The inductive invariant.
IInv == ScanInv /\ TypeOK /\ Exclusive /\ RowsOK /\ HandlersOK /\ CurrentOK

LEMMA InitIInv == Init => IInv
<1> SUFFICES ASSUME Init PROVE IInv
  OBVIOUS
<1>1. ScanInv
  BY InitScanInv DEF Init
<1>2. TypeOK /\ Exclusive /\ HandlersOK /\ CurrentOK /\ RowsOK
  BY <1>1 DEF Init, ScannerInit, ScanInv, TypeOK, Exclusive, HandlersOK, CurrentOK, RowsOK, RowOK
<1> QED BY <1>1, <1>2 DEF IInv

\* A step that leaves the service and the store alone, and of the scanner what it has
\* reported.
LEMMA ScannerAlone ==
    ASSUME IInv, ScanInv', UNCHANGED <<serviceVars, storeVars, target, consumed, outcome>>,
           scan' # "out" => scan # "out"
    PROVE  IInv'
<1>1. TypeOK' /\ Exclusive' /\ RowsOK' /\ HandlersOK'
  BY DEF IInv, ScanInv, serviceVars, storeVars, TypeOK, Exclusive, RowsOK, RowOK, HandlersOK, Fresh
<1>2. CurrentOK'
  BY DEF IInv, serviceVars, storeVars, CurrentOK, Fresh, ScannedOK, Consumed
<1> QED BY <1>1, <1>2 DEF IInv

LEMMA StutterKeeps == ASSUME IInv, UNCHANGED vars PROVE IInv'
<1>1. ScanInv'
  BY ScannerStutters DEF IInv, vars
<1> QED BY <1>1, ScannerAlone DEF vars, scannerVars, callVars

LEMMA ScanStepKeeps == ASSUME IInv, ScanStep PROVE IInv'
<1>1. CASE CloseJobs
  <2>1. ScanInv'
    BY <1>1, CloseJobsKeeps DEF IInv
  <2> QED BY <1>1, <2>1, ScannerAlone DEF ScanStep, CloseJobs, callVars
<1>2. ASSUME NEW w \in Workers, Worker(w) PROVE IInv'
  <2>1. ScanInv'
    BY <1>2, WorkerKeeps DEF IInv
  <2>2. UNCHANGED <<target, consumed, outcome>> /\ (scan' # "out" => scan # "out")
    BY <1>2 DEF Worker, Probe, AcquireSlot, SkipIdentity, Identify, SendResult, DropResult, Exit,
                Feed, callVars
  <2> QED BY <2>1, <2>2, ScannerAlone DEF ScanStep
<1> QED BY <1>1, <1>2 DEF ScanStep

LEMMA ShutdownKeeps == ASSUME IInv, Shutdown PROVE IInv'
<1>1. ScanInv'
  BY CancelKeeps DEF IInv, Shutdown
<1> QED BY <1>1, ScannerAlone DEF Shutdown, CancelContext, callVars

-----------------------------------------------------------------------------
(* Start *)

LEMMA ClaimKeeps == ASSUME IInv, NEW q \in Requests, Claim(q) PROVE IInv'
<1>1. /\ ~running /\ running' = TRUE
      /\ request' = [request EXCEPT ![q] = "inserting"]
      /\ UNCHANGED <<scannerVars, reads, runner, current, jobs, devices>>
  BY DEF Claim, Swapped, storeVars
<1>2. ScanInv'
  BY <1>1, ScannerStutters DEF IInv
<1>3. /\ runner = "off" /\ \A p \in Requests : request[p] = "idle"
      /\ request'[q] = "inserting" /\ \A p \in Requests \ {q} : request'[p] = "idle"
  BY <1>1 DEF IInv, Exclusive, TypeOK
<1>4. TypeOK' /\ Exclusive'
  BY <1>1, <1>2, <1>3 DEF IInv, ScanInv, TypeOK, Exclusive, scannerVars, callVars
<1>5. RowsOK' /\ HandlersOK' /\ CurrentOK'
  BY <1>1, <1>3 DEF IInv, RowsOK, RowOK, HandlersOK, CurrentOK, Fresh
<1> QED BY <1>2, <1>4, <1>5 DEF IInv

LEMMA InsertKeeps ==
    ASSUME IInv, NEW q \in Requests, NEW j \in JobIds, NEW T \in SUBSET Addresses, Insert(q, j, T)
    PROVE  IInv'
<1> DEFINE row == [status |-> "pending", total |-> Cardinality(T), processed |-> 0,
                   responsive |-> 0, target |-> T]
<1>1. /\ request[q] = "inserting" /\ jobs[j] = None /\ T \in Targets[j]
      /\ jobs' = [jobs EXCEPT ![j] = row]
      /\ reads' = [reads EXCEPT ![q] = j]
      /\ request' = [request EXCEPT ![q] = "reading"]
      /\ UNCHANGED <<scannerVars, running, runner, current, devices>>
  BY DEF Insert
<1>2. T # {} /\ IsFiniteSet(T) /\ Cardinality(T) \in Nat
  <2>1. T # {} /\ T \subseteq Addresses
    <3>1. Targets[j] \in SUBSET ((SUBSET Addresses) \ {{}})
      BY JobsAssumption
    <3> QED BY <1>1, <3>1
  <2> QED BY <2>1, FS_Subset, FS_CardinalityType
<1>3. row \in Jobs /\ row # None
  <2>1. row \in Jobs
    BY <1>2 DEF Jobs
  <2> QED BY <2>1
<1>4. /\ row.status = "pending" /\ row.processed = 0 /\ row.responsive = 0 /\ row.target = T
      /\ row.total = Cardinality(T)
  OBVIOUS
<1> HIDE DEF row
<1>5. ScanInv'
  BY <1>1, ScannerStutters DEF IInv
<1>6. /\ jobs'[j] = row /\ \A i \in JobIds \ {j} : jobs'[i] = jobs[i]
      /\ reads'[q] = j /\ \A p \in Requests \ {q} : reads'[p] = reads[p]
      /\ request'[q] = "reading" /\ \A p \in Requests \ {q} : request'[p] = request[p]
  BY <1>1 DEF IInv, TypeOK
<1>7. runner = "off" /\ \A p \in Requests \ {q} : request[p] = "idle"
  BY <1>1 DEF IInv, Exclusive
<1>8. TypeOK' /\ Exclusive'
  BY <1>1, <1>3, <1>5, <1>6, <1>7 DEF IInv, ScanInv, TypeOK, Exclusive, scannerVars, callVars
<1>9. RowsOK'
  <2>1. devices'[j] = {} /\ Cardinality(devices'[j]) = 0
    BY <1>1, FS_EmptySet DEF IInv, RowsOK, RowOK
  <2>2. RowOK(j)'
    BY <1>3, <1>4, <1>6, <2>1 DEF RowOK
  <2>3. ASSUME NEW i \in JobIds, i # j PROVE RowOK(i)'
    <3>1. RowOK(i) /\ jobs'[i] = jobs[i] /\ devices'[i] = devices[i]
      BY <1>1, <1>6, <2>3 DEF IInv, RowsOK
    <3> QED BY <3>1 DEF RowOK
  <2> QED BY <2>2, <2>3 DEF RowsOK
<1>10. Fresh(j)'
  BY <1>1, <1>2, <1>3, <1>4, <1>6 DEF IInv, RowsOK, RowOK, Fresh
<1>11. HandlersOK' /\ CurrentOK'
  BY <1>1, <1>6, <1>7, <1>10 DEF IInv, HandlersOK, CurrentOK
<1> QED BY <1>5, <1>8, <1>9, <1>11 DEF IInv

LEMMA LaunchKeeps == ASSUME IInv, NEW q \in Requests, Launch(q) PROVE IInv'
<1>1. /\ request[q] = "reading" /\ running' = TRUE /\ runner' = "marking"
      /\ current' = reads[q] /\ reads' = [reads EXCEPT ![q] = None]
      /\ request' = [request EXCEPT ![q] = "idle"]
      /\ UNCHANGED <<scannerVars, jobs, devices>>
  BY DEF Launch, storeVars
<1>2. ScanInv'
  BY <1>1, ScannerStutters DEF IInv
<1>3. /\ runner = "off" /\ \A p \in Requests \ {q} : request[p] = "idle"
      /\ Fresh(reads[q])
  BY <1>1 DEF IInv, Exclusive, HandlersOK
<1>4. /\ request'[q] = "idle" /\ \A p \in Requests \ {q} : request'[p] = "idle"
      /\ reads'[q] = None /\ \A p \in Requests \ {q} : reads'[p] = reads[p]
  BY <1>1, <1>3 DEF IInv, TypeOK
<1>5. TypeOK' /\ Exclusive'
  BY <1>1, <1>2, <1>3, <1>4 DEF IInv, ScanInv, TypeOK, Exclusive, Fresh, scannerVars, callVars
<1>6. RowsOK' /\ HandlersOK' /\ CurrentOK'
  BY <1>1, <1>3, <1>4 DEF IInv, RowsOK, RowOK, HandlersOK, CurrentOK, Fresh
<1> QED BY <1>2, <1>5, <1>6 DEF IInv

LEMMA StartFailsKeeps == ASSUME IInv, NEW q \in Requests, StartFails(q) PROVE IInv'
<1>1. /\ request[q] # "idle" /\ running' = FALSE
      /\ reads' = [reads EXCEPT ![q] = None]
      /\ request' = [request EXCEPT ![q] = "idle"]
      /\ UNCHANGED <<scannerVars, runner, current, jobs, devices>>
  BY DEF StartFails, Reset, storeVars
<1>2. ScanInv'
  BY <1>1, ScannerStutters DEF IInv
<1>3. runner = "off" /\ \A p \in Requests \ {q} : request[p] = "idle"
  BY <1>1 DEF IInv, Exclusive
<1>4. /\ request'[q] = "idle" /\ \A p \in Requests \ {q} : request'[p] = "idle"
      /\ reads'[q] = None /\ \A p \in Requests \ {q} : reads'[p] = reads[p]
  BY <1>1, <1>3 DEF IInv, TypeOK
<1>5. TypeOK' /\ Exclusive'
  BY <1>1, <1>2, <1>3, <1>4 DEF IInv, ScanInv, TypeOK, Exclusive, scannerVars, callVars
<1>6. RowsOK' /\ HandlersOK' /\ CurrentOK'
  BY <1>1, <1>3, <1>4 DEF IInv, RowsOK, RowOK, HandlersOK, CurrentOK
<1> QED BY <1>2, <1>5, <1>6 DEF IInv

-----------------------------------------------------------------------------
(* The background goroutine *)

\* While it runs no handler is in Start.
LEMMA RunnerAlone ==
    ASSUME IInv, runner # "off"
    PROVE  /\ current \in JobIds /\ running
           /\ \A q \in Requests : request[q] = "idle" /\ reads[q] = None
BY DEF IInv, TypeOK, Exclusive, HandlersOK

\* The goroutine goes on, and the row of its job changes at most.
LEMMA RunnerMoves ==
    ASSUME IInv, runner # "off", NEW place \in {"scanning", "completing", "failing", "ending"},
           ScanInv', runner' = place, UNCHANGED <<request, reads, running, current>>,
           scan' # "out" => place = "scanning",
           jobs' \in [JobIds -> Jobs \cup {None}], devices' \in [JobIds -> SUBSET Addresses],
           \A j \in JobIds : j # current => jobs'[j] = jobs[j] /\ devices'[j] = devices[j],
           RowOK(current)', CurrentOK'
    PROVE  IInv'
<1>1. /\ current \in JobIds /\ running
      /\ \A q \in Requests : request[q] = "idle" /\ reads[q] = None
  BY RunnerAlone
<1>2. TypeOK' /\ Exclusive'
  BY <1>1 DEF IInv, ScanInv, TypeOK, Exclusive
<1>3. RowsOK'
  BY DEF IInv, RowsOK, RowOK
<1>4. HandlersOK'
  BY <1>1 DEF HandlersOK
<1> QED BY <1>2, <1>3, <1>4 DEF IInv

\* The row's status changes alone.
LEMMA StatusChanges ==
    ASSUME IInv, runner # "off", jobs[current] # None,
           NEW status \in {"running", "completed", "failed"}, SetStatus(status)
    PROVE  /\ jobs' \in [JobIds -> Jobs \cup {None}] /\ jobs'[current] # None
           /\ \A j \in JobIds : j # current => jobs'[j] = jobs[j]
           /\ jobs'[current].status = status
           /\ jobs'[current].total = jobs[current].total
           /\ jobs'[current].processed = jobs[current].processed
           /\ jobs'[current].responsive = jobs[current].responsive
           /\ jobs'[current].target = jobs[current].target
<1> DEFINE row == [jobs[current] EXCEPT !.status = status]
<1>1. jobs \in [JobIds -> Jobs \cup {None}] /\ current \in JobIds
  BY RunnerAlone DEF IInv, TypeOK
<1>2. jobs[current] \in Jobs
  BY <1>1
<1>3. jobs' = [jobs EXCEPT ![current] = row]
  BY DEF SetStatus
<1>4. /\ row \in Jobs /\ row.status = status /\ row.total = jobs[current].total
      /\ row.processed = jobs[current].processed /\ row.responsive = jobs[current].responsive
      /\ row.target = jobs[current].target
  BY <1>2 DEF Jobs
<1> HIDE DEF row
<1>5. row # None
  BY <1>4
<1> QED BY <1>1, <1>3, <1>4, <1>5

LEMMA MarkRunningKeeps == ASSUME IInv, MarkRunning PROVE IInv'
<1>1. /\ runner = "marking" /\ SetStatus("running") /\ Call(jobs[current].target)
      /\ runner' = "scanning"
      /\ UNCHANGED <<request, reads, running, current, devices>>
  BY DEF MarkRunning
<1>2. Fresh(current)
  BY <1>1 DEF IInv, CurrentOK
<1>3. jobs[current] \in Jobs /\ jobs[current].target \in SUBSET Addresses
  <2>1. jobs[current] \in Jobs
    BY <1>2 DEF IInv, TypeOK, Fresh
  <2> QED BY <2>1 DEF Jobs
<1>4. ScanInv'
  BY <1>1, <1>2, <1>3, CallKeeps DEF IInv, Fresh
<1>5. /\ jobs' \in [JobIds -> Jobs \cup {None}] /\ jobs'[current] # None
      /\ \A j \in JobIds : j # current => jobs'[j] = jobs[j]
      /\ jobs'[current].status = "running"
      /\ jobs'[current].total = jobs[current].total
      /\ jobs'[current].processed = jobs[current].processed
      /\ jobs'[current].responsive = jobs[current].responsive
      /\ jobs'[current].target = jobs[current].target
  BY <1>1, <1>2, StatusChanges DEF Fresh
<1>6. RowOK(current)'
  BY <1>1, <1>2, <1>5 DEF IInv, RowsOK, RowOK, Fresh
<1>7. target' = jobs[current].target /\ consumed' = {}
  BY <1>1 DEF Call
<1>8. ScannedOK'
  <2>1. Consumed' = {} /\ devices'[current] = {}
    BY <1>1, <1>2, <1>7 DEF Consumed, Fresh
  <2> QED BY <1>1, <1>2, <1>5, <1>7, <2>1, FS_EmptySet DEF ScannedOK, Fresh
<1>9. CurrentOK'
  BY <1>1, <1>8 DEF CurrentOK
<1>10. devices' \in [JobIds -> SUBSET Addresses]
  BY <1>1 DEF IInv, TypeOK
<1> QED BY <1>1, <1>4, <1>5, <1>6, <1>9, <1>10, RunnerMoves

\* A step that only moves the goroutine on.
LEMMA JustMoves ==
    ASSUME IInv, runner # "off", NEW place \in {"completing", "failing", "ending"},
           ScanInv', runner' = place, scan' = "out",
           UNCHANGED <<request, reads, running, current, jobs, devices>>, CurrentOK'
    PROVE  IInv'
<1>1. RowOK(current)'
  BY RunnerAlone DEF IInv, RowsOK, RowOK
<1>2. jobs' \in [JobIds -> Jobs \cup {None}] /\ devices' \in [JobIds -> SUBSET Addresses]
  BY DEF IInv, TypeOK
<1> QED BY <1>1, <1>2, RunnerMoves

LEMMA MarkFailsKeeps == ASSUME IInv, MarkFails PROVE IInv'
<1>1. /\ runner = "marking" /\ runner' = "failing"
      /\ UNCHANGED <<scannerVars, request, reads, running, current, jobs, devices>>
  BY DEF MarkFails, storeVars
<1>2. ScanInv' /\ scan' = "out"
  BY <1>1, ScannerStutters DEF IInv, TypeOK, scannerVars, callVars
<1>3. CurrentOK'
  BY <1>1 DEF IInv, CurrentOK, Fresh
<1> QED BY <1>1, <1>2, <1>3, JustMoves

LEMMA ScanEndsKeeps == ASSUME IInv, ScanEnds PROVE IInv'
<1>1. /\ runner' = IF outcome' = "ok" THEN "completing" ELSE "failing"
      /\ scan # "out" /\ scan' = "out"
      /\ UNCHANGED <<target, consumed, request, reads, running, current, jobs, devices>>
  BY DEF ScanEnds, Return, storeVars
<1>2. ScanInv' /\ runner = "scanning"
  BY <1>1, ReturnKeeps DEF IInv, TypeOK, ScanEnds
<1>3. ScannedOK' /\ ScannedOK
  BY <1>1, <1>2 DEF IInv, CurrentOK, ScannedOK, Consumed
<1>4. CurrentOK'
  BY <1>1, <1>3 DEF CurrentOK, ScannedOK
<1> QED BY <1>1, <1>2, <1>4, JustMoves

LEMMA CompleteFailsKeeps == ASSUME IInv, CompleteFails PROVE IInv'
<1>1. /\ runner = "completing" /\ runner' = "ending"
      /\ UNCHANGED <<scannerVars, request, reads, running, current, jobs, devices>>
  BY DEF CompleteFails, storeVars
<1>2. ScanInv' /\ scan' = "out" /\ CurrentOK'
  BY <1>1, ScannerStutters DEF IInv, TypeOK, CurrentOK, scannerVars, callVars
<1> QED BY <1>1, <1>2, JustMoves

LEMMA FailFailsKeeps == ASSUME IInv, FailFails PROVE IInv'
<1>1. /\ runner = "failing" /\ runner' = "ending"
      /\ UNCHANGED <<scannerVars, request, reads, running, current, jobs, devices>>
  BY DEF FailFails, storeVars
<1>2. ScanInv' /\ scan' = "out" /\ CurrentOK'
  BY <1>1, ScannerStutters DEF IInv, TypeOK, CurrentOK, scannerVars, callVars
<1> QED BY <1>1, <1>2, JustMoves

\* The job's status becomes final; a completed one has a result for every address.
LEMMA FinishKeeps ==
    ASSUME IInv, runner # "off", jobs[current] # None,
           NEW status \in {"completed", "failed"}, SetStatus(status),
           status = "completed" => jobs[current].processed = jobs[current].total,
           scan = "out", runner' = "ending",
           UNCHANGED <<scannerVars, request, reads, running, current, devices>>
    PROVE  IInv'
<1>1. ScanInv' /\ scan' = "out"
  BY ScannerStutters DEF IInv, scannerVars, callVars
<1>2. /\ jobs' \in [JobIds -> Jobs \cup {None}] /\ jobs'[current] # None
      /\ \A j \in JobIds : j # current => jobs'[j] = jobs[j]
      /\ jobs'[current].status = status
      /\ jobs'[current].total = jobs[current].total
      /\ jobs'[current].processed = jobs[current].processed
      /\ jobs'[current].responsive = jobs[current].responsive
  BY StatusChanges
<1>3. RowOK(current)
  BY RunnerAlone DEF IInv, RowsOK
<1>4. RowOK(current)'
  BY <1>2, <1>3 DEF RowOK
<1>5. CurrentOK'
  BY DEF CurrentOK
<1>6. devices' \in [JobIds -> SUBSET Addresses]
  BY DEF IInv, TypeOK
<1> QED BY <1>1, <1>2, <1>4, <1>5, <1>6, RunnerMoves

LEMMA CompleteKeeps == ASSUME IInv, Complete PROVE IInv'
<1>1. /\ runner = "completing" /\ SetStatus("completed") /\ runner' = "ending"
      /\ UNCHANGED <<scannerVars, request, reads, running, current, devices>>
  BY DEF Complete
<1>2. ScannedOK /\ outcome = "ok" /\ scan = "out"
  BY <1>1 DEF IInv, CurrentOK, TypeOK
<1>3. Consumed = target
  BY <1>2 DEF IInv, ScanInv, OkMeansAll
<1> QED BY <1>1, <1>2, <1>3, FinishKeeps DEF ScannedOK

LEMMA FailKeeps == ASSUME IInv, Fail PROVE IInv'
<1>1. /\ runner = "failing" /\ SetStatus("failed") /\ runner' = "ending"
      /\ UNCHANGED <<scannerVars, request, reads, running, current, devices>>
  BY DEF Fail
<1>2. jobs[current] # None /\ scan = "out"
  BY <1>1 DEF IInv, CurrentOK, TypeOK
<1> QED BY <1>1, <1>2, FinishKeeps

LEMMA EndKeeps == ASSUME IInv, End PROVE IInv'
<1>1. /\ runner = "ending" /\ running' = FALSE /\ runner' = "off" /\ current' = None
      /\ UNCHANGED <<scannerVars, request, reads, jobs, devices>>
  BY DEF End, Reset, storeVars
<1>2. ScanInv' /\ scan' = "out"
  BY <1>1, ScannerStutters DEF IInv, TypeOK, scannerVars, callVars
<1>3. \A q \in Requests : request[q] = "idle" /\ reads[q] = None
  BY <1>1, RunnerAlone
<1>4. TypeOK' /\ Exclusive' /\ RowsOK' /\ HandlersOK' /\ CurrentOK'
  BY <1>1, <1>2, <1>3
     DEF IInv, ScanInv, TypeOK, Exclusive, RowsOK, RowOK, HandlersOK, CurrentOK
<1> QED BY <1>2, <1>4 DEF IInv

LEMMA RecordProbeFailsKeeps == ASSUME IInv, RecordProbeFails PROVE IInv'
<1>1. ScanInv'
  BY ConsumeFailsKeeps DEF IInv, RecordProbeFails
<1> QED BY <1>1, ScannerAlone DEF RecordProbeFails, ConsumeFails

\* What Counted does to a row.
LEMMA CountedRow ==
    ASSUME NEW job \in Jobs, NEW found \in {0, 1}
    PROVE  /\ Counted(job, found) \in Jobs
           /\ Counted(job, found).status = job.status
           /\ Counted(job, found).total = job.total
           /\ Counted(job, found).target = job.target
           /\ Counted(job, found).processed = job.processed + 1
           /\ Counted(job, found).responsive = job.responsive + found
<1> DEFINE p == job.processed + 1
           r == job.responsive + found
           once == [job EXCEPT !.processed = p]
<1>1. p \in Nat /\ r \in Nat
  BY DEF Jobs
<1>2. Counted(job, found) = [once EXCEPT !.responsive = r]
  BY DEF Counted
<1> HIDE DEF p, r
<1>3. /\ once \in Jobs /\ once.processed = p /\ once.responsive = job.responsive
      /\ once.status = job.status /\ once.total = job.total /\ once.target = job.target
  BY <1>1 DEF Jobs
<1> HIDE DEF once
<1>4. /\ [once EXCEPT !.responsive = r] \in Jobs
      /\ [once EXCEPT !.responsive = r].responsive = r
      /\ [once EXCEPT !.responsive = r].processed = once.processed
      /\ [once EXCEPT !.responsive = r].status = once.status
      /\ [once EXCEPT !.responsive = r].total = once.total
      /\ [once EXCEPT !.responsive = r].target = once.target
  BY <1>1, <1>3 DEF Jobs
<1> QED BY <1>2, <1>3, <1>4 DEF p, r

\* What was consumed grows by one address that was not in it, and so do the counters;
\* the device is a new one if there is one.
LEMMA RecordProbeKeeps == ASSUME IInv, RecordProbe PROVE IInv'
<1> DEFINE c == current
           found == Found
           row == Counted(jobs[c], found)
<1>1. /\ runner = "scanning" /\ ~cancelled /\ ConsumeOk
      /\ jobs' = [jobs EXCEPT ![c] = row]
      /\ devices' = [devices EXCEPT ![c] =
                        IF hand.responsive THEN @ \cup {hand.address} ELSE @]
      /\ UNCHANGED <<request, reads, running, runner, current>>
  BY DEF RecordProbe, serviceVars
<1>2. ScanInv'
  BY <1>1, ConsumeOkKeeps DEF IInv
<1>3. c \in JobIds /\ ScannedOK /\ RowOK(c)
  BY <1>1, RunnerAlone DEF IInv, CurrentOK, RowsOK
<1>4. /\ jobs \in [JobIds -> Jobs \cup {None}] /\ jobs[c] \in Jobs
      /\ devices \in [JobIds -> SUBSET Addresses]
  BY <1>3 DEF IInv, TypeOK, ScannedOK
<1>5. found = IF hand.responsive THEN 1 ELSE 0
  BY DEF Found
<1> HIDE DEF found
<1>6. /\ row \in Jobs
      /\ row.status = jobs[c].status /\ row.total = jobs[c].total /\ row.target = jobs[c].target
      /\ row.processed = jobs[c].processed + 1 /\ row.responsive = jobs[c].responsive + found
  BY <1>4, <1>5, CountedRow
<1>11. jobs[c].processed \in Nat /\ jobs[c].responsive \in Nat /\ found \in {0, 1}
  BY <1>4, <1>5 DEF Jobs
<1>7. row # None
  BY <1>6
<1> HIDE DEF row
<1>8. /\ hand \in Results /\ hand # None /\ hand \notin consumed /\ hand.address \notin Consumed
      /\ hand.address \in Addresses
  <2>1. hand \in Results /\ hand # None
    BY <1>1 DEF IInv, ScanInv, ScannerTypeOK, ConsumeOk
  <2>2. hand.address \notin Consumed
    BY <2>1 DEF IInv, ScanInv, Apart, Consumed
  <2>3. hand \notin consumed
    BY <2>2 DEF Consumed
  <2> QED BY <2>1, <2>2, <2>3 DEF Results
<1>9. /\ consumed' = consumed \cup {hand} /\ target' = target
      /\ Consumed' = Consumed \cup {hand.address}
  BY <1>1 DEF ConsumeOk, Consumed
<1>10. /\ jobs' \in [JobIds -> Jobs \cup {None}] /\ jobs'[c] = row
       /\ devices' \in [JobIds -> SUBSET Addresses]
       /\ devices'[c] = IF hand.responsive THEN devices[c] \cup {hand.address} ELSE devices[c]
       /\ \A j \in JobIds : j # c => jobs'[j] = jobs[j] /\ devices'[j] = devices[j]
  <2>1. jobs' \in [JobIds -> Jobs \cup {None}] /\ jobs'[c] = row
    BY <1>1, <1>3, <1>4, <1>6
  <2>2. /\ devices' \in [JobIds -> SUBSET Addresses]
        /\ devices'[c] = IF hand.responsive THEN devices[c] \cup {hand.address} ELSE devices[c]
    BY <1>1, <1>3, <1>4, <1>8
  <2>3. \A j \in JobIds : j # c => jobs'[j] = jobs[j] /\ devices'[j] = devices[j]
    BY <1>1, <1>4
  <2> QED BY <2>1, <2>2, <2>3
<1>12. Cardinality(devices'[c]) = Cardinality(devices[c]) + found
  <2>1. IsFiniteSet(devices[c]) /\ hand.address \notin devices[c]
    BY <1>3, <1>4, <1>8, FS_Subset DEF ScannedOK
  <2>2. Cardinality(devices[c]) \in Nat
    BY <2>1, FS_CardinalityType
  <2>3. Cardinality(devices[c] \cup {hand.address}) = Cardinality(devices[c]) + 1
    BY <2>1, FS_AddElement
  <2> QED BY <1>5, <1>10, <2>2, <2>3
<1>13. RowOK(c)'
  <2>1. jobs[c] # None /\ jobs[c].status = "running"
    BY <1>3 DEF ScannedOK
  <2>2. row.responsive = Cardinality(devices'[c]) /\ row.responsive <= row.processed
    BY <1>3, <1>6, <1>11, <1>12, <2>1 DEF RowOK
  <2>3. row.status # "completed" /\ c' = c
    BY <1>1, <1>6, <2>1
  <2> QED BY <1>7, <1>10, <2>2, <2>3 DEF RowOK
<1>14. ScannedOK'
  <2>1. /\ IsFiniteSet(consumed \cup {hand})
        /\ Cardinality(consumed \cup {hand}) = Cardinality(consumed) + 1
    BY <1>3, <1>8, FS_AddElement DEF ScannedOK
  <2>2. Cardinality(Consumed \cup {hand.address}) = Cardinality(Consumed) + 1
    <3>1. Consumed \subseteq Addresses
      BY DEF IInv, ScanInv, ScannerTypeOK, Consumed, Results
    <3>2. IsFiniteSet(Consumed)
      BY <3>1, FS_Subset
    <3> QED BY <1>8, <3>2, FS_AddElement
  <2>3. devices'[c] \subseteq Consumed'
    BY <1>3, <1>9, <1>10 DEF ScannedOK
  <2> QED BY <1>1, <1>3, <1>6, <1>7, <1>9, <1>10, <2>1, <2>2, <2>3 DEF ScannedOK
<1>15. CurrentOK'
  BY <1>1, <1>14 DEF CurrentOK
<1> QED BY <1>1, <1>2, <1>10, <1>13, <1>15, RunnerMoves

-----------------------------------------------------------------------------
(* The process *)

\* After a restart only the rows are left, and they are as they were.
LEMMA RestartKeeps == ASSUME IInv, Restart PROVE IInv'
<1>1. /\ request' = [q \in Requests |-> "idle"] /\ reads' = [q \in Requests |-> None]
      /\ running' = FALSE /\ runner' = "off" /\ current' = None /\ scan' = "out"
      /\ UNCHANGED <<jobs, devices>>
  BY DEF Restart, storeVars
<1>2. ScanInv'
  BY DEF Restart, ScanInv, ScannerTypeOK, WorkerStates, ControlOK, Apart, NoneMissing,
         OnlyWholeProbes, OkMeansAll, Consumed, Done
<1>3. TypeOK' /\ Exclusive'
  BY <1>1, <1>2 DEF IInv, ScanInv, TypeOK, Exclusive
<1>4. RowsOK' /\ HandlersOK' /\ CurrentOK'
  BY <1>1 DEF IInv, RowsOK, RowOK, HandlersOK, CurrentOK
<1> QED BY <1>2, <1>3, <1>4 DEF IInv

LEMMA NextKeeps == IInv /\ [JobNext]_vars => IInv'
<1> SUFFICES ASSUME IInv, [JobNext]_vars PROVE IInv'
  OBVIOUS
<1>1. ASSUME NEW q \in Requests, Start(q) PROVE IInv'
  BY <1>1, ClaimKeeps, InsertKeeps, LaunchKeeps, StartFailsKeeps DEF Start
<1>2. CASE Runner
  BY <1>2, MarkRunningKeeps, MarkFailsKeeps, RecordProbeKeeps, RecordProbeFailsKeeps,
     ScanEndsKeeps, CompleteKeeps, CompleteFailsKeeps, FailKeeps, FailFailsKeeps, EndKeeps
     DEF Runner
<1>3. CASE ScanStep \/ Shutdown \/ Restart
  BY <1>3, ScanStepKeeps, ShutdownKeeps, RestartKeeps
<1>4. CASE Idle \/ UNCHANGED vars
  BY <1>4, StutterKeeps DEF Idle
<1> QED BY <1>1, <1>2, <1>3, <1>4 DEF JobNext

\* The invariant holds of every job, through failures, cancellations and restarts.
THEOREM Invariance == JobSpec => []IInv
BY InitIInv, NextKeeps, PTL DEF JobSpec

-----------------------------------------------------------------------------
(* What it gives *)

\* Every variable has its type, and a scan is under way only for the job of the
\* background goroutine (service.go).
THEOREM TypeCorrect == JobSpec => []TypeOK
<1>1. IInv => TypeOK
  BY DEF IInv
<1> QED BY <1>1, Invariance, PTL

\* An address is with one worker at most and its result is handed to RecordProbe at
\* most once; only a done context loses an address (scanner.go).
THEOREM AllAccounted == JobSpec => []AddressesAccounted
<1>1. IInv => AddressesAccounted
  BY Accounted DEF IInv
<1> QED BY <1>1, Invariance, PTL

\* Scan returns nil only with every address of its target recorded (scanner.go).
THEOREM SuccessMeansAll == JobSpec => []OkMeansAll
<1>1. IInv => OkMeansAll
  BY DEF IInv, ScanInv
<1> QED BY <1>1, Invariance, PTL

\* What a cancelled context has cut short is not recorded (scanner.go, store.go).
THEOREM WholeOnly == JobSpec => []OnlyWholeProbes
<1>1. IInv => OnlyWholeProbes
  BY DEF IInv, ScanInv
<1> QED BY <1>1, Invariance, PTL

\* The running flag admits one handler or goroutine at a time and is set exactly while
\* there is one (service.go).
THEOREM OneScan == JobSpec => []OneScanAtATime
<1>1. ASSUME IInv PROVE OneScanAtATime
  <2>1. TypeOK /\ Exclusive /\ "runner" \notin Requests
    BY <1>1 DEF IInv
  <2>2. \A g, h \in Holders : g = h
    BY <2>1 DEF Holders, Exclusive
  <2>3. running <=> Holders # {}
    BY <2>1 DEF Holders, Exclusive
  <2> QED BY <2>2, <2>3 DEF OneScanAtATime
<1>2. IInv => OneScanAtATime
  BY <1>1
<1> QED BY <1>2, Invariance, PTL

\* The counters RecordProbe adds to (store.go) agree with the devices it has stored and
\* the results it was given.
THEOREM CountersCorrect == JobSpec => []CountersExact
<1>1. IInv => CountersExact
  BY DEF IInv, RowsOK, RowOK, CurrentOK, ScannedOK, CountersExact
<1> QED BY <1>1, Invariance, PTL

\* A job is shown as completed only with a result for every address (service.go).
THEOREM CompletedCorrect == JobSpec => []CompletedIsComplete
<1>1. IInv => CompletedIsComplete
  BY DEF IInv, RowsOK, RowOK, CompletedIsComplete
<1> QED BY <1>1, Invariance, PTL

\* No step writes the row of a finished job: the goroutine whose job it is has only to end.
LEMMA FinishedIsNotWritten ==
    ASSUME IInv, [JobNext]_vars, NEW j \in JobIds,
           jobs[j] # None, jobs[j].status \in {"completed", "failed"}
    PROVE  jobs'[j] = jobs[j] /\ devices'[j] = devices[j]
<1>0. jobs \in [JobIds -> Jobs \cup {None}] /\ devices \in [JobIds -> SUBSET Addresses]
  BY DEF IInv, TypeOK
<1>1. j = current => runner = "ending"
  BY DEF IInv, CurrentOK, TypeOK, Fresh, ScannedOK
<1>2. CASE UNCHANGED storeVars
  BY <1>2 DEF storeVars
<1>3. ASSUME NEW q \in Requests, NEW i \in JobIds, NEW T \in SUBSET Addresses, Insert(q, i, T)
      PROVE  jobs'[j] = jobs[j] /\ devices'[j] = devices[j]
  BY <1>0, <1>3 DEF Insert
<1>4. CASE MarkRunning \/ RecordProbe \/ Complete \/ Fail
  <2>1. j # current
    BY <1>1, <1>4 DEF MarkRunning, RecordProbe, Complete, Fail
  <2> QED BY <1>0, <1>4, <2>1 DEF MarkRunning, RecordProbe, Complete, Fail, SetStatus
<1>5. ASSUME NEW q \in Requests, Start(q)
      PROVE  jobs'[j] = jobs[j] /\ devices'[j] = devices[j]
  BY <1>2, <1>3, <1>5 DEF Start, Claim, Launch, StartFails
<1>6. CASE Runner
  BY <1>2, <1>4, <1>6
     DEF Runner, MarkFails, RecordProbeFails, ScanEnds, CompleteFails, FailFails, End, storeVars,
         serviceVars
<1>7. CASE ScanStep \/ Shutdown \/ Restart \/ Idle \/ UNCHANGED vars
  BY <1>2, <1>7 DEF ScanStep, Shutdown, Restart, Idle, vars
<1> QED BY <1>5, <1>6, <1>7 DEF JobNext

\* No statement of a late goroutine reaches the row of a finished job, whatever ended
\* it (service.go, store.go).
THEOREM FinishedFinal == JobSpec => FinishedIsFinal
<1>1. IInv /\ [JobNext]_vars =>
        [\A j \in JobIds : jobs[j] # None /\ jobs[j].status \in {"completed", "failed"} =>
           jobs'[j] = jobs[j] /\ devices'[j] = devices[j]]_vars
  BY FinishedIsNotWritten
<1> QED BY <1>1, Invariance, PTL DEF JobSpec, FinishedIsFinal

-----------------------------------------------------------------------------
(* The abstract specification of jobs *)

LEMMA InitRefines == Init => Abstract!Init
<1> SUFFICES ASSUME Init PROVE Abstract!Init
  OBVIOUS
<1>1. Working = {} /\ Seen = {}
  BY DEF Init, Working, Seen
<1> QED BY <1>1 DEF Init, Abstract!Init

LEMMA SameCardinality == ASSUME NEW T PROVE Abstract!Cardinality(T) = Cardinality(T)
BY Zenon DEF Cardinality, Abstract!Cardinality

\* A step that touches neither the rows nor whose they are is none of the abstract
\* specification.
LEMMA Unseen ==
    ASSUME UNCHANGED <<reads, current, jobs, devices, consumed>>
    PROVE  UNCHANGED Abstract!vars
BY DEF Abstract!vars, Working, Seen, Consumed

\* The handler that had inserted the row, or the goroutine, is gone.
LEMMA Leaves ==
    ASSUME current' = None, \A q \in Requests : reads'[q] = None, UNCHANGED <<jobs, devices>>
    PROVE  Abstract!Leave
<1>1. Working' = {} /\ Seen' = {}
  BY DEF Working, Seen
<1> QED BY <1>1 DEF Abstract!Leave

\* Whose job is worked on, and what was recorded for it.
LEMMA RunnerWorks ==
    ASSUME IInv, runner # "off"
    PROVE  Working = {current} /\ current \in JobIds /\ current # None
BY RunnerAlone DEF Working

LEMMA HandlerWorks ==
    ASSUME IInv, NEW q \in Requests, request[q] # "idle"
    PROVE  /\ current = None /\ runner = "off" /\ Seen = {}
           /\ Working = {reads[q]} \ {None}
           /\ \A p \in Requests \ {q} : reads[p] = None
<1>1. current = None /\ runner = "off"
  BY DEF IInv, Exclusive, TypeOK
<1>2. \A p \in Requests \ {q} : reads[p] = None
  BY DEF IInv, Exclusive, HandlersOK
<1> QED BY <1>1, <1>2 DEF Seen, Working

LEMMA StartRefines ==
    ASSUME IInv, NEW q \in Requests, Start(q)
    PROVE  Abstract!Next \/ UNCHANGED Abstract!vars
<1>1. CASE Claim(q)
  BY <1>1, Unseen DEF Claim, storeVars, scannerVars, callVars
<1>2. ASSUME NEW j \in JobIds, NEW T \in SUBSET Addresses, Insert(q, j, T)
      PROVE  Abstract!Next
  <2>1. /\ request[q] = "inserting" /\ reads' = [reads EXCEPT ![q] = j]
        /\ UNCHANGED <<current, devices>>
    BY <1>2 DEF Insert
  <2>2. reads \in [Requests -> JobIds \cup {None}] /\ reads[q] = None
    BY <2>1 DEF IInv, TypeOK, HandlersOK
  <2>3. Working = {} /\ Working' = {j} /\ Seen = {} /\ Seen' = {}
    BY <2>1, <2>2, HandlerWorks DEF Working, Seen
  <2>4. Abstract!Create(j, T)
    BY <1>2, <2>1, <2>3, SameCardinality, Zenon DEF Insert, Abstract!Create
  <2> QED BY <2>4 DEF Abstract!Next
<1>3. CASE Launch(q)
  <2>1. /\ request[q] = "reading" /\ current' = reads[q] /\ reads' = [reads EXCEPT ![q] = None]
        /\ UNCHANGED <<jobs, devices>>
    BY <1>3 DEF Launch, storeVars
  <2>2. Fresh(reads[q]) /\ reads \in [Requests -> JobIds \cup {None}]
    BY <2>1 DEF IInv, TypeOK, HandlersOK
  <2>3. Working = {reads[q]} /\ Working' = {reads[q]}
    BY <2>1, <2>2, HandlerWorks DEF Working, Fresh
  <2>4. Seen = {} /\ Seen' = {}
    BY <2>1, <2>2, HandlerWorks DEF Seen, Fresh
  <2> QED BY <2>1, <2>3, <2>4 DEF Abstract!vars
<1>4. CASE StartFails(q)
  <2>1. /\ request[q] # "idle" /\ reads' = [reads EXCEPT ![q] = None]
        /\ UNCHANGED <<current, jobs, devices>>
    BY <1>4 DEF StartFails, storeVars
  <2>2. current' = None /\ \A p \in Requests : reads'[p] = None
    BY <2>1, HandlerWorks DEF IInv, TypeOK
  <2> QED BY <2>1, <2>2, Leaves DEF Abstract!Next
<1> QED BY <1>1, <1>2, <1>3, <1>4 DEF Start

\* The status of the goroutine's row changes: before, if it said running, the addresses
\* recorded for it were those consumed.
LEMMA StatusRefines ==
    ASSUME IInv, runner # "off", jobs[current] # None,
           NEW from, jobs[current].status \in from,
           NEW status \in {"running", "completed", "failed"}, SetStatus(status),
           status = "running" => consumed' = {},
           UNCHANGED <<reads, current, devices>>
    PROVE  Abstract!Moves(current, from, status)
<1>1. jobs'[current].status = status
  BY StatusChanges
<1>2. Working = {current} /\ Working' = Working /\ current' = current
  BY RunnerWorks DEF Working
<1>3. Seen' = {}
  BY <1>1, <1>2 DEF Seen, Consumed
<1> QED BY <1>2, <1>3 DEF SetStatus, Abstract!Moves

\* The address of the result in hand is one of the target and was not consumed.
LEMMA HandIsNew ==
    ASSUME IInv, ConsumeOk, ~cancelled
    PROVE  /\ hand \in Results /\ hand.address \in target \ Consumed
           /\ Consumed' = Consumed \cup {hand.address}
<1>1. /\ ScannerTypeOK /\ ControlOK /\ Apart /\ NoneMissing /\ scan = "consuming"
      /\ consumed' = consumed \cup {hand}
  BY DEF IInv, ScanInv, ConsumeOk
<1>2. hand \in Results /\ hand # None /\ hand.address \in Addresses
  BY <1>1 DEF ScannerTypeOK, Results
<1>3. hand.address \in target
  BY <1>1, <1>2 DEF ControlOK, NoneMissing, Somewhere, Done
<1>4. hand.address \notin Consumed /\ Consumed' = Consumed \cup {hand.address}
  BY <1>1, <1>2 DEF Apart, Consumed
<1> QED BY <1>2, <1>3, <1>4

LEMMA RecordProbeRefines ==
    ASSUME IInv, RecordProbe
    PROVE  \E a \in Addresses : Abstract!Record(current, a)
<1> DEFINE a == hand.address
           found == IF hand.responsive THEN {hand.address} ELSE {}
           job == jobs[current]
<1>1. /\ runner = "scanning" /\ ConsumeOk /\ ~cancelled
      /\ jobs' = [jobs EXCEPT ![current] = Counted(job, Found)]
      /\ devices' = [devices EXCEPT ![current] =
                        IF hand.responsive THEN @ \cup {hand.address} ELSE @]
      /\ UNCHANGED <<reads, current>>
  BY DEF RecordProbe, serviceVars
<1>2. ScannedOK /\ Working = {current} /\ Working' = Working /\ current \in JobIds /\ current # None
  BY <1>1, RunnerWorks DEF IInv, CurrentOK, Working
<1>3. hand \in Results /\ a \in target \ Consumed /\ Consumed' = Consumed \cup {a}
  BY <1>1, HandIsNew
<1>4. a \in Addresses
  BY <1>3 DEF Results
<1>5. found \in SUBSET {a} /\ Found = IF found = {} THEN 0 ELSE 1
  BY DEF Found
<1>6. job \in Jobs /\ jobs \in [JobIds -> Jobs \cup {None}]
  BY <1>2 DEF IInv, TypeOK, ScannedOK
<1>7. Counted(job, Found) = Abstract!Counted(job, IF found = {} THEN 0 ELSE 1)
  BY <1>5, Zenon DEF Counted, Abstract!Counted
<1>8. devices' = [devices EXCEPT ![current] = @ \cup found]
  BY <1>1, <1>2 DEF IInv, TypeOK
<1>9. Seen = Consumed /\ Seen' = Consumed'
  <2>1. jobs'[current].status = "running" /\ jobs'[current] # None
    <3>1. Found \in {0, 1}
      BY DEF Found
    <3>2. Counted(job, Found) \in Jobs /\ Counted(job, Found).status = job.status
      BY <1>6, <3>1, CountedRow
    <3>3. jobs'[current] = Counted(job, Found)
      BY <1>1, <1>2, <1>6
    <3> QED BY <1>2, <3>2, <3>3 DEF ScannedOK
  <2> QED BY <1>1, <1>2, <2>1 DEF Seen, ScannedOK
<1> HIDE DEF a, found
<1>10. jobs' = [jobs EXCEPT ![current] = Abstract!Counted(@, IF found = {} THEN 0 ELSE 1)]
  BY <1>1, <1>7, Zenon
<1>11. /\ current \in Working /\ jobs[current].status = "running"
       /\ a \in jobs[current].target \ Seen /\ Seen' = Seen \cup {a} /\ Working' = Working
  BY <1>2, <1>3, <1>9 DEF ScannedOK
<1>12. Abstract!Record(current, a)
  BY <1>5, <1>8, <1>10, <1>11, Zenon DEF Abstract!Record
<1> QED BY <1>4, <1>12

LEMMA RunnerRefines ==
    ASSUME IInv, Runner
    PROVE  Abstract!Next \/ UNCHANGED Abstract!vars
<1>0. CurrentOK /\ runner # "off" /\ current \in JobIds
  BY RunnerAlone
     DEF IInv, Runner, MarkRunning, MarkFails, RecordProbe, RecordProbeFails, ConsumeFails,
         ScanEnds, Return, Complete, CompleteFails, Fail, FailFails, End, TypeOK
<1>1. CASE MarkRunning
  <2>1. Fresh(current) /\ consumed' = {}
    BY <1>0, <1>1 DEF MarkRunning, CurrentOK, Call
  <2>2. Abstract!Moves(current, {"pending"}, "running")
    BY <1>0, <1>1, <2>1, StatusRefines DEF MarkRunning, Fresh
  <2> QED BY <1>0, <2>2 DEF Abstract!Run, Abstract!Next
<1>2. CASE Complete
  <2>1. ScannedOK /\ outcome = "ok"
    BY <1>0, <1>2 DEF Complete, CurrentOK
  <2>2. Seen = jobs[current].target
    BY <1>0, <2>1 DEF IInv, ScanInv, OkMeansAll, ScannedOK, Seen
  <2>3. Abstract!Moves(current, {"running"}, "completed")
    BY <1>0, <1>2, <2>1, StatusRefines DEF Complete, ScannedOK
  <2> QED BY <1>0, <2>2, <2>3 DEF Abstract!Complete, Abstract!Next
<1>3. CASE Fail
  <2>1. Abstract!Moves(current, {"pending", "running"}, "failed")
    BY <1>0, <1>3, StatusRefines DEF Fail, CurrentOK
  <2> QED BY <1>0, <2>1 DEF Abstract!Fail, Abstract!Next
<1>4. CASE RecordProbe
  BY <1>0, <1>4, RecordProbeRefines DEF Abstract!Next
<1>5. CASE MarkFails \/ RecordProbeFails \/ ScanEnds \/ CompleteFails \/ FailFails
  <2>1. UNCHANGED <<reads, current, jobs, devices, consumed>>
    BY <1>5 DEF MarkFails, RecordProbeFails, ScanEnds, CompleteFails, FailFails, ConsumeFails,
                Return, scannerVars, callVars, serviceVars, storeVars
  <2> QED BY <2>1, Unseen
<1>6. CASE End
  <2>1. current' = None /\ UNCHANGED <<reads, jobs, devices>>
    BY <1>6 DEF End, storeVars
  <2> QED BY <1>0, <2>1, RunnerAlone, Leaves DEF Abstract!Next
<1> QED BY <1>1, <1>2, <1>3, <1>4, <1>5, <1>6 DEF Runner

LEMMA ProcessRefines ==
    ASSUME ScanStep \/ Shutdown \/ Restart \/ Idle \/ UNCHANGED vars
    PROVE  Abstract!Next \/ UNCHANGED Abstract!vars
<1>1. CASE ScanStep
  <2>1. consumed' = consumed
    BY <1>1 DEF ScanStep, CloseJobs, Worker, Probe, AcquireSlot, SkipIdentity, Identify,
                SendResult, DropResult, Exit, Feed, callVars
  <2> QED BY <1>1, <2>1, Unseen DEF ScanStep, serviceVars, storeVars
<1>2. CASE Shutdown \/ Idle \/ UNCHANGED vars
  BY <1>2, Unseen
     DEF Shutdown, CancelContext, Idle, vars, serviceVars, storeVars, scannerVars, callVars
<1>3. CASE Restart
  BY <1>3, Leaves DEF Restart, storeVars, Abstract!Next
<1> QED BY <1>1, <1>2, <1>3

\* Whatever handlers, goroutines, failing statements and restarts do, the rows follow the
\* abstract specification: one job is worked on at a time, no address of it is recorded
\* twice or after its end, and completed means that all were (service.go, store.go).
THEOREM Refinement == JobSpec => JobsPromise
<1>1. IInv /\ [JobNext]_vars => [Abstract!Next]_(Abstract!vars)
  <2> SUFFICES ASSUME IInv, [JobNext]_vars
               PROVE  Abstract!Next \/ UNCHANGED Abstract!vars
    OBVIOUS
  <2> QED BY StartRefines, RunnerRefines, ProcessRefines DEF JobNext
<1> QED BY <1>1, InitRefines, Invariance, PTL DEF JobSpec, JobsPromise, Abstract!Spec
=============================================================================
