------------------------------ MODULE Scanner ------------------------------
(***************************************************************************)
(* The discovery scanner (src/internal/discovery/scanner.go): one call of  *)
(* Scan feeds the addresses of a target to a pool of workers through an    *)
(* unbuffered channel, the workers probe them and hand their results back  *)
(* through another one, and the caller's goroutine consumes the results.   *)
(* The caller's context may be cancelled, and consuming may fail, while    *)
(* any of them is at any point.                                            *)
(*                                                                         *)
(* Of a probe only three things are kept: its address, whether the address *)
(* responded, and whether the probe was carried through (`whole`) or cut   *)
(* short by the context.                                                   *)
(***************************************************************************)
EXTENDS Naturals, FiniteSets

CONSTANTS
    Addresses,      \* the addresses a target may name
    Workers,        \* the pool's goroutines
    IdentitySlots,  \* how many identity probes may run at a time
    None            \* no address, no result

Results == [address : Addresses, responsive : BOOLEAN, whole : BOOLEAN]

ASSUME AddressesAssumption == IsFiniteSet(Addresses) /\ None \notin Addresses \cup Results
ASSUME PoolAssumption ==
    /\ IsFiniteSet(Workers) /\ Workers # {}
    /\ IdentitySlots \in Nat \ {0}

VARIABLES
    scan,        \* where the goroutine that called Scan is
    target,      \* the addresses given to Scan
    todo,        \* those the feeder has not handed out
    feeder,      \* "feeding", or "closed" with the jobs channel
    wpc,         \* wpc[w]: where worker w is
    result,      \* result[w]: the probe w is working on, or None
    hand,        \* the result being consumed, or None
    consumed,    \* the results the callback has accepted
    failed,      \* the callback has returned an error (consumeErr)
    outcome,     \* what Scan has returned
    cancelled    \* the caller's context has been cancelled

poolVars == <<todo, feeder, wpc, result>>
callVars == <<scan, target, hand, consumed, failed, outcome>>
scannerVars == <<poolVars, callVars, cancelled>>

WorkerStates ==
    {"idle", "probing", "waiting", "identifying", "sending", "exited"}

\* Every variable has its type; a worker works on a probe exactly between receiving its
\* address and handing its result over.
ScannerTypeOK ==
    /\ scan \in {"out", "ranging", "consuming"}
    /\ target \in SUBSET Addresses
    /\ todo \in SUBSET target
    /\ feeder \in {"feeding", "closed"}
    /\ wpc \in [Workers -> WorkerStates]
    /\ result \in [Workers -> Results \cup {None}]
    /\ \A w \in Workers : wpc[w] \in {"idle", "exited"} <=> result[w] = None
    /\ hand \in Results \cup {None}
    /\ scan = "consuming" <=> hand # None
    /\ consumed \in SUBSET Results
    /\ failed \in BOOLEAN
    /\ outcome \in {"none", "ok", "error"}
    /\ cancelled \in BOOLEAN

\* No Scan has been called yet.
ScannerInit ==
    /\ scan = "out"
    /\ target = {} /\ todo = {}
    /\ feeder = "closed"
    /\ wpc = [w \in Workers |-> "exited"]
    /\ result = [w \in Workers |-> None]
    /\ hand = None
    /\ consumed = {}
    /\ failed = FALSE
    /\ outcome = "none"
    /\ cancelled = FALSE

\* The context Scan derives from its caller's is done: the caller's is, or Scan
\* cancelled it after a failed callback.
Done == cancelled \/ failed

-----------------------------------------------------------------------------
(* The goroutine that called Scan *)

\* No more workers than addresses are started.
Call(T) ==
    /\ scan = "out"
    /\ \E W \in SUBSET Workers :
        /\ Cardinality(W) =
            IF Cardinality(T) < Cardinality(Workers)
            THEN Cardinality(T) ELSE Cardinality(Workers)
        /\ wpc' = [w \in Workers |-> IF w \in W THEN "idle" ELSE "exited"]
    /\ scan' = "ranging"
    /\ target' = T /\ todo' = T
    /\ feeder' = "feeding"
    /\ result' = [w \in Workers |-> None]
    /\ consumed' = {}
    /\ failed' = FALSE
    /\ outcome' = "none"
    /\ UNCHANGED <<hand, cancelled>>

\* The callback accepts the result.
ConsumeOk ==
    /\ scan = "consuming"
    /\ consumed' = consumed \cup {hand}
    /\ hand' = None
    /\ scan' = "ranging"
    /\ UNCHANGED <<poolVars, target, failed, outcome, cancelled>>

\* Mutant: the callback's error is logged and the scan goes on.
FailedIgnored == failed

\* consumeErr once the callback has failed.
FailedNow == TRUE

\* The callback fails: Scan cancels its own context and drains the results.
ConsumeFails ==
    /\ scan = "consuming"
    /\ failed' = FailedNow
    /\ hand' = None
    /\ scan' = "ranging"
    /\ UNCHANGED <<poolVars, target, consumed, outcome, cancelled>>

\* Mutant: Scan reports the callback's error alone, not its context's.
OutcomeOfCallback == IF failed THEN "error" ELSE "ok"

Outcome == IF Done THEN "error" ELSE "ok"

\* All workers are done, the results channel is closed and the loop over it ends.
Return ==
    /\ scan = "ranging"
    /\ \A w \in Workers : wpc[w] = "exited"
    /\ outcome' = Outcome
    /\ scan' = "out"
    /\ UNCHANGED <<poolVars, target, hand, consumed, failed, cancelled>>

-----------------------------------------------------------------------------
(* The feeder and the workers *)

\* Mutant: the feeder does not advance to the next address.
RestOf(a) == todo

Rest(a) == todo \ {a}

\* The feeder's send meets an idle worker's receive.
Feed(w, a) ==
    /\ feeder = "feeding" /\ a \in todo
    /\ wpc[w] = "idle"
    /\ todo' = Rest(a)
    /\ result' = [result EXCEPT ![w] =
                    [address |-> a, responsive |-> FALSE, whole |-> FALSE]]
    /\ wpc' = [wpc EXCEPT ![w] = "probing"]
    /\ UNCHANGED <<feeder, callVars, cancelled>>

\* The feeder has sent everything or finds the context done.
CloseJobs ==
    /\ feeder = "feeding"
    /\ todo = {} \/ Done
    /\ feeder' = "closed"
    /\ UNCHANGED <<todo, wpc, result, callVars, cancelled>>

\* The ports have been probed; with the context done the answers may be partial.
\* A responsive address goes on to its identity probe.
Probe(w) ==
    /\ wpc[w] = "probing"
    /\ \E responsive \in BOOLEAN, whole \in IF Done THEN BOOLEAN ELSE {TRUE} :
        /\ result' = [result EXCEPT ![w] =
                        [@ EXCEPT !.responsive = responsive, !.whole = whole]]
        /\ wpc' = [wpc EXCEPT ![w] =
                    IF responsive /\ ~Done THEN "waiting" ELSE "sending"]
    /\ UNCHANGED <<todo, feeder, callVars, cancelled>>

Identifying == {w \in Workers : wpc[w] = "identifying"}

AcquireSlot(w) ==
    /\ wpc[w] = "waiting"
    /\ Cardinality(Identifying) < IdentitySlots
    /\ wpc' = [wpc EXCEPT ![w] = "identifying"]
    /\ UNCHANGED <<todo, feeder, result, callVars, cancelled>>

\* The context is done while the worker waits for a slot: no fingerprints.
SkipIdentity(w) ==
    /\ wpc[w] = "waiting" /\ Done
    /\ result' = [result EXCEPT ![w].whole = FALSE]
    /\ wpc' = [wpc EXCEPT ![w] = "sending"]
    /\ UNCHANGED <<todo, feeder, callVars, cancelled>>

\* The identity probe returns, cut short perhaps, and gives back its slot.
Identify(w) ==
    /\ wpc[w] = "identifying"
    /\ \E whole \in IF Done THEN BOOLEAN ELSE {TRUE} :
        result' = [result EXCEPT ![w].whole = whole]
    /\ wpc' = [wpc EXCEPT ![w] = "sending"]
    /\ UNCHANGED <<todo, feeder, callVars, cancelled>>

\* Mutant: the callback is called again after it has failed.
HandedOnAlways == TRUE

\* A result that the caller receives goes to the callback; after an error the caller
\* only drains.
HandedOn == ~failed

\* The worker's send meets the caller's receive.
SendResult(w) ==
    /\ wpc[w] = "sending" /\ scan = "ranging"
    /\ hand' = IF HandedOn THEN result[w] ELSE None
    /\ scan' = IF HandedOn THEN "consuming" ELSE "ranging"
    /\ result' = [result EXCEPT ![w] = None]
    /\ wpc' = [wpc EXCEPT ![w] = "idle"]
    /\ UNCHANGED <<todo, feeder, target, consumed, failed, outcome, cancelled>>

\* The Done case of the worker's select: the worker ends and its result is lost.
DropResult(w) ==
    /\ wpc[w] = "sending" /\ Done
    /\ result' = [result EXCEPT ![w] = None]
    /\ wpc' = [wpc EXCEPT ![w] = "exited"]
    /\ UNCHANGED <<todo, feeder, callVars, cancelled>>

\* The range over the closed jobs channel ends.
Exit(w) ==
    /\ wpc[w] = "idle" /\ feeder = "closed"
    /\ wpc' = [wpc EXCEPT ![w] = "exited"]
    /\ UNCHANGED <<todo, feeder, result, callVars, cancelled>>

Worker(w) ==
    \/ Probe(w) \/ AcquireSlot(w) \/ SkipIdentity(w) \/ Identify(w)
    \/ SendResult(w) \/ DropResult(w) \/ Exit(w)
    \/ \E a \in Addresses : Feed(w, a)

CancelContext ==
    /\ ~cancelled
    /\ cancelled' = TRUE
    /\ UNCHANGED <<poolVars, callVars>>

-----------------------------------------------------------------------------
(* Properties *)

InPool == {result[w].address : w \in {v \in Workers : result[v] # None}}
Consumed == {r.address : r \in consumed}
InHand == IF hand = None THEN {} ELSE {hand.address}

\* Every address of the target is in one place: with the feeder, with one worker, with
\* the caller or consumed, never in two of them, so that it is reported once; and only
\* a done context loses one.
AddressesAccounted ==
    /\ \A v, w \in Workers : /\ result[v] # None /\ result[w] # None
                             /\ result[v].address = result[w].address
                             => v = w
    /\ todo \cap InPool = {} /\ todo \cap InHand = {} /\ todo \cap Consumed = {}
    /\ InPool \cap InHand = {} /\ InPool \cap Consumed = {} /\ InHand \cap Consumed = {}
    /\ \A r, s \in consumed : r.address = s.address => r = s
    /\ scan # "out" /\ ~Done => target = todo \cup InPool \cup InHand \cup Consumed

\* Scan returns without an error only after the callback has accepted a result for
\* every address of the target, each of a probe that was carried through.
OkMeansAll ==
    outcome = "ok" => Consumed = target /\ \A r \in consumed : r.whole

\* A probe the context cut short is never accepted by the callback.
OnlyWholeProbes == \A r \in consumed : r.whole
=============================================================================
