--------------------------- MODULE LoginLimiter ----------------------------
(***************************************************************************)
(* The login limiter (src/internal/server/limiter.go) between the handlers *)
(* that use it (loginSubmit in auth_handlers.go): two tables, one of       *)
(* source addresses and one of accounts, each a sliding window of the      *)
(* attempts it let through, with a bound on its keys and a sweep that      *)
(* forgets keys.  A login that is let through verifies a password outside  *)
(* the limiter's lock, and resets both of its keys if that succeeds; other *)
(* logins use the limiter meanwhile.                                       *)
(*                                                                         *)
(* The limiter's lock makes allow and reset single steps.  The clock is    *)
(* time.Now's monotonic one.                                               *)
(***************************************************************************)
EXTENDS Integers, Sequences, FiniteSets

CONSTANTS
    Sources, Accounts,
    SourceWindow, SourceLimit,
    AccountWindow, AccountLimit,
    MaxKeys,            \* maximumLimiterKeys
    SweepInterval,
    MaxLogins,          \* bounds the logins that verify a password at a time
    MaxTime,            \* bounds the clock
    None

KeyOf(source, account) == [sources |-> source, accounts |-> account]

Tables == {"sources", "accounts"}
Keys   == [sources |-> Sources, accounts |-> Accounts]
Window == [sources |-> SourceWindow, accounts |-> AccountWindow]
Limit  == [sources |-> SourceLimit, accounts |-> AccountLimit]

Record == [attempts : Seq(Nat), lastSeen : Nat]

ASSUME LimiterAssumption ==
    /\ \A t \in Tables : Window[t] \in Nat \ {0} /\ Limit[t] \in Nat \ {0}
    /\ MaxKeys \in Nat \ {0} /\ SweepInterval \in Nat \ {0}
    /\ MaxLogins \in Nat \ {0} /\ MaxTime \in Nat
    /\ None \notin Nat /\ None \notin Record

VARIABLES
    records,    \* records[t][k]: the record of key k in table t, or None
    lastSweep,  \* when sweep last ran, None before
    now,
    checking,   \* the logins that were let through and verify a password
    let         \* history: when table t let k through since k's last reset, as far as
                \* that is in the window that ends now

vars == <<records, lastSweep, now, checking, let>>

Present(table) == {k \in DOMAIN table : table[k] # None}

\* Every variable has its type, no record holds more attempts than its limit, and the
\* tables never outgrow their bound, so that evictOldest has nothing to do.
TypeOK ==
    /\ \A t \in Tables :
        /\ records[t] \in [Keys[t] -> Record \cup {None}]
        /\ \A k \in Keys[t] : records[t][k] # None => Len(records[t][k].attempts) <= Limit[t]
        /\ Cardinality(Present(records[t])) <= MaxKeys
    /\ lastSweep \in Nat \cup {None}
    /\ now \in 0..MaxTime
    /\ checking \in SUBSET (Sources \X Accounts)
    /\ \A t \in Tables : let[t] \in [Keys[t] -> Seq(Nat)]

Init ==
    /\ records = [t \in Tables |-> [k \in Keys[t] |-> None]]
    /\ lastSweep = None
    /\ now = 0
    /\ checking = {}
    /\ let = [t \in Tables |-> [k \in Keys[t] |-> <<>>]]

-----------------------------------------------------------------------------
(* The operations on a table *)

\* Mutant: every key is forgotten after the shorter window.
RetentionShort(t) == SweepInterval

\* How long sweep keeps the keys of table t.
Retention(t) == Window[t]

\* removeExpired
RemoveExpired(table, t) ==
    [k \in DOMAIN table |->
        IF table[k] # None /\ table[k].lastSeen < now - Retention(t) THEN None ELSE table[k]]

\* evictOldest: whichever MaxKeys keys may remain when it has deleted the oldest ones.
Evictions(table) ==
    LET keys == Present(table)
    IN  {[k \in DOMAIN table |-> IF k \in kept THEN table[k] ELSE None] :
            kept \in {S \in SUBSET keys :
                        /\ Cardinality(S) =
                            IF Cardinality(keys) > MaxKeys THEN MaxKeys ELSE Cardinality(keys)
                        /\ \A k \in S, l \in keys \ S : table[l].lastSeen <= table[k].lastSeen}}

\* sweep runs at most once in SweepInterval.
SweepDue == lastSweep = None \/ now - lastSweep >= SweepInterval

\* What table t may be when sweep has returned.
Swept(t) == IF SweepDue THEN Evictions(RemoveExpired(records[t], t)) ELSE {records[t]}

\* Mutant: the time is noted whether the tables were swept or not.
SweptAtAlways == now

SweptAt == IF SweepDue THEN now ELSE lastSweep

\* allowAttempt has no room for the key.
NoRoom(table, k) == table[k] = None /\ Cardinality(Present(table)) >= MaxKeys

\* allowAttempt's loop: the attempts after the cutoff, in their order.
After(attempts, cutoff) ==
    LET recent[i \in 0..Len(attempts)] ==
            IF i = 0 THEN <<>>
            ELSE IF attempts[i] > cutoff THEN Append(recent[i - 1], attempts[i])
            ELSE recent[i - 1]
    IN  recent[Len(attempts)]

Recent(table, t, k) ==
    IF table[k] = None THEN <<>> ELSE After(table[k].attempts, now - Window[t])

\* Mutant: the limit is one off.
AllowedOneMore(table, t, k) == ~NoRoom(table, k) /\ Len(Recent(table, t, k)) <= Limit[t]

Allowed(table, t, k) == ~NoRoom(table, k) /\ Len(Recent(table, t, k)) < Limit[t]

\* Mutant: a refused attempt counts as well.
CountedAlways(table, t, k) == Append(Recent(table, t, k), now)

Counted(table, t, k) ==
    IF Allowed(table, t, k) THEN Append(Recent(table, t, k), now) ELSE Recent(table, t, k)

\* The table when allowAttempt has dealt with an attempt of k.
Attempt(table, t, k) ==
    IF NoRoom(table, k) THEN table
    ELSE [table EXCEPT ![k] = [attempts |-> Counted(table, t, k), lastSeen |-> now]]

-----------------------------------------------------------------------------
(* The handlers *)

\* A login is posted: both tables deal with the attempt, whatever the first says.
Allow(source, account) ==
    /\ Cardinality(checking) < MaxLogins
    /\ \E sources \in Swept("sources"), accounts \in Swept("accounts") :
           LET swept   == [sources |-> sources, accounts |-> accounts]
               key     == KeyOf(source, account)
               allowed == [t \in Tables |-> Allowed(swept[t], t, key[t])]
           IN  /\ records' = [t \in Tables |-> Attempt(swept[t], t, key[t])]
               /\ let' = [t \in Tables |->
                            IF allowed[t] THEN [let[t] EXCEPT ![key[t]] = Append(@, now)]
                            ELSE let[t]]
               /\ checking' = IF \A t \in Tables : allowed[t]
                              THEN checking \cup {<<source, account>>} ELSE checking
               /\ lastSweep' = SweptAt
               /\ UNCHANGED now

\* The password was right: reset.
LoginSucceeds(source, account) ==
    /\ <<source, account>> \in checking
    /\ records' = [records EXCEPT !.sources[source] = None, !.accounts[account] = None]
    /\ let' = [let EXCEPT !.sources[source] = <<>>, !.accounts[account] = <<>>]
    /\ checking' = checking \ {<<source, account>>}
    /\ UNCHANGED <<lastSweep, now>>

LoginFails(source, account) ==
    /\ <<source, account>> \in checking
    /\ checking' = checking \ {<<source, account>>}
    /\ UNCHANGED <<records, lastSweep, now, let>>

Elapse ==
    /\ now < MaxTime
    /\ now' = now + 1
    /\ let' = [t \in Tables |-> [k \in Keys[t] |-> After(let[t][k], now' - Window[t])]]
    /\ UNCHANGED <<records, lastSweep, checking>>

Next ==
    \/ \E s \in Sources, a \in Accounts :
        Allow(s, a) \/ LoginSucceeds(s, a) \/ LoginFails(s, a)
    \/ Elapse

Spec == Init /\ [][Next]_vars

-----------------------------------------------------------------------------
(* Properties *)

\* No key is let through more often than its limit in any window, unless a login of
\* its own succeeded: neither a sweep nor the bound on the keys forgets an attempt
\* that still counts.
WindowLimit == \A t \in Tables : \A k \in Keys[t] : Len(let[t][k]) <= Limit[t]

\* A key is turned away only if its window holds its limit of attempts that were let
\* through or if the table is full of others; refused attempts do not prolong it.
RefusedOnlyAtLimit ==
    [][\A s \in Sources, a \in Accounts : Allow(s, a) =>
         \A t \in Tables :
            LET k == KeyOf(s, a)[t]
            IN  let'[t][k] # let[t][k] \/ NoRoom(records'[t], k)
                    \/ Len(let[t][k]) >= Limit[t]]_vars

\* A full table recovers: whenever a login is dealt with, every key left in a table
\* has tried within its window and one interval of the sweep.
KeysSeenLately ==
    [][\A s \in Sources, a \in Accounts : Allow(s, a) =>
         \A t \in Tables : \A k \in Present(records'[t]) :
            records'[t][k].lastSeen > now - Window[t] - SweepInterval]_vars
=============================================================================
