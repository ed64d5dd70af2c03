------------------------------ MODULE Sessions -----------------------------
(***************************************************************************)
(* The sessions of logged-in users (src/internal/auth/sessions.go): a      *)
(* login purges expired sessions and inserts its own, every request looks  *)
(* its session up, and a logout deletes it.  The statements of concurrent  *)
(* requests interleave; each takes the time before it waits for the        *)
(* database's only connection.                                             *)
(*                                                                         *)
(* The table holds an expiry as text and compares it as text: seconds at   *)
(* a fixed width, a fraction without trailing zeros, and the letter Z,     *)
(* which follows the digits in the collation.                              *)
(***************************************************************************)
EXTENDS Integers, Sequences, FiniteSets

CONSTANTS
    Clients,    \* the requests handled at a time
    Tokens,     \* the bearer tokens, each given out once; bounds the logins
    Base,       \* the values of a digit of a fraction
    TTL,        \* a session's duration, in instants
    MaxTime,    \* bounds the clock
    None

ASSUME SessionsAssumption ==
    /\ Base \in Nat \ {0, 1} /\ TTL \in Nat \ {0} /\ MaxTime \in Nat
    /\ None \notin Tokens /\ None \notin Nat

VARIABLES
    now,        \* the time; a fraction has two digits
    expiry,     \* expiry[t]: the row of token t in the table sessions, or None
    issued,     \* history: issued[t]: the expiry token t was given out with, or None
    loggedOut,  \* history: the tokens that were logged out
    client      \* client[c]: where request c is, with its token and the time it took

sessionVars == <<now, expiry, issued, loggedOut, client>>

Client == [pc : {"purging", "inserting", "asking", "admitted"}, token : Tokens, at : Nat]
AtRest == [pc |-> "idle", token |-> None, at |-> None]

\* Every variable has its type; a row has the expiry its token was given out with.
SessionsTypeOK ==
    /\ now \in 0..MaxTime
    /\ expiry \in [Tokens -> Nat \cup {None}]
    /\ issued \in [Tokens -> Nat \cup {None}]
    /\ \A t \in Tokens : expiry[t] \in {None, issued[t]}
    /\ loggedOut \subseteq {t \in Tokens : issued[t] # None}
    /\ client \in [Clients -> Client \cup {AtRest}]

Init ==
    /\ now = 0
    /\ expiry = [t \in Tokens |-> None]
    /\ issued = [t \in Tokens |-> None]
    /\ loggedOut = {}
    /\ client = [c \in Clients |-> AtRest]

-----------------------------------------------------------------------------
(* Instants as text (time.RFC3339Nano) *)

Second == Base * Base

\* The fraction of instant t, without trailing zeros.
Fraction(t) ==
    LET f == t % Second
    IN  IF f = 0 THEN <<>>
        ELSE IF f % Base = 0 THEN <<f \div Base>> ELSE <<f \div Base, f % Base>>

\* Base stands for the Z that ends the text.  The point before a fraction is left out:
\* it comes before Z, as the digits do.
Text(t) == <<t \div Second>> \o Fraction(t) \o <<Base>>

\* The text of instant s comes before that of instant t.
Before(s, t) ==
    LET x == Text(s)
        y == Text(t)
    IN  \E i \in DOMAIN x \cap DOMAIN y :
            x[i] < y[i] /\ \A j \in 1..(i - 1) : x[j] = y[j]

-----------------------------------------------------------------------------
(* A login: CreateSession, two statements *)

Become(c, pc, token, at) ==
    client' = [client EXCEPT ![c] = [pc |-> pc, token |-> token, at |-> at]]

Leave(c) == client' = [client EXCEPT ![c] = AtRest]

NewSession(c, t) ==
    /\ client[c].pc = "idle"
    /\ issued[t] = None /\ \A d \in Clients : client[d].token # t
    /\ Become(c, "purging", t, now)
    /\ UNCHANGED <<now, expiry, issued, loggedOut>>

\* Mutant: the purge compares with the new session's expiry.
PurgedUntilExpiry(c) == client[c].at + TTL

PurgedUntil(c) == client[c].at

Purge(c) ==
    /\ client[c].pc = "purging"
    /\ expiry' = [t \in Tokens |->
            IF expiry[t] = None \/ ~Before(PurgedUntil(c), expiry[t]) THEN None
            ELSE expiry[t]]
    /\ Become(c, "inserting", client[c].token, client[c].at)
    /\ UNCHANGED <<now, issued, loggedOut>>

RowExpiry(c) == client[c].at + TTL

Insert(c) ==
    /\ client[c].pc = "inserting"
    /\ expiry' = [expiry EXCEPT ![client[c].token] = RowExpiry(c)]
    /\ issued' = [issued EXCEPT ![client[c].token] = client[c].at + TTL]
    /\ Leave(c)
    /\ UNCHANGED <<now, loggedOut>>

\* A statement fails, the request is given up, or it was admitted and has been answered.
Ends(c) ==
    /\ client[c].pc # "idle"
    /\ Leave(c)
    /\ UNCHANGED <<now, expiry, issued, loggedOut>>

-----------------------------------------------------------------------------
(* A request with a session's cookie *)

\* SessionByToken takes the time and begins to wait for the connection.
Ask(c, t) ==
    /\ client[c].pc = "idle"
    /\ issued[t] # None
    /\ Become(c, "asking", t, now)
    /\ UNCHANGED <<now, expiry, issued, loggedOut>>

\* Mutant: the query is by token alone.
UnexpiredAny(t, at) == expiry[t] # None

Unexpired(t, at) == expiry[t] # None /\ Before(at, expiry[t])

\* The query finds the session.
Admit(c) ==
    /\ client[c].pc = "asking"
    /\ Unexpired(client[c].token, client[c].at)
    /\ Become(c, "admitted", client[c].token, client[c].at)
    /\ UNCHANGED <<now, expiry, issued, loggedOut>>

Refuse(c) ==
    /\ client[c].pc = "asking"
    /\ ~Unexpired(client[c].token, client[c].at)
    /\ Leave(c)
    /\ UNCHANGED <<now, expiry, issued, loggedOut>>

\* Mutant: the cookie is cleared and the row left alone.
WithoutSessionNever(t) == expiry

\* DeleteSession
WithoutSession(t) == [expiry EXCEPT ![t] = None]

\* logoutSubmit, once its own session was found.
Logout(c) ==
    /\ client[c].pc = "admitted"
    /\ expiry' = WithoutSession(client[c].token)
    /\ loggedOut' = loggedOut \cup {client[c].token}
    /\ Leave(c)
    /\ UNCHANGED <<now, issued>>

Elapse ==
    /\ now < MaxTime
    /\ now' = now + 1
    /\ UNCHANGED <<expiry, issued, loggedOut, client>>

Next ==
    \/ \E c \in Clients :
        \/ \E t \in Tokens : NewSession(c, t) \/ Ask(c, t)
        \/ Purge(c) \/ Insert(c) \/ Ends(c) \/ Admit(c) \/ Refuse(c) \/ Logout(c)
    \/ Elapse

Spec == Init /\ [][Next]_sessionVars

-----------------------------------------------------------------------------
(* Properties *)

\* A session that was not logged out stays in the table until the last second before
\* its expiry at least: no other login's purge takes it.
KeptWhileValid ==
    \A t \in Tokens \ loggedOut :
        issued[t] # None /\ now + Second <= issued[t] => expiry[t] # None

\* A request that takes its time a second or more after its session's expiry is refused,
\* whatever the texts of the two.  This is about when a request asks: one that asked in
\* time and then waits for the connection is admitted however late it gets it.
LateIsRefused ==
    \A c \in Clients : client[c].pc = "admitted" =>
        client[c].at < issued[client[c].token] + Second

\* Once a session is logged out no request is admitted with it, also one that was
\* waiting for the connection meanwhile.
LogoutIsFinal ==
    [][\A c \in Clients :
         client[c].pc = "asking" /\ client'[c].pc = "admitted" =>
            client[c].token \notin loggedOut]_sessionVars

\* What the comment on SessionByToken says: a token is resolved only to an unexpired
\* session.
AdmittedIsUnexpired ==
    \A c \in Clients : client[c].pc = "admitted" => client[c].at < issued[client[c].token]
=============================================================================
