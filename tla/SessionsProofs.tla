--------------------------- MODULE SessionsProofs ---------------------------
(***************************************************************************)
(* Theorems about Sessions, for any number of requests, tokens and         *)
(* instants, and any width of a second.                                    *)
(***************************************************************************)
EXTENDS Sessions, TLAPS

\* Requests that are creating a session.
Creating == {c \in Clients : client[c].pc \in {"purging", "inserting"}}

\* A token is created by one request only, and by none once it was issued; nobody's time
\* is ahead of the clock; a token that is asked with was issued.
ClientsOK ==
    /\ \A c \in Creating : issued[client[c].token] = None
    /\ \A c, d \in Creating : client[c].token = client[d].token => c = d
    /\ \A c \in Clients : client[c].pc # "idle" => client[c].at <= now
    /\ \A c \in Clients :
        client[c].pc \in {"asking", "admitted"} => issued[client[c].token] # None

LoggedOutGone == \A t \in loggedOut : expiry[t] = None

IInv == SessionsTypeOK /\ ClientsOK /\ LoggedOutGone /\ KeptWhileValid /\ LateIsRefused

-----------------------------------------------------------------------------
(* Instants as text *)

\* An instant a second or more after another is in a later second.
LEMMA LaterSecond ==
    ASSUME NEW d \in Nat \ {0}, NEW s \in Nat, NEW t \in Nat, s + d <= t
    PROVE  s \div d < t \div d
<1> DEFINE p == s \div d
           q == t \div d
<1>1. /\ p \in Int /\ q \in Int
      /\ s = d * p + (s % d) /\ t = d * q + (t % d)
      /\ s % d \in 0..(d - 1) /\ t % d \in 0..(d - 1)
  OBVIOUS
<1>2. d * p <= s /\ t < d * q + d
  BY <1>1
<1>3. d * p < d * q
  BY <1>2, <1>1
<1>4. p < q
  <2> HIDE DEF p, q
  <2>1. ASSUME q <= p PROVE FALSE
    <3>1. d * q <= d * p
      BY <2>1, <1>1
    <3> QED BY <3>1, <1>3, <1>1
  <2> QED BY <2>1, <1>1
<1> QED BY <1>4

LEMMA SecondType == Second \in Nat \ {0}
<1>1. Base \in Nat \ {0}
  BY SessionsAssumption
<1>2. Base * Base \in Nat /\ Base * Base > 0
  BY <1>1
<1> QED BY <1>2 DEF Second

\* A text begins with the number of its second, and goes on.
LEMMA TextBegins ==
    ASSUME NEW t \in Nat
    PROVE  /\ 1 \in DOMAIN Text(t) /\ Text(t)[1] = t \div Second
           /\ t \div Second \in Int
<1> DEFINE rest == Fraction(t) \o <<Base>>
<1>1. Base \in Nat \ {0} /\ Second \in Nat \ {0}
  BY SessionsAssumption, SecondType
<1>2. t % Second \in Nat /\ t \div Second \in Int
  BY <1>1
<1>3. Fraction(t) \in Seq(Int)
  BY <1>1, <1>2 DEF Fraction
<1>4. Text(t) = <<t \div Second>> \o Fraction(t) \o <<Base>>
  BY DEF Text
<1> QED BY <1>1, <1>2, <1>3, <1>4

\* What the comparison of texts says of instants: it errs by less than a second.
LEMMA BeforeErrs ==
    ASSUME NEW s \in Nat, NEW t \in Nat
    PROVE  /\ Before(s, t) => s < t + Second
           /\ s + Second <= t => Before(s, t)
<1>1. /\ 1 \in DOMAIN Text(s) /\ Text(s)[1] = s \div Second /\ s \div Second \in Int
      /\ 1 \in DOMAIN Text(t) /\ Text(t)[1] = t \div Second /\ t \div Second \in Int
  BY TextBegins
<1>2. ASSUME Before(s, t) PROVE s \div Second <= t \div Second
  <2> PICK i \in DOMAIN Text(s) \cap DOMAIN Text(t) :
            Text(s)[i] < Text(t)[i] /\ \A j \in 1..(i - 1) : Text(s)[j] = Text(t)[j]
    BY <1>2 DEF Before
  <2>1. CASE i = 1
    BY <2>1, <1>1
  <2>2. CASE i # 1
    <3>1. i \in Nat /\ i > 1
      BY <2>2 DEF Text
    <3>2. 1 \in 1..(i - 1)
      BY <3>1
    <3> QED BY <3>2, <1>1
  <2> QED BY <2>1, <2>2
<1>3. Before(s, t) => s < t + Second
  BY <1>1, <1>2, LaterSecond, SecondType
<1>4. ASSUME s + Second <= t PROVE Before(s, t)
  <2>1. Text(s)[1] < Text(t)[1]
    BY <1>1, <1>4, LaterSecond, SecondType
  <2>2. \A j \in 1..(1 - 1) : Text(s)[j] = Text(t)[j]
    OBVIOUS
  <2> QED BY <2>1, <2>2, <1>1 DEF Before
<1> QED BY <1>3, <1>4

-----------------------------------------------------------------------------
(* The invariant is inductive *)

LEMMA Initial == Init => IInv
  BY SessionsAssumption
     DEF Init, IInv, SessionsTypeOK, ClientsOK, Creating, LoggedOutGone, KeptWhileValid,
         LateIsRefused, AtRest

\* What the types say of one request.
LEMMA ClientType ==
    ASSUME SessionsTypeOK, NEW c \in Clients, client[c].pc # "idle"
    PROVE  client[c] \in Client /\ client[c].token \in Tokens /\ client[c].at \in Nat
  BY DEF SessionsTypeOK, AtRest, Client

\* Steps of one request that leave the tables alone.
LEMMA RequestKeeps ==
    ASSUME IInv, NEW c \in Clients, NEW next \in Client \cup {AtRest},
           client' = [client EXCEPT ![c] = next],
           UNCHANGED <<now, expiry, issued, loggedOut>>,
           next.pc # "idle" => next.at <= now,
           next.pc \in {"asking", "admitted"} => issued[next.token] # None,
           next.pc = "admitted" => next.at < issued[next.token] + Second,
           next.pc \in {"purging", "inserting"} =>
                /\ issued[next.token] = None
                /\ \A d \in Creating \ {c} : client[d].token # next.token
    PROVE  IInv'
<1>1. /\ client'[c] = next /\ \A d \in Clients \ {c} : client'[d] = client[d]
      /\ client' \in [Clients -> Client \cup {AtRest}]
  BY DEF IInv, SessionsTypeOK
<1>2. SessionsTypeOK' /\ LoggedOutGone' /\ KeptWhileValid'
  BY <1>1 DEF IInv, SessionsTypeOK, LoggedOutGone, KeptWhileValid
<1>3. Creating' \subseteq Creating \cup {c}
  BY <1>1 DEF Creating
<1>4. ClientsOK'
  <2>1. \A d \in Creating' : issued'[client'[d].token] = None
    BY <1>1, <1>3 DEF IInv, ClientsOK, Creating
  <2>2. \A d, e \in Creating' : client'[d].token = client'[e].token => d = e
    BY <1>1, <1>3 DEF IInv, ClientsOK, Creating
  <2>3. \A d \in Clients : client'[d].pc # "idle" => client'[d].at <= now'
    BY <1>1 DEF IInv, ClientsOK
  <2>4. \A d \in Clients :
            client'[d].pc \in {"asking", "admitted"} => issued'[client'[d].token] # None
    BY <1>1 DEF IInv, ClientsOK
  <2> QED BY <2>1, <2>2, <2>3, <2>4 DEF ClientsOK
<1>5. LateIsRefused'
  BY <1>1 DEF IInv, LateIsRefused
<1> QED BY <1>2, <1>4, <1>5 DEF IInv

LEMMA NewSessionKeeps ==
    ASSUME IInv, NEW c \in Clients, NEW t \in Tokens, NewSession(c, t) PROVE IInv'
<1> DEFINE next == [pc |-> "purging", token |-> t, at |-> now]
<1>1. next \in Client /\ now \in Nat /\ now <= now
  BY SessionsAssumption DEF Client, IInv, SessionsTypeOK
<1>2. \A d \in Creating : client[d].token # t
  BY DEF NewSession, Creating
<1>3. /\ next.pc = "purging" /\ next.token = t /\ next.at = now /\ issued[t] = None
      /\ client' = [client EXCEPT ![c] = next]
      /\ UNCHANGED <<now, expiry, issued, loggedOut>>
  BY DEF NewSession, Become
<1> HIDE DEF next
<1> QED BY <1>1, <1>2, <1>3, RequestKeeps

LEMMA AskKeeps ==
    ASSUME IInv, NEW c \in Clients, NEW t \in Tokens, Ask(c, t) PROVE IInv'
<1> DEFINE next == [pc |-> "asking", token |-> t, at |-> now]
<1>1. next \in Client /\ now \in Nat /\ now <= now
  BY SessionsAssumption DEF Client, IInv, SessionsTypeOK
<1>2. /\ next.pc = "asking" /\ next.token = t /\ next.at = now /\ issued[t] # None
      /\ client' = [client EXCEPT ![c] = next]
      /\ UNCHANGED <<now, expiry, issued, loggedOut>>
  BY DEF Ask, Become
<1> HIDE DEF next
<1> QED BY <1>1, <1>2, RequestKeeps

LEMMA LeaveKeeps ==
    ASSUME IInv, NEW c \in Clients, Leave(c), UNCHANGED <<now, expiry, issued, loggedOut>>
    PROVE  IInv'
<1>1. AtRest.pc = "idle"
  BY DEF AtRest
<1> QED BY <1>1, RequestKeeps DEF Leave

\* The query may admit a session in the second of its expiry, but not later.
LEMMA AdmitKeeps == ASSUME IInv, NEW c \in Clients, Admit(c) PROVE IInv'
<1> DEFINE t == client[c].token
           next == [pc |-> "admitted", token |-> t, at |-> client[c].at]
<1>1. client[c].pc = "asking" /\ expiry[t] # None /\ Before(client[c].at, expiry[t])
  BY DEF Admit, Unexpired
<1>2. t \in Tokens /\ client[c].at \in Nat /\ next \in Client /\ client[c].at <= now
  BY <1>1, ClientType DEF IInv, Client, ClientsOK
<1>3. expiry[t] = issued[t] /\ expiry[t] \in Nat
  BY <1>1, <1>2 DEF IInv, SessionsTypeOK
<1>4. client[c].at < issued[t] + Second
  BY <1>1, <1>2, <1>3, BeforeErrs
<1> QED BY <1>1, <1>2, <1>3, <1>4, RequestKeeps DEF Admit, Become

\* A purge takes no session that is valid for another second.
LEMMA PurgeKeeps == ASSUME IInv, NEW c \in Clients, Purge(c) PROVE IInv'
<1> DEFINE at == client[c].at
           next == [pc |-> "inserting", token |-> client[c].token, at |-> at]
<1>1. /\ client[c].pc = "purging" /\ UNCHANGED <<now, issued, loggedOut>>
      /\ expiry' = [t \in Tokens |->
            IF expiry[t] = None \/ ~Before(at, expiry[t]) THEN None ELSE expiry[t]]
      /\ client' = [client EXCEPT ![c] = next]
  BY DEF Purge, PurgedUntil, Become
<1>2. at \in Nat /\ at <= now /\ now \in Nat /\ next \in Client /\ c \in Creating
  BY <1>1, ClientType, SessionsAssumption
     DEF IInv, Client, ClientsOK, SessionsTypeOK, Creating
<1>3. /\ client'[c] = next /\ \A d \in Clients \ {c} : client'[d] = client[d]
      /\ client' \in [Clients -> Client \cup {AtRest}]
  BY <1>1, <1>2 DEF IInv, SessionsTypeOK
<1>4. \A t \in Tokens : expiry'[t] \in {None, expiry[t]}
  BY <1>1
<1>5. SessionsTypeOK'
  BY <1>1, <1>3, <1>4 DEF IInv, SessionsTypeOK
<1>6. LoggedOutGone'
  BY <1>1, <1>4 DEF IInv, LoggedOutGone, SessionsTypeOK
<1>7. Creating' = Creating /\ \A d \in Creating : client'[d].token = client[d].token
  BY <1>1, <1>2, <1>3 DEF Creating
<1>8. ClientsOK'
  <2>1. \A d \in Clients : client'[d].pc # "idle" => client'[d].at <= now'
    BY <1>1, <1>2, <1>3 DEF IInv, ClientsOK
  <2>2. \A d \in Clients :
            client'[d].pc \in {"asking", "admitted"} => issued'[client'[d].token] # None
    BY <1>1, <1>3 DEF IInv, ClientsOK
  <2> QED BY <1>1, <1>7, <2>1, <2>2 DEF IInv, ClientsOK
<1>9. LateIsRefused'
  BY <1>1, <1>3 DEF IInv, LateIsRefused
<1>10. KeptWhileValid'
  <2> SUFFICES ASSUME NEW t \in Tokens \ loggedOut,
                      issued[t] # None, now + Second <= issued[t]
               PROVE  expiry'[t] # None
    BY <1>1 DEF KeptWhileValid
  <2>1. expiry[t] # None /\ expiry[t] = issued[t] /\ issued[t] \in Nat
    BY DEF IInv, KeptWhileValid, SessionsTypeOK
  <2>2. at + Second <= issued[t]
    BY <1>2, <2>1, SecondType
  <2>3. Before(at, expiry[t])
    BY <1>2, <2>1, <2>2, BeforeErrs
  <2> QED BY <1>1, <2>1, <2>3
<1> QED BY <1>5, <1>6, <1>8, <1>9, <1>10 DEF IInv

LEMMA InsertKeeps == ASSUME IInv, NEW c \in Clients, Insert(c) PROVE IInv'
<1> DEFINE t == client[c].token
           until == client[c].at + TTL
<1>1. /\ client[c].pc = "inserting" /\ UNCHANGED <<now, loggedOut>>
      /\ expiry' = [expiry EXCEPT ![t] = until] /\ issued' = [issued EXCEPT ![t] = until]
      /\ client' = [client EXCEPT ![c] = AtRest]
  BY DEF Insert, RowExpiry, Leave
<1>2. t \in Tokens /\ until \in Nat /\ c \in Creating /\ until # None
  BY <1>1, ClientType, SessionsAssumption DEF IInv, Creating
<1>3. issued[t] = None /\ t \notin loggedOut
  BY <1>2 DEF IInv, ClientsOK, SessionsTypeOK
<1>4. /\ client'[c] = AtRest /\ \A d \in Clients \ {c} : client'[d] = client[d]
      /\ client' \in [Clients -> Client \cup {AtRest}]
      /\ expiry'[t] = until /\ \A u \in Tokens \ {t} : expiry'[u] = expiry[u]
      /\ issued'[t] = until /\ \A u \in Tokens \ {t} : issued'[u] = issued[u]
      /\ AtRest.pc = "idle"
  BY <1>1, <1>2 DEF IInv, SessionsTypeOK, AtRest
<1>5. SessionsTypeOK'
  <2>1. /\ expiry' \in [Tokens -> Nat \cup {None}] /\ issued' \in [Tokens -> Nat \cup {None}]
        /\ now' \in 0..MaxTime
    BY <1>1, <1>2 DEF IInv, SessionsTypeOK
  <2>2. \A u \in Tokens : expiry'[u] \in {None, issued'[u]}
    BY <1>4 DEF IInv, SessionsTypeOK
  <2>3. loggedOut' \subseteq {u \in Tokens : issued'[u] # None}
    BY <1>1, <1>2, <1>4 DEF IInv, SessionsTypeOK
  <2> QED BY <2>1, <2>2, <2>3, <1>4 DEF SessionsTypeOK
<1>6. LoggedOutGone' /\ KeptWhileValid'
  BY <1>1, <1>2, <1>3, <1>4 DEF IInv, LoggedOutGone, KeptWhileValid, SessionsTypeOK
<1>7. \A d \in Creating' : d \in Creating /\ d # c /\ client'[d] = client[d]
  BY <1>4 DEF Creating
<1>8. ClientsOK'
  <2>1. \A d \in Creating' : issued'[client'[d].token] = None
    <3> TAKE d \in Creating'
    <3>1. d \in Creating /\ client'[d] = client[d] /\ client[d].token # t
      BY <1>2, <1>7 DEF IInv, ClientsOK
    <3>2. client[d].token \in Tokens
      BY <3>1, ClientType DEF IInv, Creating
    <3> QED BY <3>1, <3>2, <1>4 DEF IInv, ClientsOK
  <2>2. \A d, e \in Creating' : client'[d].token = client'[e].token => d = e
    BY <1>7 DEF IInv, ClientsOK
  <2>3. \A d \in Clients : client'[d].pc # "idle" => client'[d].at <= now'
    BY <1>1, <1>4 DEF IInv, ClientsOK
  <2>4. ASSUME NEW d \in Clients, client'[d].pc \in {"asking", "admitted"}
        PROVE  issued'[client'[d].token] # None
    <3>1. client'[d] = client[d] /\ client[d].token \in Tokens
      BY <2>4, <1>4, ClientType DEF IInv
    <3> QED BY <3>1, <2>4, <1>2, <1>4 DEF IInv, ClientsOK
  <2> QED BY <2>1, <2>2, <2>3, <2>4 DEF ClientsOK
<1>9. LateIsRefused'
  <2> SUFFICES ASSUME NEW d \in Clients, client'[d].pc = "admitted"
               PROVE  client'[d].at < issued'[client'[d].token] + Second
    BY DEF LateIsRefused
  <2>1. /\ client'[d] = client[d] /\ client[d].token \in Tokens
        /\ issued[client[d].token] # None
    BY <1>4, ClientType DEF IInv, ClientsOK
  <2> QED BY <2>1, <1>3, <1>4 DEF IInv, LateIsRefused
<1> QED BY <1>5, <1>6, <1>8, <1>9 DEF IInv

LEMMA LogoutKeeps == ASSUME IInv, NEW c \in Clients, Logout(c) PROVE IInv'
<1> DEFINE t == client[c].token
<1>1. /\ client[c].pc = "admitted" /\ UNCHANGED <<now, issued>>
      /\ expiry' = [expiry EXCEPT ![t] = None] /\ loggedOut' = loggedOut \cup {t}
      /\ client' = [client EXCEPT ![c] = AtRest]
  BY DEF Logout, WithoutSession, Leave
<1>2. t \in Tokens /\ issued[t] # None
  BY <1>1, ClientType DEF IInv, ClientsOK
<1>3. /\ client'[c] = AtRest /\ \A d \in Clients \ {c} : client'[d] = client[d]
      /\ client' \in [Clients -> Client \cup {AtRest}]
      /\ expiry'[t] = None /\ \A u \in Tokens \ {t} : expiry'[u] = expiry[u]
      /\ AtRest.pc = "idle"
  BY <1>1, <1>2 DEF IInv, SessionsTypeOK, AtRest
<1>4. SessionsTypeOK'
  <2>1. expiry' \in [Tokens -> Nat \cup {None}] /\ \A u \in Tokens : expiry'[u] \in {None, issued'[u]}
    BY <1>1, <1>2, <1>3 DEF IInv, SessionsTypeOK
  <2> QED BY <2>1, <1>1, <1>2, <1>3 DEF IInv, SessionsTypeOK
<1>5. LoggedOutGone' /\ KeptWhileValid'
  BY <1>1, <1>3 DEF IInv, LoggedOutGone, KeptWhileValid, SessionsTypeOK
<1>6. \A d \in Creating' : d \in Creating /\ client'[d] = client[d]
  BY <1>3 DEF Creating
<1>7. ClientsOK' /\ LateIsRefused'
  BY <1>1, <1>3, <1>6 DEF IInv, ClientsOK, LateIsRefused
<1> QED BY <1>4, <1>5, <1>7 DEF IInv

LEMMA ElapseKeeps == ASSUME IInv, Elapse PROVE IInv'
<1>1. now' = now + 1 /\ now < MaxTime /\ UNCHANGED <<expiry, issued, loggedOut, client>>
  BY DEF Elapse
<1>2. now \in Nat /\ now' \in 0..MaxTime /\ Second \in Nat
  BY <1>1, SessionsAssumption, SecondType DEF IInv, SessionsTypeOK
<1>3. SessionsTypeOK' /\ LoggedOutGone' /\ LateIsRefused'
  BY <1>1, <1>2 DEF IInv, SessionsTypeOK, LoggedOutGone, LateIsRefused
<1>4. ClientsOK'
  <2>1. \A c \in Clients : client'[c].pc # "idle" => client'[c].at <= now'
    BY <1>1, <1>2, ClientType DEF IInv, ClientsOK
  <2> QED BY <2>1, <1>1 DEF IInv, ClientsOK, Creating
<1>5. KeptWhileValid'
  BY <1>1, <1>2 DEF IInv, KeptWhileValid, SessionsTypeOK
<1> QED BY <1>3, <1>4, <1>5 DEF IInv

\* Every step preserves the invariant.
LEMMA Preserved == IInv /\ [Next]_sessionVars => IInv'
<1> SUFFICES ASSUME IInv, [Next]_sessionVars PROVE IInv'
  OBVIOUS
<1>1. CASE UNCHANGED sessionVars
  BY <1>1 DEF sessionVars, IInv, SessionsTypeOK, ClientsOK, Creating, LoggedOutGone,
              KeptWhileValid, LateIsRefused
<1>2. ASSUME NEW c \in Clients, Ends(c) \/ Refuse(c) PROVE IInv'
  BY <1>2, LeaveKeeps DEF Ends, Refuse
<1> QED
  BY <1>1, <1>2, NewSessionKeeps, AskKeeps, PurgeKeeps, InsertKeeps, AdmitKeeps, LogoutKeeps,
     ElapseKeeps DEF Next

-----------------------------------------------------------------------------
(* Theorems *)

\* The inductive invariant holds through any interleaving of logins, requests and logouts.
THEOREM Invariance == Spec => []IInv
  BY Initial, Preserved, PTL DEF Spec

\* Type correctness; a row has the expiry its token was given out with.
THEOREM TypeCorrect == Spec => []SessionsTypeOK
<1>1. IInv => SessionsTypeOK
  BY DEF IInv
<1> QED BY <1>1, Invariance, PTL

\* No purge takes a session that is valid for another second.
THEOREM ValidIsKept == Spec => []KeptWhileValid
<1>1. IInv => KeptWhileValid
  BY DEF IInv
<1> QED BY <1>1, Invariance, PTL

\* No request is admitted that took its time a second or more after its session's expiry;
\* how long it waited after that is not bounded.
THEOREM LateRefused == Spec => []LateIsRefused
<1>1. IInv => LateIsRefused
  BY DEF IInv
<1> QED BY <1>1, Invariance, PTL

\* No request is admitted with a session that was logged out.
THEOREM LogoutFinal == Spec => LogoutIsFinal
<1>1. ASSUME IInv, [Next]_sessionVars, NEW c \in Clients, client[c].pc = "asking",
             client'[c].pc = "admitted"
      PROVE  client[c].token \notin loggedOut
  <2>1. CASE Admit(c)
    BY <1>1, <2>1 DEF Admit, Unexpired, IInv, LoggedOutGone
  <2>2. CASE ~Admit(c)
    <3>1. c \in DOMAIN client
      BY <1>1 DEF IInv, SessionsTypeOK
    <3> QED
      BY <1>1, <2>2, <3>1
         DEF Next, sessionVars, NewSession, Ask, Purge, Insert, Ends, Admit, Refuse, Logout,
             Elapse, Become, Leave, AtRest
  <2> QED BY <2>1, <2>2
<1>2. IInv /\ [Next]_sessionVars =>
        [\A c \in Clients : client[c].pc = "asking" /\ client'[c].pc = "admitted" =>
            client[c].token \notin loggedOut]_sessionVars
  BY <1>1
<1> QED BY <1>2, Invariance, PTL DEF Spec, LogoutIsFinal
=============================================================================
