------------------------- MODULE ServiceCallsProofs -------------------------
(***************************************************************************)
(* Theorems about ServiceCalls, for any callers and clients, any number of *)
(* rotations, and whatever Keycloak leaves unanswered.                     *)
(***************************************************************************)
EXTENDS ServiceCalls, FiniteSetTheorems, SequenceTheorems, TLAPS

USE KeycloakAssumption, ServiceTokenAssumption, ServiceCallsAssumption

-----------------------------------------------------------------------------
(* Tokens, keys and clients                                                *)

TypeOK == KeycloakTypeOK /\ ServiceTokenTypeOK /\ TokenValidatorTypeOK /\ CallsTypeOK

\* The JWKS has the keys so far that are not retired.
KeysFit ==
    \A k \in Keys :
        /\ retired[k] # Never => k < signing /\ retired[k] <= clock
        /\ k \in published <=> k <= signing /\ retired[k] = Never

\* A call is in one place at a time, and starts there anew.
StagesFit ==
    \A c \in Callers :
        /\ getting[c] # "out" <=> call[c] = "getting"
        /\ check[c] # "none" <=> call[c] = "checking"
        /\ call[c] = "idle" => tries[c] = 0
        /\ call[c] = "error" => tries[c] = MaxAttempts[c]
        /\ check[c] = "none" => misses[c] = 0
        /\ check[c] \in {"lock", "look"} => misses[c] <= IF forced[c] THEN 1 ELSE 0

\* Callers in get_token stand in line, and the one who fetches is its first.
LineFits ==
    \A c \in Callers :
        /\ getting[c] # "out" => \E n \in 1 .. Len(queue) : queue[n] = c
        /\ getting[c] = "fetching" => Holds(c)

\* A client has no key that was retired before it was made, and the one a thread
\* got was young enough then.
ClientsFit ==
    /\ \A p \in Clients :
          /\ born[p] <= clock
          /\ \A k \in keys[p] : retired[k] # Never => born[p] <= retired[k]
    /\ \A c \in Callers :
          /\ seen[c] <= clock
          /\ check[c] # "look" => using[c] = NoClient
          /\ check[c] = "look" => using[c] \in Clients /\ seen[c] - born[using[c]] <= TTL

\* An accepted key was not retired for longer than TTL when its check began.
AcceptedFit ==
    \A c \in Callers : check[c] = "accepted" =>
        /\ held[c].key \in Keys
        /\ retired[held[c].key] = Never \/ seen[c] - retired[held[c].key] <= TTL

KeysInv == TypeOK /\ KeysFit /\ StagesFit /\ LineFits /\ ClientsFit /\ AcceptedFit


\* What the proofs need of the validator's parameters.
LEMMA ValidatorParameters == TTL \in Nat /\ NoClient \notin Clients
BY TokenValidatorAssumption

\* Taking one place out of a sequence leaves the others in their order.
LEMMA TakeOut ==
  ASSUME NEW S, NEW q \in Seq(S), NEW n \in 1 .. Len(q)
  PROVE  LET r == SubSeq(q, 1, n - 1) \o SubSeq(q, n + 1, Len(q))
         IN  /\ r \in Seq(S)
             /\ Len(r) = Len(q) - 1
             /\ \A i \in 1 .. Len(q) - 1 : r[i] = IF i < n THEN q[i] ELSE q[i + 1]
<1> DEFINE a == SubSeq(q, 1, n - 1)
<1> DEFINE b == SubSeq(q, n + 1, Len(q))
<1>1. Len(q) \in Nat /\ \A i \in 1 .. Len(q) : q[i] \in S
  OBVIOUS
<1>2. a \in Seq(S) /\ Len(a) = n - 1 /\ \A i \in 1 .. n - 1 : a[i] = q[i]
  <2>1. \A i \in 1 .. n - 1 : q[i] \in S
    BY <1>1
  <2> QED
    BY <1>1, <2>1, SubSeqProperties
<1>3. b \in Seq(S) /\ Len(b) = Len(q) - n /\ \A i \in 1 .. Len(q) - n : b[i] = q[n + i]
  <2>1. \A i \in n + 1 .. Len(q) : q[i] \in S
    BY <1>1
  <2>2. n + 1 \in Int /\ Len(q) \in Int
    BY <1>1
  <2>3. /\ b \in Seq(S)
        /\ Len(b) = IF n + 1 <= Len(q) THEN Len(q) - (n + 1) + 1 ELSE 0
        /\ \A i \in 1 .. Len(q) - (n + 1) + 1 : b[i] = q[n + 1 + i - 1]
    BY <2>1, <2>2, SubSeqProperties
  <2> QED
    BY <1>1, <2>3
<1> HIDE DEF a, b
<1>s. a \in Seq(S) /\ b \in Seq(S)
  BY <1>2, <1>3
<1>4. /\ a \o b \in Seq(S)
      /\ Len(a \o b) = Len(a) + Len(b)
      /\ \A i \in 1 .. Len(a) + Len(b) : (a \o b)[i] = IF i <= Len(a) THEN a[i] ELSE b[i - Len(a)]
  BY <1>s, ConcatProperties
<1>5. ASSUME NEW i \in 1 .. Len(q) - 1
      PROVE  (a \o b)[i] = IF i < n THEN q[i] ELSE q[i + 1]
  <2>1. CASE i < n
    BY <1>1, <1>2, <1>3, <1>4, <2>1
  <2>2. CASE ~(i < n)
    <3>1. (a \o b)[i] = b[i - Len(a)] /\ i - Len(a) \in 1 .. Len(q) - n
      BY <1>1, <1>2, <1>3, <1>4, <2>2
    <3>2. b[i - Len(a)] = q[n + (i - Len(a))]
      BY <1>3, <3>1
    <3> QED
      BY <1>1, <1>2, <2>2, <3>1, <3>2
  <2> QED
    BY <2>1, <2>2
<1>6. Len(a \o b) = Len(q) - 1
  BY <1>1, <1>2, <1>3, <1>4
<1> QED
  BY <1>4, <1>5, <1>6 DEF a, b

\* Who leaves the line takes nobody else's place in it.
LEMMA LeaveLine ==
  ASSUME queue \in Seq(Callers), NEW c \in Callers, Leave(c),
         \E n \in 1 .. Len(queue) : queue[n] = c
  PROVE  /\ queue' \in Seq(Callers)
         /\ \A d \in Callers \ {c} :
               /\ (\E n \in 1 .. Len(queue) : queue[n] = d) =>
                     \E n \in 1 .. Len(queue') : queue'[n] = d
               /\ Holds(d) => Holds(d)'
<1> DEFINE place == CHOOSE n \in 1 .. Len(queue) : queue[n] = c
<1> DEFINE rest == SubSeq(queue, 1, place - 1) \o SubSeq(queue, place + 1, Len(queue))
<1>1. place \in 1 .. Len(queue) /\ queue[place] = c
  OBVIOUS
<1>2. queue' = rest
  BY DEF Leave
<1> HIDE DEF place
<1>3. /\ rest \in Seq(Callers)
      /\ Len(rest) = Len(queue) - 1
      /\ \A i \in 1 .. Len(queue) - 1 : rest[i] = IF i < place THEN queue[i] ELSE queue[i + 1]
  BY <1>1, TakeOut
<1> HIDE DEF rest
<1>4. Len(queue) \in Nat
  OBVIOUS
<1>5. ASSUME NEW d \in Callers \ {c}, NEW n \in 1 .. Len(queue), queue[n] = d
      PROVE  \E m \in 1 .. Len(rest) : rest[m] = d
  <2>1. n # place
    BY <1>1, <1>5
  <2>2. CASE n < place
    <3>1. n \in 1 .. Len(queue) - 1
      BY <1>1, <1>4, <2>2
    <3>2. rest[n] = d
      BY <1>3, <1>5, <2>2, <3>1
    <3> QED
      BY <1>3, <3>1, <3>2
  <2>3. CASE n > place
    <3>1. n - 1 \in 1 .. Len(queue) - 1 /\ ~(n - 1 < place) /\ (n - 1) + 1 = n
      BY <1>1, <1>4, <2>3
    <3>2. rest[n - 1] = d
      BY <1>3, <1>5, <3>1
    <3> QED
      BY <1>3, <3>1, <3>2
  <2> QED
    BY <1>1, <1>4, <2>1, <2>2, <2>3
<1>6. ASSUME NEW d \in Callers \ {c}, Holds(d)
      PROVE  Holds(d)'
  <2>1. queue # <<>> /\ queue[1] = d
    BY <1>6 DEF Holds
  <2>2. place > 1
    BY <1>1, <1>4, <2>1
  <2>3. 1 \in 1 .. Len(queue) - 1 /\ rest[1] = d
    BY <1>1, <1>3, <1>4, <2>1, <2>2
  <2>4. rest # <<>> /\ Head(rest) = d
    BY <1>3, <2>3
  <2> QED
    BY <1>2, <2>4 DEF Holds
<1> QED
  BY <1>2, <1>3, <1>5, <1>6

\* There is a client object to make while a thread is about to get one.
LEMMA ClientsSuffice ==
  ASSUME NEW c \in Callers,
         using \in [Callers -> Clients \cup {NoClient}], using[c] = NoClient
  PROVE  LET new == CHOOSE p \in Clients \ (Referenced(NoClient, using) \cup {client}) : TRUE
         IN  new \in Clients /\ new # client /\ \A d \in Callers : new # using[d]
<1> DEFINE f == [d \in Callers |-> IF d = c THEN client ELSE using[d]]
<1> DEFINE T == {f[d] : d \in Callers}
<1>1. IsFiniteSet(Callers) /\ IsFiniteSet(Clients) /\ Cardinality(Clients) > Cardinality(Callers)
  BY TokenValidatorAssumption
<1>2. f \in Surjection(Callers, T)
  BY DEF Surjection
<1>3. IsFiniteSet(T) /\ Cardinality(T) <= Cardinality(Callers)
  BY <1>1, <1>2, FS_Surjection
<1>4. Cardinality(T) \in Nat /\ Cardinality(Callers) \in Nat /\ Cardinality(Clients) \in Nat
  BY <1>1, <1>3, FS_CardinalityType
<1>5. ~(Clients \subseteq T)
  <2>1. Clients \subseteq T => Cardinality(Clients) <= Cardinality(T)
    BY <1>3, FS_Subset
  <2> QED
    BY <1>1, <1>3, <1>4, <2>1
<1>6. Clients \ (Referenced(NoClient, using) \cup {client}) # {}
  <2>1. PICK p \in Clients : p \notin T
    BY <1>5
  <2>2. client \in T
    OBVIOUS
  <2>3. \A d \in Callers : d # c => using[d] \in T
    OBVIOUS
  <2> QED
    BY <2>1, <2>2, <2>3, ValidatorParameters DEF Referenced
<1> QED
  BY <1>6 DEF Referenced

\* The steps of a caller outside its checks, and those of its checks.
CallStep(c) ==
    Start(c) \/ Request(c) \/ Get(c) \/ GetFails(c) \/ RetryOrRaise(c) \/ CancelCall(c)
CheckStep(c) == Send(c) \/ CheckToken(c) \/ Succeed(c) \/ MeetRefusal(c)

\* What each kind of step leaves alone.
LEMMA Kinds ==
  ASSUME [Next]_vars
  PROVE  \/ \E c \in Callers : CallStep(c) /\ UNCHANGED <<clock, keycloak, validator>>
         \/ \E c \in Callers : CheckStep(c) /\ UNCHANGED <<clock, keycloak>>
         \/ Tick /\ UNCHANGED <<keycloak, provider, validator>>
         \/ KeysChange /\ UNCHANGED <<clock, provider, validator, calls>>
         \/ UNCHANGED vars
<1>1. ASSUME NEW c \in Callers, CallStep(c) PROVE UNCHANGED <<clock, keycloak, validator>>
  BY <1>1 DEF CallStep, Start, Request, Get, GetFails, RetryOrRaise, CancelCall
<1>2. ASSUME NEW c \in Callers, CheckStep(c) PROVE UNCHANGED <<clock, keycloak>>
  BY <1>2 DEF CheckStep, Send, CheckToken, Succeed, MeetRefusal
<1>3. Tick => UNCHANGED <<keycloak, provider, validator>>
  BY DEF Tick
<1>4. KeysChange => UNCHANGED <<clock, provider, validator, calls>>
  BY DEF KeysChange, RotateKeys, RetireKey
<1> QED
  BY <1>1, <1>2, <1>3, <1>4 DEF Next, Progress, CallStep, CheckStep

\* The clock and the keys stay in their ranges, and retired keys stay retired.
LEMMA KeycloakStep ==
  ASSUME KeysInv, [Next]_vars
  PROVE  /\ KeycloakTypeOK' /\ KeysFit'
         /\ clock' \in {clock, clock + 1}
         /\ \A k \in Keys : /\ retired[k] # Never => retired'[k] = retired[k]
                            /\ retired[k] = Never => retired'[k] \in {Never, clock}
<1> USE DEF KeycloakTypeOK, KeysFit, Keys, Times, Never
<1>0. KeycloakTypeOK /\ KeysFit
  BY DEF KeysInv, TypeOK
<1>1. CASE UNCHANGED <<clock, keycloak>>
  BY <1>0, <1>1 DEF keycloak
<1>2. CASE Tick
  BY <1>0, <1>2 DEF Tick, keycloak
<1>3. CASE RotateKeys
  <2>1. /\ signing < MaxRotations /\ signing' = signing + 1
        /\ published' = published \cup {signing + 1}
        /\ UNCHANGED <<clock, retired>>
    BY <1>3 DEF RotateKeys
  <2> QED
    BY <1>0, <2>1
<1>4. ASSUME NEW k \in Keys, RetireKey(k)
      PROVE  /\ KeycloakTypeOK' /\ KeysFit'
             /\ clock' \in {clock, clock + 1}
             /\ \A j \in Keys : /\ retired[j] # Never => retired'[j] = retired[j]
                                /\ retired[j] = Never => retired'[j] \in {Never, clock}
  <2>1. /\ k \in published /\ k # signing /\ published' = published \ {k}
        /\ retired' = [retired EXCEPT ![k] = clock]
        /\ UNCHANGED <<clock, signing>>
    BY <1>4 DEF RetireKey
  <2>2. \A j \in Keys : retired'[j] = IF j = k THEN clock ELSE retired[j]
    BY <1>0, <2>1
  <2>3. KeycloakTypeOK'
    BY <1>0, <2>1
  <2>4. KeysFit'
    BY <1>0, <2>1, <2>2
  <2> QED
    BY <1>0, <2>1, <2>2, <2>3, <2>4
<1> QED
  BY <1>1, <1>2, <1>3, <1>4, Kinds DEF vars, KeysChange

\* Asking for the token keeps the line in order.
LEMMA AskStep ==
  ASSUME ServiceTokenTypeOK, LineFits, NEW c \in Callers, Ask(c)
  PROVE  ServiceTokenTypeOK' /\ LineFits'
<1>1. queue \in Seq(Callers) /\ getting \in [Callers -> {"out", "waiting", "fetching"}]
  BY DEF ServiceTokenTypeOK
<1>2. /\ queue' = Append(queue, c) /\ getting' = [getting EXCEPT ![c] = "waiting"]
      /\ UNCHANGED <<token, expiresAt, reply>>
  BY DEF Ask, Goes
<1>3. /\ queue' \in Seq(Callers) /\ Len(queue') = Len(queue) + 1 /\ Len(queue) \in Nat
      /\ \A n \in 1 .. Len(queue) : queue'[n] = queue[n]
      /\ queue'[Len(queue) + 1] = c
  BY <1>1, <1>2
<1>4. ServiceTokenTypeOK'
  BY <1>1, <1>2, <1>3 DEF ServiceTokenTypeOK
<1>5. ASSUME NEW d \in Callers, getting'[d] # "out"
      PROVE  \E n \in 1 .. Len(queue') : queue'[n] = d
  <2>1. CASE d = c
    BY <1>3, <2>1
  <2>2. CASE d # c
    <3>1. PICK n \in 1 .. Len(queue) : queue[n] = d
      BY <1>1, <1>2, <1>5, <2>2 DEF LineFits
    <3> QED
      BY <1>3, <3>1
  <2> QED
    BY <2>1, <2>2
<1>6. ASSUME NEW d \in Callers, getting'[d] = "fetching"
      PROVE  Holds(d)'
  <2>1. d # c /\ getting[d] = "fetching"
    BY <1>1, <1>2, <1>6
  <2>2. queue # <<>> /\ Head(queue) = d
    BY <2>1 DEF LineFits, Holds
  <2> QED
    BY <1>1, <1>2, <1>3, <2>2 DEF Holds
<1> QED
  BY <1>4, <1>5, <1>6 DEF LineFits

\* So does leaving it, of its first caller or of another.
LEMMA LeaveStep ==
  ASSUME ServiceTokenTypeOK, LineFits, NEW c \in Callers, Leave(c), getting[c] # "out"
  PROVE  /\ queue' \in Seq(Callers)
         /\ getting' \in [Callers -> {"out", "waiting", "fetching"}]
         /\ LineFits'
<1>1. queue \in Seq(Callers) /\ getting \in [Callers -> {"out", "waiting", "fetching"}]
  BY DEF ServiceTokenTypeOK
<1>2. getting' = [getting EXCEPT ![c] = "out"]
  BY DEF Leave, Goes
<1>3. \E n \in 1 .. Len(queue) : queue[n] = c
  BY DEF LineFits
<1>4. /\ queue' \in Seq(Callers)
      /\ \A d \in Callers \ {c} :
            /\ (\E n \in 1 .. Len(queue) : queue[n] = d) =>
                  \E n \in 1 .. Len(queue') : queue'[n] = d
            /\ Holds(d) => Holds(d)'
  BY <1>1, <1>3, LeaveLine
<1>5. ASSUME NEW d \in Callers
      PROVE  /\ getting'[d] # "out" => \E n \in 1 .. Len(queue') : queue'[n] = d
             /\ getting'[d] = "fetching" => Holds(d)'
  <2>1. CASE d = c
    BY <1>1, <1>2, <2>1
  <2>2. CASE d # c
    <3>1. getting'[d] = getting[d]
      BY <1>1, <1>2, <2>2
    <3> QED
      BY <1>4, <2>2, <3>1 DEF LineFits
  <2> QED
    BY <2>1, <2>2
<1> QED
  BY <1>1, <1>2, <1>4, <1>5 DEF LineFits

\* The provider's state keeps its types, and its lock its line.
LEMMA ProviderStep ==
  ASSUME KeysInv, [Next]_vars
  PROVE  ServiceTokenTypeOK' /\ LineFits'
<1>0. ServiceTokenTypeOK /\ LineFits /\ KeycloakTypeOK /\ StagesFit
  BY DEF KeysInv, TypeOK
<1>t. /\ queue \in Seq(Callers) /\ token \in Tokens \cup {NoToken} /\ expiresAt \in Nat
      /\ getting \in [Callers -> {"out", "waiting", "fetching"}]
      /\ reply \in Tokens \cup {NoToken} /\ clock \in Nat
  BY <1>0 DEF ServiceTokenTypeOK, KeycloakTypeOK, Times
<1>1. CASE UNCHANGED provider
  <2>1. UNCHANGED <<queue, token, expiresAt, getting, reply>>
    BY <1>1 DEF provider
  <2> QED
    BY <1>0, <2>1 DEF ServiceTokenTypeOK, LineFits, Holds
<1>2. ASSUME NEW c \in Callers, Ask(c) PROVE ServiceTokenTypeOK' /\ LineFits'
  BY <1>0, <1>2, AskStep
<1>3. ASSUME NEW c \in Callers, Fetch(c) PROVE ServiceTokenTypeOK' /\ LineFits'
  <2>1. /\ Holds(c) /\ reply' = NewToken /\ getting' = [getting EXCEPT ![c] = "fetching"]
        /\ getting[c] = "waiting" /\ UNCHANGED <<queue, token, expiresAt>>
    BY <1>3 DEF Fetch, Goes
  <2>2. NewToken \in Tokens
    BY <1>0 DEF NewToken, Tokens, KeycloakTypeOK, Times
  <2>3. ServiceTokenTypeOK'
    BY <1>t, <2>1, <2>2 DEF ServiceTokenTypeOK
  <2> QED
    BY <1>0, <1>t, <2>1, <2>3 DEF LineFits, Holds
<1>4. ASSUME NEW c \in Callers, Leave(c), getting[c] # "out",
             token' \in Tokens \cup {NoToken}, expiresAt' \in Nat,
             reply' \in Tokens \cup {NoToken}
      PROVE  ServiceTokenTypeOK' /\ LineFits'
  BY <1>0, <1>4, LeaveStep DEF ServiceTokenTypeOK
<1>5. ASSUME NEW c \in Callers, TakeCached(c) PROVE ServiceTokenTypeOK' /\ LineFits'
  BY <1>t, <1>4, <1>5 DEF TakeCached
<1>6. ASSUME NEW c \in Callers, FetchReturns(c) PROVE ServiceTokenTypeOK' /\ LineFits'
  <2>1. KeptFor \in Nat
    BY DEF KeptFor, Larger
  <2>2. expiresAt' \in Nat
    BY <1>t, <1>6, <2>1 DEF FetchReturns
  <2> QED
    BY <1>t, <1>4, <1>6, <2>2 DEF FetchReturns
<1>7. ASSUME NEW c \in Callers, FetchFails(c) PROVE ServiceTokenTypeOK' /\ LineFits'
  BY <1>t, <1>4, <1>7 DEF FetchFails
<1>8. ASSUME NEW c \in Callers, CancelGet(c) PROVE ServiceTokenTypeOK' /\ LineFits'
  <2>1. reply' \in Tokens \cup {NoToken}
    BY <1>t, <1>8 DEF CancelGet
  <2> QED
    BY <1>t, <1>4, <1>8, <2>1 DEF CancelGet
<1>9. CASE Invalidate
  <2>1. token' = NoToken /\ expiresAt' = 0 /\ UNCHANGED <<queue, getting, reply>>
    BY <1>9 DEF Invalidate
  <2> QED
    BY <1>0, <1>t, <2>1 DEF ServiceTokenTypeOK, LineFits, Holds
<1>10. ASSUME NEW c \in Callers, CallStep(c) PROVE ServiceTokenTypeOK' /\ LineFits'
  BY <1>1, <1>2, <1>3, <1>5, <1>6, <1>7, <1>8, <1>10
     DEF CallStep, Start, Try, Request, Get, GetFails, RetryOrRaise, CancelCall
<1>11. ASSUME NEW c \in Callers, CheckStep(c) PROVE ServiceTokenTypeOK' /\ LineFits'
  BY <1>1, <1>9, <1>11 DEF CheckStep, Send, CheckToken, Succeed, MeetRefusal
<1> QED
  BY <1>1, <1>10, <1>11, Kinds DEF vars

\* Calls go from stage to stage together with the provider and the validator.
LEMMA CallsStep ==
  ASSUME KeysInv, [Next]_vars
  PROVE  CallsTypeOK' /\ StagesFit' /\ misses' \in [Callers -> 0 .. 2]
<1> DEFINE Good == CallsTypeOK' /\ StagesFit' /\ misses' \in [Callers -> 0 .. 2]
<1>0. /\ CallsTypeOK /\ StagesFit
      /\ getting \in [Callers -> {"out", "waiting", "fetching"}]
      /\ check \in [Callers -> {"none", "lock", "look", "accepted", "rejected"}]
      /\ forced \in [Callers -> BOOLEAN]
      /\ misses \in [Callers -> 0 .. 2]
      /\ token \in Tokens \cup {NoToken} /\ reply \in Tokens \cup {NoToken}
      /\ KeycloakTypeOK
  BY DEF KeysInv, TypeOK, ServiceTokenTypeOK, TokenValidatorTypeOK
<1>L. Larger(MaxFetchLag, MaxCallLag) \in Nat /\ 0 \in 0 .. Larger(MaxFetchLag, MaxCallLag)
      /\ MaxFetchLag <= Larger(MaxFetchLag, MaxCallLag)
      /\ MaxCallLag <= Larger(MaxFetchLag, MaxCallLag)
  BY DEF Larger
<1>M. \A c \in Callers : MaxAttempts[c] \in Nat \ {0}
  OBVIOUS
<1> USE <1>0, <1>L, <1>M DEF CallsTypeOK, StagesFit, Becomes, Drop, Over, Excuse, Goes, Moves
<1>1. ASSUME NEW c \in Callers, Start(c) PROVE Good
  BY <1>1 DEF Start, Try, Ask, validator
<1>2. ASSUME NEW c \in Callers, Request(c) PROVE Good
  BY <1>2 DEF Request, Fetch, validator
<1>3. ASSUME NEW c \in Callers, Get(c) PROVE Good
  <2>1. /\ getting[c] # "out" /\ getting' = [getting EXCEPT ![c] = "out"]
        /\ token' \in Tokens \cup {NoToken}
    BY <1>3 DEF Get, TakeCached, FetchReturns, Leave
  <2> QED
    BY <1>3, <2>1 DEF Get, validator
<1>4. ASSUME NEW c \in Callers, GetFails(c) PROVE Good
  <2>1. getting[c] # "out" /\ getting' = [getting EXCEPT ![c] = "out"]
    BY <1>4 DEF GetFails, FetchFails, Leave
  <2> QED
    BY <1>4, <2>1 DEF GetFails, validator
<1>5. ASSUME NEW c \in Callers, RetryOrRaise(c) PROVE Good
  <2>0. call[c] = "failed" /\ UNCHANGED <<validator, held, lag, excused>>
    BY <1>5 DEF RetryOrRaise
  <2>1. CASE tries[c] < MaxAttempts[c] /\ Try(c)
    BY <2>0, <2>1 DEF Try, Ask, validator
  <2>2. CASE tries[c] = MaxAttempts[c] /\ Becomes(c, "error") /\ UNCHANGED <<tries, provider>>
    BY <2>0, <2>2 DEF validator, provider
  <2> QED
    BY <1>5, <2>1, <2>2 DEF RetryOrRaise
<1>6. ASSUME NEW c \in Callers, CancelCall(c) PROVE Good
  <2>1. CASE call[c] = "getting" /\ CancelGet(c)
    BY <1>6, <2>1 DEF CancelCall, CancelGet, Leave, validator
  <2>2. CASE call[c] \in {"holding", "failed"} /\ UNCHANGED provider
    BY <1>6, <2>2 DEF CancelCall, validator, provider
  <2> QED
    BY <1>6, <2>1, <2>2 DEF CancelCall
<1>7. ASSUME NEW c \in Callers, Send(c) PROVE Good
  BY <1>7 DEF Send, BeginDecode, Attempt, provider
<1>8. ASSUME NEW c \in Callers, CheckToken(c) PROVE Good
  <2>0. UNCHANGED <<provider, calls>>
    BY <1>8 DEF CheckToken
  <2>1. CASE GetJwksClient(c)
    BY <2>0, <2>1 DEF GetJwksClient, provider, calls
  <2>2. CASE \E key, expires : LookUp(c, key, expires)
    BY <2>0, <2>2 DEF LookUp, Verify, provider, calls
  <2>3. CASE \E key, expires : FetchJwks(c, key, expires)
    BY <2>0, <2>3 DEF FetchJwks, Verify, NoKey, Attempt, provider, calls
  <2>4. CASE \E key : FetchJwksFails(c, key)
    BY <2>0, <2>4 DEF FetchJwksFails, NoKey, Attempt, provider, calls
  <2> QED
    BY <1>8, <2>1, <2>2, <2>3, <2>4 DEF CheckToken
<1>9. ASSUME NEW c \in Callers, Succeed(c) PROVE Good
  BY <1>9 DEF Succeed, Answered, provider
<1>10. ASSUME NEW c \in Callers, MeetRefusal(c) PROVE Good
  <2>1. excused' \in [Callers -> BOOLEAN]
    <3>1. excused' = [excused EXCEPT ![c] = TRUE] \/ excused' = excused
      BY <1>10 DEF MeetRefusal
    <3>2. \A b \in BOOLEAN : [excused EXCEPT ![c] = b] \in [Callers -> BOOLEAN]
      OBVIOUS
    <3>3. TRUE \in BOOLEAN
      OBVIOUS
    <3> QED
      BY <3>1, <3>2, <3>3, Zenon
  <2>2. CallsTypeOK'
    BY <1>10, <2>1 DEF MeetRefusal
  <2>3. misses' \in [Callers -> 0 .. 2]
    BY <1>10 DEF MeetRefusal, Answered
  <2>4. /\ call' = [call EXCEPT ![c] = "failed"] /\ UNCHANGED <<getting, tries>>
        /\ check' = [check EXCEPT ![c] = "none"] /\ misses' = [misses EXCEPT ![c] = 0]
        /\ forced' = [forced EXCEPT ![c] = FALSE] /\ call[c] = "checking"
    BY <1>10 DEF MeetRefusal, Answered, Invalidate
  <2>5. StagesFit'
    BY <2>4
  <2> QED
    BY <2>2, <2>3, <2>5
<1>11. ASSUME Tick PROVE Good
  BY <1>11 DEF Tick, validator, provider, Fetching, Calling
<1>12. ASSUME UNCHANGED <<provider, validator, calls>> PROVE Good
  BY <1>12 DEF validator, provider, calls
<1> QED
  BY <1>1, <1>2, <1>3, <1>4, <1>5, <1>6, <1>7, <1>8, <1>9, <1>10, <1>11, <1>12, Kinds
     DEF vars, CallStep, CheckStep

\* The types of the validator's variables, and what of its state is unchanged by
\* everybody else.
LEMMA ValidatorTypes ==
  ASSUME KeysInv
  PROVE  /\ client \in Clients \cup {NoClient}
         /\ born \in [Clients -> Times]
         /\ keys \in [Clients -> SUBSET Keys]
         /\ check \in [Callers -> {"none", "lock", "look", "accepted", "rejected"}]
         /\ forced \in [Callers -> BOOLEAN]
         /\ seen \in [Callers -> Times]
         /\ using \in [Callers -> Clients \cup {NoClient}]
         /\ misses \in [Callers -> 0 .. 2]
         /\ clock \in Times /\ published \subseteq Keys
         /\ retired \in [Keys -> Times \cup {Never}]
BY DEF KeysInv, TypeOK, TokenValidatorTypeOK, KeycloakTypeOK

\* A client let go leaves those in use with their keys and their age.
LEMMA ReleaseStep ==
  ASSUME KeysInv, NEW c \in Callers, check[c] = "look",
         NEW found \in SUBSET Keys, Release(c, found), UNCHANGED <<clock, keycloak>>,
         \A k \in found : retired[k] # Never => born[using[c]] <= retired[k]
  PROVE  /\ client' \in Clients \cup {NoClient}
         /\ born' \in [Clients -> Times]
         /\ keys' \in [Clients -> SUBSET Keys]
         /\ using' = [using EXCEPT ![c] = NoClient]
         /\ \A p \in Clients :
               /\ born'[p] <= clock
               /\ \A k \in keys'[p] : retired[k] # Never => born'[p] <= retired[k]
         /\ \A d \in Callers \ {c} : using[d] \in Clients => born'[using[d]] = born[using[d]]
<1> USE ValidatorTypes
<1> DEFINE now == [keys EXCEPT ![using[c]] = found]
<1> DEFINE live == Referenced(client, using')
<1>1. /\ using' = [using EXCEPT ![c] = NoClient] /\ client' = client
      /\ born' = Tidy(born, live, 0) /\ keys' = Tidy(now, live, {})
  BY DEF Release
<1>2. using[c] \in Clients /\ ClientsFit
  BY DEF KeysInv, ClientsFit
<1>3. now \in [Clients -> SUBSET Keys]
  OBVIOUS
<1>4. \A p \in Clients : born'[p] = IF p \in live THEN born[p] ELSE 0
  BY <1>1 DEF Tidy
<1>5. \A p \in Clients : keys'[p] = IF p \in live THEN now[p] ELSE {}
  BY <1>1 DEF Tidy
<1>6. born' \in [Clients -> Times]
  BY <1>1 DEF Tidy, Times
<1>7. keys' \in [Clients -> SUBSET Keys]
  BY <1>1, <1>3 DEF Tidy
<1>8. ASSUME NEW p \in Clients
      PROVE  /\ born'[p] <= clock
             /\ \A k \in keys'[p] : retired[k] # Never => born'[p] <= retired[k]
  <2>1. born[p] <= clock /\ 0 <= clock
    BY <1>2 DEF ClientsFit, Times
  <2>2. \A k \in now[p] : retired[k] # Never => born[p] <= retired[k]
    BY <1>2 DEF ClientsFit
  <2> HIDE DEF now, live
  <2> QED
    BY <1>4, <1>5, <2>1, <2>2
<1>9. \A d \in Callers \ {c} : using[d] \in live
  BY <1>1 DEF Referenced
<1> QED
  BY <1>1, <1>4, <1>6, <1>7, <1>8, <1>9

\* So the clients keep their ages and keys, whichever thread replaces or uses
\* them.
LEMMA ValidatorStep ==
  ASSUME KeysInv, [Next]_vars
  PROVE  TokenValidatorTypeOK' /\ ClientsFit'
<1> DEFINE Good ==
      /\ client' \in Clients \cup {NoClient}
      /\ born' \in [Clients -> Times]
      /\ keys' \in [Clients -> SUBSET Keys]
      /\ check' \in [Callers -> {"none", "lock", "look", "accepted", "rejected"}]
      /\ forced' \in [Callers -> BOOLEAN]
      /\ seen' \in [Callers -> Times]
      /\ using' \in [Callers -> Clients \cup {NoClient}]
      /\ ClientsFit'
<1>0. ClientsFit
  BY DEF KeysInv
<1>k. /\ clock' \in Times /\ clock' >= clock
      /\ \A k \in Keys : retired'[k] # Never =>
            \/ retired[k] # Never /\ retired'[k] = retired[k]
            \/ retired'[k] = clock
  BY KeycloakStep, ValidatorTypes DEF KeycloakTypeOK, Times
<1>1. ASSUME UNCHANGED validator PROVE Good
  <2>1. UNCHANGED <<client, born, keys, check, forced, seen, using>>
    BY <1>1 DEF validator
  <2>2. \A p \in Clients : born'[p] <= clock'
    BY <1>0, <1>k, <2>1, ValidatorTypes DEF ClientsFit, Times
  <2>3. ASSUME NEW p \in Clients, NEW k \in keys[p], retired'[k] # Never
        PROVE  born[p] <= retired'[k]
    BY <1>0, <1>k, <2>3, ValidatorTypes DEF ClientsFit, Keys
  <2>4. \A c \in Callers : seen'[c] <= clock'
    BY <1>0, <1>k, <2>1, ValidatorTypes DEF ClientsFit, Times
  <2>5. ASSUME NEW c \in Callers
        PROVE  /\ check'[c] # "look" => using'[c] = NoClient
               /\ check'[c] = "look" => using'[c] \in Clients /\ seen'[c] - born'[using'[c]] <= TTL
    BY <1>0, <2>1 DEF ClientsFit
  <2>6. ClientsFit'
    BY <2>1, <2>2, <2>3, <2>4, <2>5 DEF ClientsFit
  <2>7. /\ client' = client /\ born' = born /\ keys' = keys /\ check' = check
        /\ forced' = forced /\ seen' = seen /\ using' = using
    BY <2>1
  <2>8. /\ client' \in Clients \cup {NoClient} /\ born' \in [Clients -> Times]
        /\ keys' \in [Clients -> SUBSET Keys]
        /\ check' \in [Callers -> {"none", "lock", "look", "accepted", "rejected"}]
    BY <2>7, ValidatorTypes
  <2>9. /\ forced' \in [Callers -> BOOLEAN] /\ seen' \in [Callers -> Times]
        /\ using' \in [Callers -> Clients \cup {NoClient}]
    BY <2>7, ValidatorTypes
  <2> QED
    BY <2>6, <2>8, <2>9
<1>2. ASSUME NEW c \in Callers, UNCHANGED <<clock, keycloak>>,
             UNCHANGED <<client, born, keys, using>>,
             NEW where \in {"none", "lock"}, check' = [check EXCEPT ![c] = where],
             check[c] # "look",
             NEW b \in BOOLEAN, forced' = [forced EXCEPT ![c] = b],
             NEW t \in {0, clock}, seen' = [seen EXCEPT ![c] = t]
      PROVE  Good
  <2>1. t \in Times /\ t <= clock /\ UNCHANGED <<clock, retired>>
    BY <1>2, ValidatorTypes DEF Times, keycloak
  <2> QED
    BY <1>0, <1>2, <2>1, ValidatorTypes DEF ClientsFit
<1>3. ASSUME NEW c \in Callers, GetJwksClient(c), UNCHANGED <<clock, keycloak>>
      PROVE  Good
  <2>0. /\ check[c] = "lock" /\ check' = [check EXCEPT ![c] = "look"]
        /\ UNCHANGED <<forced, seen, clock, retired>>
    BY <1>3 DEF GetJwksClient, Moves, keycloak
  <2>u. using[c] = NoClient
    BY <1>0, <2>0 DEF ClientsFit
  <2>1. ASSUME NEW new,
               new = CHOOSE p \in Clients \ (Referenced(NoClient, using) \cup {client}) : TRUE,
               client' = new,
               born' = [Tidy(born, Referenced(NoClient, using), 0) EXCEPT ![new] = seen[c]],
               keys' = Tidy(keys, Referenced(NoClient, using), {}),
               using' = [using EXCEPT ![c] = new]
        PROVE  Good
    <3> DEFINE others == Referenced(NoClient, using)
    <3>1. new \in Clients /\ \A d \in Callers : new # using[d]
      BY <2>1, <2>u, ClientsSuffice, ValidatorTypes
    <3>2. new \notin others
      BY <3>1, ValidatorParameters DEF Referenced
    <3>3. \A p \in Clients : born'[p] = IF p = new THEN seen[c]
                                        ELSE IF p \in others THEN born[p] ELSE 0
      BY <2>1, <3>1 DEF Tidy
    <3>4. \A p \in Clients : keys'[p] = IF p \in others THEN keys[p] ELSE {}
      BY <2>1 DEF Tidy
    <3>5. born' \in [Clients -> Times]
      BY <2>1, <3>1, ValidatorTypes DEF Tidy, Times
    <3>6. keys' \in [Clients -> SUBSET Keys]
      BY <2>1, ValidatorTypes DEF Tidy
    <3>7. using' \in [Callers -> Clients \cup {NoClient}]
      BY <2>1, <3>1, ValidatorTypes
    <3>8. \A d \in Callers : using[d] \in others
      BY DEF Referenced
    <3> HIDE DEF others
    <3>9. ASSUME NEW p \in Clients
          PROVE  /\ born'[p] <= clock'
                 /\ \A k \in keys'[p] : retired'[k] # Never => born'[p] <= retired'[k]
      BY <1>0, <2>0, <3>2, <3>3, <3>4, ValidatorTypes DEF ClientsFit, Times
    <3>10. ASSUME NEW d \in Callers
           PROVE  /\ seen'[d] <= clock'
                  /\ check'[d] # "look" => using'[d] = NoClient
                  /\ check'[d] = "look" => using'[d] \in Clients /\ seen'[d] - born'[using'[d]] <= TTL
      <4>1. CASE d = c
        <5>1. using'[d] = new /\ born'[new] = seen[c] /\ seen'[d] = seen[c] /\ check'[d] = "look"
          BY <2>0, <2>1, <3>1, <3>3, <4>1, ValidatorTypes
        <5> QED
          BY <1>0, <2>0, <3>1, <4>1, <5>1, ValidatorParameters, ValidatorTypes DEF ClientsFit, Times
      <4>2. CASE d # c
        <5>1. using'[d] = using[d] /\ check'[d] = check[d] /\ seen'[d] = seen[d]
          BY <2>0, <2>1, <4>2, ValidatorTypes
        <5>2. using[d] \in Clients => born'[using[d]] = born[using[d]]
          BY <3>1, <3>3, <3>8
        <5> QED
          BY <1>0, <2>0, <5>1, <5>2 DEF ClientsFit
      <4> QED
        BY <4>1, <4>2
    <3> QED
      BY <2>0, <2>1, <3>1, <3>5, <3>6, <3>7, <3>9, <3>10, ValidatorTypes DEF ClientsFit
  <2>2. ASSUME ~Expired(c), using' = [using EXCEPT ![c] = client],
               UNCHANGED <<client, born, keys>>
        PROVE  Good
    <3>1. client \in Clients /\ seen[c] - born[client] <= TTL
      BY <2>2, ValidatorTypes, ValidatorParameters DEF Expired, Times
    <3> QED
      BY <1>0, <2>0, <2>2, <3>1, ValidatorTypes DEF ClientsFit
  <2> QED
    BY <1>3, <2>1, <2>2 DEF GetJwksClient
<1>4. ASSUME NEW c \in Callers, check[c] = "look", UNCHANGED <<clock, keycloak>>,
             NEW found \in SUBSET Keys, Release(c, found),
             \A k \in found : retired[k] # Never => born[using[c]] <= retired[k],
             NEW where \in {"lock", "accepted", "rejected"}, check' = [check EXCEPT ![c] = where],
             forced' \in [Callers -> BOOLEAN],
             NEW t \in {seen[c], clock}, seen' = [seen EXCEPT ![c] = t]
      PROVE  Good
  <2>1. /\ client' \in Clients \cup {NoClient}
        /\ born' \in [Clients -> Times]
        /\ keys' \in [Clients -> SUBSET Keys]
        /\ using' = [using EXCEPT ![c] = NoClient]
        /\ \A p \in Clients :
              /\ born'[p] <= clock
              /\ \A k \in keys'[p] : retired[k] # Never => born'[p] <= retired[k]
        /\ \A d \in Callers \ {c} : using[d] \in Clients => born'[using[d]] = born[using[d]]
    BY <1>4, ReleaseStep
  <2>2. t \in Times /\ t <= clock /\ UNCHANGED <<clock, retired>>
    BY <1>0, <1>4, ValidatorTypes DEF ClientsFit, Times, keycloak
  <2>3. ASSUME NEW d \in Callers
        PROVE  /\ seen'[d] <= clock'
               /\ check'[d] # "look" => using'[d] = NoClient
               /\ check'[d] = "look" => using'[d] \in Clients /\ seen'[d] - born'[using'[d]] <= TTL
    <3>1. CASE d = c
      BY <1>4, <2>1, <2>2, <3>1, ValidatorTypes
    <3>2. CASE d # c
      <4>1. using'[d] = using[d] /\ check'[d] = check[d] /\ seen'[d] = seen[d]
        BY <1>4, <2>1, <3>2, ValidatorTypes
      <4> QED
        BY <1>0, <2>1, <2>2, <3>2, <4>1 DEF ClientsFit
    <3> QED
      BY <3>1, <3>2
  <2>4. ClientsFit'
    BY <2>1, <2>2, <2>3 DEF ClientsFit
  <2> QED
    BY <1>4, <2>1, <2>2, <2>4, ValidatorTypes
<1>5. ASSUME NEW c \in Callers, Send(c) PROVE Good
  BY <1>2, <1>5 DEF Send, BeginDecode, Attempt, Moves
<1>6. ASSUME NEW c \in Callers, Succeed(c) \/ MeetRefusal(c) PROVE Good
  BY <1>2, <1>6 DEF Succeed, MeetRefusal, Answered, Moves
<1>7. ASSUME NEW c \in Callers, NEW key, NEW expires, LookUp(c, key, expires),
             UNCHANGED <<clock, keycloak>>
      PROVE  Good
  <2>1. check[c] = "look" /\ Release(c, keys[using[c]]) /\ Verify(c, expires)
    BY <1>7 DEF LookUp
  <2>2. /\ keys[using[c]] \in SUBSET Keys
        /\ \A k \in keys[using[c]] : retired[k] # Never => born[using[c]] <= retired[k]
    BY <1>0, <2>1, ValidatorTypes DEF ClientsFit
  <2>3. /\ check' = [check EXCEPT ![c] = IF clock < expires THEN "accepted" ELSE "rejected"]
        /\ forced' = forced /\ seen' = [seen EXCEPT ![c] = seen[c]]
    BY <2>1, ValidatorTypes DEF Verify, Moves
  <2> QED
    BY <1>4, <1>7, <2>1, <2>2, <2>3, ValidatorTypes
<1>8. ASSUME NEW c \in Callers, NoKey(c),
             forced \in [Callers -> BOOLEAN], seen \in [Callers -> Times]
      PROVE  \E where \in {"lock", "accepted", "rejected"}, t \in {seen[c], clock} :
                /\ check' = [check EXCEPT ![c] = where]
                /\ forced' \in [Callers -> BOOLEAN]
                /\ seen' = [seen EXCEPT ![c] = t]
  <2>1. CASE ~forced[c] /\ Attempt(c, TRUE)
    BY <1>8, <2>1 DEF Attempt, Moves
  <2>2. CASE Moves(c, "rejected") /\ UNCHANGED <<forced, seen>>
    <3>1. seen' = [seen EXCEPT ![c] = seen[c]]
      BY <1>8, <2>2
    <3> QED
      BY <1>8, <2>2, <3>1 DEF Moves
  <2> QED
    BY <1>8, <2>1, <2>2 DEF NoKey
<1>9. ASSUME NEW c \in Callers, NEW key, NEW expires, FetchJwks(c, key, expires),
             UNCHANGED <<clock, keycloak>>
      PROVE  Good
  <2>1. /\ check[c] = "look" /\ Release(c, keys[using[c]] \cup published)
        /\ Verify(c, expires) \/ NoKey(c)
    BY <1>9 DEF FetchJwks
  <2>2. KeysFit
    BY DEF KeysInv
  <2>3. /\ keys[using[c]] \cup published \in SUBSET Keys
        /\ \A k \in keys[using[c]] \cup published : retired[k] # Never => born[using[c]] <= retired[k]
    BY <1>0, <2>1, <2>2, ValidatorTypes DEF ClientsFit, KeysFit
  <2>4. \E where \in {"lock", "accepted", "rejected"}, t \in {seen[c], clock} :
                /\ check' = [check EXCEPT ![c] = where]
                /\ forced' \in [Callers -> BOOLEAN]
                /\ seen' = [seen EXCEPT ![c] = t]
    <3>1. CASE Verify(c, expires)
      <4>1. /\ check' = [check EXCEPT ![c] = IF clock < expires THEN "accepted" ELSE "rejected"]
            /\ forced' = forced /\ seen' = [seen EXCEPT ![c] = seen[c]]
        BY <3>1, ValidatorTypes DEF Verify, Moves
      <4> QED
        BY <4>1, ValidatorTypes
    <3>2. CASE NoKey(c)
      BY <1>8, <3>2, ValidatorTypes
    <3> QED
      BY <2>1, <3>1, <3>2
  <2> QED
    BY <1>4, <1>9, <2>1, <2>3, <2>4
<1>10. ASSUME NEW c \in Callers, NEW key, FetchJwksFails(c, key),
              UNCHANGED <<clock, keycloak>>
       PROVE  Good
  <2>1. check[c] = "look" /\ Release(c, keys[using[c]]) /\ NoKey(c)
    BY <1>10 DEF FetchJwksFails
  <2>2. /\ keys[using[c]] \in SUBSET Keys
        /\ \A k \in keys[using[c]] : retired[k] # Never => born[using[c]] <= retired[k]
    BY <1>0, <2>1, ValidatorTypes DEF ClientsFit
  <2>3. \E where \in {"lock", "accepted", "rejected"}, t \in {seen[c], clock} :
                /\ check' = [check EXCEPT ![c] = where]
                /\ forced' \in [Callers -> BOOLEAN]
                /\ seen' = [seen EXCEPT ![c] = t]
    BY <1>8, <2>1, ValidatorTypes
  <2> QED
    BY <1>4, <1>10, <2>1, <2>2, <2>3
<1>11. ASSUME NEW c \in Callers, CheckToken(c) PROVE Good
  <2>1. UNCHANGED <<clock, keycloak>>
    BY <1>11 DEF CheckToken
  <2> QED
    BY <1>3, <1>7, <1>9, <1>10, <1>11, <2>1 DEF CheckToken
<1>12. Good
  <2>1. \/ UNCHANGED validator
        \/ \E c \in Callers : Send(c) \/ CheckToken(c) \/ Succeed(c) \/ MeetRefusal(c)
    BY Kinds DEF CheckStep, vars
  <2> HIDE DEF Good
  <2> QED
    BY <1>1, <1>5, <1>6, <1>11, <2>1
<1>13. misses' \in [Callers -> 0 .. 2]
  BY CallsStep
<1>14. Threads = Callers
  OBVIOUS
<1>15. TokenValidatorTypeOK'
  BY <1>12, <1>13, <1>14, Zenon DEF TokenValidatorTypeOK
<1> QED
  BY <1>12, <1>15

\* A key is accepted only if the client in use has it, which is not older than
\* its retirement, or if it is published.
LEMMA AcceptedStep ==
  ASSUME KeysInv, [Next]_vars
  PROVE  AcceptedFit'
<1>0. AcceptedFit /\ ClientsFit /\ StagesFit /\ KeysFit /\ CallsTypeOK
  BY DEF KeysInv, TypeOK
<1>k. \A k \in Keys : /\ retired[k] # Never => retired'[k] = retired[k]
                      /\ retired[k] = Never => retired'[k] \in {Never, clock}
  BY KeycloakStep
<1>n. Never \notin Times /\ \A t \in Times : t \in Nat
  BY DEF Never, Times
<1>1. ASSUME NEW d \in Callers, check'[d] = "accepted",
             check[d] = "accepted", held'[d] = held[d], seen'[d] = seen[d]
      PROVE  /\ held'[d].key \in Keys
             /\ retired'[held'[d].key] = Never \/ seen'[d] - retired'[held'[d].key] <= TTL
  <2> DEFINE k == held[d].key
  <2>1. k \in Keys /\ (retired[k] = Never \/ seen[d] - retired[k] <= TTL)
    BY <1>0, <1>1 DEF AcceptedFit
  <2>2. seen[d] <= clock /\ seen[d] \in Nat /\ clock \in Nat
    BY <1>0, <1>n, ValidatorTypes DEF ClientsFit
  <2>3. retired'[k] = retired[k] \/ retired'[k] = Never \/ retired'[k] = clock
    BY <1>k, <2>1
  <2>4. CASE retired'[k] = clock
    BY <1>1, <2>1, <2>2, <2>4, ValidatorParameters
  <2>5. CASE retired'[k] = retired[k] \/ retired'[k] = Never
    BY <1>1, <2>1, <2>5
  <2> QED
    BY <2>3, <2>4, <2>5
<1>2. ASSUME NEW c \in Callers, CheckToken(c), NEW d \in Callers, check'[d] = "accepted"
      PROVE  /\ held'[d].key \in Keys
             /\ retired'[held'[d].key] = Never \/ seen'[d] - retired'[held'[d].key] <= TTL
  <2> DEFINE k == held[c].key
  <2>0. UNCHANGED <<clock, signing, published, retired, call, tries, held, lag, excused>>
    BY <1>2 DEF CheckToken, keycloak, calls
  <2>1. ASSUME NEW where, check' = [check EXCEPT ![c] = where], where # "accepted",
               NEW t, seen' = [seen EXCEPT ![c] = t]
        PROVE  check[d] = "accepted" /\ held'[d] = held[d] /\ seen'[d] = seen[d]
    BY <1>2, <2>0, <2>1, ValidatorTypes
  <2>2. ASSUME NoKey(c)
        PROVE  check[d] = "accepted" /\ held'[d] = held[d] /\ seen'[d] = seen[d]
    <3>1. CASE ~forced[c] /\ Attempt(c, TRUE)
      BY <2>1, <3>1 DEF Attempt, Moves
    <3>2. CASE Moves(c, "rejected") /\ UNCHANGED <<forced, seen>>
      <4>1. seen' = [seen EXCEPT ![c] = seen[c]]
        BY <3>2, ValidatorTypes
      <4> QED
        BY <2>1, <3>2, <4>1 DEF Moves
    <3> QED
      BY <2>2, <3>1, <3>2 DEF NoKey
  <2>3. CASE GetJwksClient(c)
    <3>1. /\ check' = [check EXCEPT ![c] = "look"]
          /\ seen' = [seen EXCEPT ![c] = seen[c]]
      BY <2>3, ValidatorTypes DEF GetJwksClient, Moves
    <3> QED
      BY <1>1, <1>2, <2>1, <3>1
  <2>4. ASSUME NEW expires, Verify(c, expires), k \in Keys,
               retired[k] = Never \/ seen[c] - retired[k] <= TTL
        PROVE  /\ held'[d].key \in Keys
               /\ retired'[held'[d].key] = Never \/ seen'[d] - retired'[held'[d].key] <= TTL
    <3>1. CASE d = c
      BY <2>0, <2>4, <3>1 DEF Verify
    <3>2. CASE d # c
      <4>1. check[d] = "accepted" /\ held'[d] = held[d] /\ seen'[d] = seen[d]
        BY <1>2, <2>0, <2>4, <3>2, ValidatorTypes DEF Verify, Moves
      <4> QED
        BY <1>1, <1>2, <4>1
    <3> QED
      BY <3>1, <3>2
  <2>5. CASE LookUp(c, k, held[c].expires)
    <3>1. check[c] = "look" /\ k \in keys[using[c]] /\ Verify(c, held[c].expires)
      BY <2>5 DEF LookUp
    <3>2. /\ using[c] \in Clients /\ seen[c] - born[using[c]] <= TTL
          /\ retired[k] # Never => born[using[c]] <= retired[k]
      BY <1>0, <3>1 DEF ClientsFit
    <3>3. k \in Keys /\ seen[c] \in Nat /\ born[using[c]] \in Nat
      BY <1>n, <3>1, <3>2, ValidatorTypes
    <3>4. retired[k] = Never \/ retired[k] \in Nat
      BY <1>n, <3>3, ValidatorTypes
    <3>5. retired[k] = Never \/ seen[c] - retired[k] <= TTL
      BY <3>2, <3>3, <3>4, ValidatorParameters
    <3> QED
      BY <2>4, <3>1, <3>3, <3>5
  <2>6. CASE FetchJwks(c, k, held[c].expires)
    <3>1. (k \in published /\ Verify(c, held[c].expires)) \/ NoKey(c)
      BY <2>6 DEF FetchJwks
    <3>2. k \in published => k \in Keys /\ retired[k] = Never
      BY <1>0, ValidatorTypes DEF KeysFit
    <3> QED
      BY <1>1, <1>2, <2>2, <2>4, <3>1, <3>2
  <2>7. CASE FetchJwksFails(c, k)
    BY <1>1, <1>2, <2>2, <2>7 DEF FetchJwksFails
  <2> QED
    BY <1>2, <2>3, <2>5, <2>6, <2>7 DEF CheckToken
<1>3. ASSUME NEW c \in Callers, NEW d \in Callers, check'[d] = "accepted",
             CallStep(c) \/ Send(c) \/ Succeed(c) \/ MeetRefusal(c)
      PROVE  check[d] = "accepted" /\ held'[d] = held[d] /\ seen'[d] = seen[d]
  <2>t. held \in [Callers -> Tokens \cup {NoToken}]
    BY <1>0 DEF CallsTypeOK
  <2>1. CASE Send(c) \/ Succeed(c) \/ MeetRefusal(c)
    BY <1>3, <2>1, <2>t, ValidatorTypes
       DEF Send, BeginDecode, Attempt, Succeed, MeetRefusal, Answered, Over, Drop, Moves
  <2>2. CASE CallStep(c)
    <3>1. check[d] = "accepted" /\ seen'[d] = seen[d]
      BY <1>3, <2>2
         DEF CallStep, Start, Request, Get, GetFails, RetryOrRaise, CancelCall, validator
    <3>2. call[d] = "checking"
      BY <1>0, <3>1 DEF StagesFit
    <3>3. CASE Start(c) \/ Request(c) \/ GetFails(c) \/ RetryOrRaise(c)
      BY <3>1, <3>3 DEF Start, Request, GetFails, RetryOrRaise
    <3>4. CASE Get(c)
      <4>1. getting[c] # "out" /\ held' = [held EXCEPT ![c] = token']
        BY <3>4 DEF Get, TakeCached, FetchReturns
      <4>2. d # c
        BY <1>0, <3>2, <4>1 DEF StagesFit
      <4> QED
        BY <2>t, <3>1, <4>1, <4>2
    <3>5. CASE CancelCall(c)
      <4>1. call[c] # "checking" /\ held' = [held EXCEPT ![c] = NoToken]
        BY <3>5 DEF CancelCall, Over, Drop
      <4> QED
        BY <2>t, <3>1, <3>2, <4>1
    <3> QED
      BY <2>2, <3>3, <3>4, <3>5 DEF CallStep
  <2> QED
    BY <1>3, <2>1, <2>2
<1>4. ASSUME NEW d \in Callers, check'[d] = "accepted",
             UNCHANGED <<check, seen, held>>
      PROVE  check[d] = "accepted" /\ held'[d] = held[d] /\ seen'[d] = seen[d]
  BY <1>4
<1>5. \/ \E c \in Callers : CallStep(c) \/ Send(c) \/ Succeed(c) \/ MeetRefusal(c)
      \/ \E c \in Callers : CheckToken(c)
      \/ UNCHANGED <<check, seen, held>>
  BY Kinds DEF CheckStep, vars, validator, calls, Tick
<1>6. ASSUME NEW d \in Callers, check'[d] = "accepted"
      PROVE  /\ held'[d].key \in Keys
             /\ retired'[held'[d].key] = Never \/ seen'[d] - retired'[held'[d].key] <= TTL
  <2>1. CASE \E c \in Callers : CheckToken(c)
    BY <1>2, <1>6, <2>1
  <2>2. CASE ~ \E c \in Callers : CheckToken(c)
    <3>1. check[d] = "accepted" /\ held'[d] = held[d] /\ seen'[d] = seen[d]
      BY <1>3, <1>4, <1>5, <1>6, <2>2
    <3> QED
      BY <1>1, <1>6, <3>1
  <2> QED
    BY <2>1, <2>2
<1>7. Never' = Never /\ Keys' = Keys
  BY DEF Never, Keys
<1> QED
  BY <1>6, <1>7 DEF AcceptedFit

\* The invariant holds when no call has begun.
LEMMA KeysInvInit == Init => KeysInv
<1> SUFFICES ASSUME Init PROVE KeysInv
  OBVIOUS
<1>1. KeycloakTypeOK /\ KeysFit
  BY DEF Init, KeycloakInit, KeycloakTypeOK, KeysFit, Keys, Times, Never
<1>2. ServiceTokenTypeOK /\ LineFits
  BY EmptySeq DEF Init, ServiceTokenInit, ServiceTokenTypeOK, LineFits
<1>3. TokenValidatorTypeOK /\ ClientsFit /\ AcceptedFit
  BY DEF Init, KeycloakInit, TokenValidatorInit, TokenValidatorTypeOK, ClientsFit, AcceptedFit,
         Times
<1>4. CallsTypeOK
  BY DEF Init, CallsTypeOK, Larger
<1>5. StagesFit
  BY DEF Init, ServiceTokenInit, TokenValidatorInit, StagesFit
<1> QED
  BY <1>1, <1>2, <1>3, <1>4, <1>5 DEF KeysInv, TypeOK

\* Every step preserves it.
LEMMA KeysInvStep == KeysInv /\ [Next]_vars => KeysInv'
BY KeycloakStep, ProviderStep, CallsStep, ValidatorStep, AcceptedStep DEF KeysInv, TypeOK

\* Tokens, keys, clients, calls and the line for the lock stay in their ranges.
THEOREM TypeCorrectness == Spec => []TypeOK
<1>1. KeysInv => TypeOK
  BY DEF KeysInv
<1> QED
  BY <1>1, KeysInvInit, KeysInvStep, PTL DEF Spec

\* A key taken out of the JWKS is accepted for jwks_cache_ttl_seconds at most,
\* by any thread with any client, through any number of refreshes.
THEOREM RetiredKeysLapse == Spec => []RetiredKeysExpire
<1>1. KeysInv => RetiredKeysExpire
  BY DEF KeysInv, AcceptedFit, RetiredKeysExpire
<1> QED
  BY <1>1, KeysInvInit, KeysInvStep, PTL DEF Spec

-----------------------------------------------------------------------------
(* Rotations                                                               *)

\* The leeway is enough for the way of a token to the caller and on to the end
\* of its check.
LeewayCoversTheWay == MaxFetchLag + MaxCallLag + KeptFor <= Lifetime

Retired(k) == retired[k] # Never

\* Tokens come in the order of their keys: one on its way is not older than the
\* one kept, nor than those sent.
TokensFit ==
    /\ \A c \in Callers : getting[c] = "fetching" => reply # NoToken
    /\ reply # NoToken => \E c \in Callers : getting[c] = "fetching"
    /\ reply # NoToken => reply.key <= signing
    /\ token # NoToken => token.key <= signing
    /\ token # NoToken /\ reply # NoToken => token.key <= reply.key
    /\ \A c \in Callers : Calling(c) =>
          /\ held[c] \in Tokens
          /\ held[c].key <= signing
          /\ token # NoToken => held[c].key <= token.key
          /\ reply # NoToken => held[c].key <= reply.key

\* No token expires before its check ends.
ExpiryFits ==
    /\ token # NoToken => token.expires + MaxFetchLag + KeptFor >= expiresAt + Lifetime
    /\ \A c \in Callers :
          /\ Fetching(c) => /\ lag[c] <= MaxFetchLag
                            /\ reply.expires + lag[c] = clock + Lifetime
          /\ Calling(c) => /\ lag[c] <= MaxCallLag
                           /\ held[c].expires + MaxFetchLag + KeptFor + lag[c] > clock + Lifetime

\* A check that Keycloak answered at all refuses retired keys only.
RefusalsFit ==
    \A c \in Callers :
        /\ check[c] \in {"lock", "look"} /\ forced[c] /\ misses[c] = 0 => Retired(held[c].key)
        /\ check[c] = "rejected" /\ misses[c] < 2 => Retired(held[c].key)

\* The key of the next token a caller will get, at least.
NextKey ==
    IF token # NoToken THEN token.key ELSE IF reply # NoToken THEN reply.key ELSE signing

\* How many keys below a key are retired, with these times of retirement.
GoneBelow(times, n) == Cardinality({k \in Keys : times[k] # Never /\ k < n})

\* Two refusals for each key gone by, and one more if no second token of key n
\* can come.
Within(refusals, n, oneLeft) ==
    \/ refusals <= 2 * GoneBelow(retired, n)
    \/ oneLeft /\ Retired(n) /\ refusals <= 2 * GoneBelow(retired, n) + 1

OneToken == token # NoToken /\ reply # NoToken => reply.key # token.key
NoneComes(k) == reply # NoToken => reply.key # k

BudgetFits ==
    \A c \in Callers : ~excused[c] =>
        /\ call[c] = "getting" => Within(tries[c] - 1, NextKey, OneToken)
        /\ call[c] = "failed" => Within(tries[c], NextKey, OneToken)
        /\ Calling(c) => Within(tries[c] - 1, held[c].key, NoneComes(held[c].key))
        /\ call[c] = "error" => tries[c] <= 2 * GoneBelow(retired, signing)

RotationInv == TokensFit /\ ExpiryFits /\ RefusalsFit /\ BudgetFits

\* Retirements only add to the keys gone by.
LEMMA GoneCount ==
  ASSUME NEW r, NEW s, NEW m \in Int, NEW n \in Int, m <= n,
         \A k \in Keys : r[k] # Never => s[k] # Never
  PROVE  /\ GoneBelow(r, m) \in Nat /\ GoneBelow(s, n) \in Nat
         /\ GoneBelow(r, m) <= GoneBelow(s, n)
         /\ m \in Keys /\ s[m] # Never /\ m < n => GoneBelow(r, m) + 1 <= GoneBelow(s, n)
<1> DEFINE A == {k \in Keys : r[k] # Never /\ k < m}
<1> DEFINE B == {k \in Keys : s[k] # Never /\ k < n}
<1>1. IsFiniteSet(Keys)
  <2>1. 0 \in Int /\ MaxRotations \in Int
    OBVIOUS
  <2>2. IsFiniteSet(0 .. MaxRotations)
    BY <2>1, FS_Interval
  <2> QED
    BY <2>2 DEF Keys
<1>2. IsFiniteSet(A) /\ IsFiniteSet(B)
  <2>1. A \subseteq Keys /\ B \subseteq Keys
    OBVIOUS
  <2> HIDE DEF A, B
  <2> QED
    BY <1>1, <2>1, FS_Subset
<1>3. Cardinality(A) \in Nat /\ Cardinality(B) \in Nat
  <2> HIDE DEF A, B
  <2> QED
    BY <1>2, FS_CardinalityType
<1>4. A \subseteq B
  BY DEF Keys
<1>5. Cardinality(A) <= Cardinality(B)
  <2> HIDE DEF A, B
  <2> QED
    BY <1>2, <1>4, FS_Subset
<1>6. ASSUME m \in Keys, s[m] # Never, m < n
      PROVE  Cardinality(A) + 1 <= Cardinality(B)
  <2>1. m \notin A /\ m \in B
    BY <1>6
  <2> HIDE DEF A, B
  <2>2. IsFiniteSet(A \cup {m}) /\ Cardinality(A \cup {m}) = Cardinality(A) + 1
    BY <1>2, <2>1, FS_AddElement
  <2>3. A \cup {m} \subseteq B
    BY <1>4, <2>1
  <2>4. Cardinality(A \cup {m}) <= Cardinality(B)
    BY <1>2, <2>3, FS_Subset
  <2> QED
    BY <2>2, <2>4
<1> QED
  BY <1>3, <1>5, <1>6 DEF GoneBelow

\* Only the first in line fetches.
LEMMA SoleFetcher ==
  ASSUME LineFits, NEW c \in Callers, NEW d \in Callers, Holds(c), getting[d] = "fetching"
  PROVE  d = c
BY DEF LineFits, Holds

\* Where the next tokens come from, after each step.
LEMMA SupplyStep ==
  ASSUME KeysInv, TokensFit, [Next]_vars
  PROVE  /\ signing' \in {signing, signing + 1}
         /\ \A c \in Callers : getting'[c] = "fetching" => reply' # NoToken
         /\ reply' # NoToken => \E c \in Callers : getting'[c] = "fetching"
         /\ \/ /\ \E c \in Callers : Get(c)
               /\ token' \in Tokens /\ reply' = NoToken /\ signing' = signing
               /\ \/ token' = token
                  \/ token' = reply /\ reply \in Tokens
            \/ /\ ~ \E c \in Callers : Get(c)
               /\ token' \in {token, NoToken}
               /\ \/ reply' \in {reply, NoToken}
                  \/ reply = NoToken /\ reply' \in Tokens /\ reply'.key = signing'
<1> DEFINE Fits ==
      /\ \A c \in Callers : getting'[c] = "fetching" => reply' # NoToken
      /\ reply' # NoToken => \E c \in Callers : getting'[c] = "fetching"
<1> DEFINE Changes ==
      /\ token' \in {token, NoToken}
      /\ \/ reply' \in {reply, NoToken}
         \/ reply = NoToken /\ reply' \in Tokens /\ reply'.key = signing'
<1>0. /\ getting \in [Callers -> {"out", "waiting", "fetching"}]
      /\ token \in Tokens \cup {NoToken} /\ reply \in Tokens \cup {NoToken}
      /\ signing \in Keys /\ signing \in Nat /\ clock \in Times /\ LineFits /\ StagesFit
      /\ \A c \in Callers : getting[c] = "fetching" => reply # NoToken
      /\ reply # NoToken => \E c \in Callers : getting[c] = "fetching"
      /\ NoToken \notin Tokens
  BY DEF KeysInv, TypeOK, ServiceTokenTypeOK, KeycloakTypeOK, Keys, TokensFit
<1>s. signing' \in {signing, signing + 1}
  BY Kinds DEF KeysChange, RotateKeys, RetireKey, keycloak, vars
<1>1. ASSUME NEW c \in Callers, Get(c)
      PROVE  /\ Fits /\ token' \in Tokens /\ reply' = NoToken /\ signing' = signing
             /\ token' = token \/ (token' = reply /\ reply \in Tokens)
  <2>1. /\ Holds(c) /\ getting' = [getting EXCEPT ![c] = "out"] /\ signing' = signing
    BY <1>0, <1>1 DEF Get, TakeCached, FetchReturns, Leave, Goes, LineFits, keycloak
  <2>2. \A d \in Callers : getting'[d] # "fetching"
    BY <1>0, <2>1, SoleFetcher
  <2>3. CASE TakeCached(c)
    <3>1. getting[c] = "waiting" /\ token # NoToken /\ token' = token /\ reply' = reply
      BY <2>3 DEF TakeCached, Cached
    <3>2. reply = NoToken
      BY <1>0, <2>1, <3>1, SoleFetcher
    <3> QED
      BY <1>0, <2>1, <2>2, <3>1, <3>2
  <2>4. CASE FetchReturns(c)
    <3>1. getting[c] = "fetching" /\ token' = reply /\ reply' = NoToken
      BY <2>4 DEF FetchReturns
    <3>2. reply \in Tokens
      BY <1>0, <3>1
    <3> QED
      BY <2>1, <2>2, <3>1, <3>2
  <2> QED
    BY <1>1, <2>3, <2>4 DEF Get
<1>2. ASSUME UNCHANGED <<token, reply>>, UNCHANGED getting PROVE Fits /\ Changes
  BY <1>0, <1>2
<1>3. ASSUME NEW c \in Callers, Ask(c), call[c] # "getting" PROVE Fits /\ Changes
  <2>1. /\ getting' = [getting EXCEPT ![c] = "waiting"] /\ UNCHANGED <<token, reply>>
        /\ getting[c] = "out"
    BY <1>0, <1>3 DEF Ask, Goes, StagesFit
  <2> QED
    BY <1>0, <2>1
<1>4. ASSUME NEW c \in Callers, Fetch(c), signing' = signing PROVE Fits /\ Changes
  <2>1. /\ getting' = [getting EXCEPT ![c] = "fetching"] /\ token' = token /\ reply' = NewToken
        /\ Holds(c) /\ getting[c] = "waiting"
    BY <1>4 DEF Fetch, Goes
  <2>2. NewToken \in Tokens /\ NewToken.key = signing
    BY <1>0 DEF NewToken, Tokens, Times
  <2>3. reply = NoToken
    BY <1>0, <2>1, SoleFetcher
  <2>4. Fits
    BY <1>0, <2>1, <2>2
  <2> QED
    BY <1>4, <2>1, <2>2, <2>3, <2>4
<1>5. ASSUME NEW c \in Callers, Holds(c), getting' = [getting EXCEPT ![c] = "out"],
             token' = token, reply' = NoToken
      PROVE  Fits /\ Changes
  BY <1>0, <1>5, SoleFetcher
<1>6. ASSUME NEW c \in Callers, FetchFails(c) PROVE Fits /\ Changes
  BY <1>0, <1>5, <1>6 DEF FetchFails, Leave, Goes, LineFits
<1>7. ASSUME NEW c \in Callers, CancelGet(c) PROVE Fits /\ Changes
  <2>1. getting' = [getting EXCEPT ![c] = "out"] /\ token' = token
    BY <1>7 DEF CancelGet, Leave, Goes
  <2>2. CASE Holds(c)
    BY <1>5, <1>7, <2>1, <2>2 DEF CancelGet
  <2>3. CASE ~Holds(c)
    <3>1. reply' = reply /\ getting[c] # "fetching"
      BY <1>0, <1>7, <2>3 DEF CancelGet, LineFits
    <3> QED
      BY <1>0, <2>1, <3>1
  <2> QED
    BY <2>2, <2>3
<1>8. ASSUME NEW c \in Callers, MeetRefusal(c) PROVE Fits /\ Changes
  <2>1. token' = NoToken /\ reply' = reply /\ getting' = getting
    BY <1>8 DEF MeetRefusal, Invalidate
  <2> QED
    BY <1>0, <2>1
<1>9. ASSUME ~ \E c \in Callers : Get(c)
      PROVE  Fits /\ Changes
  <2>1. ASSUME NEW c \in Callers, CallStep(c) PROVE Fits /\ Changes
    <3>1. CASE Start(c)
      BY <1>3, <3>1 DEF Start, Try
    <3>2. CASE Request(c)
      BY <1>4, <3>2 DEF Request, keycloak
    <3>3. CASE GetFails(c)
      BY <1>6, <3>3 DEF GetFails
    <3>4. CASE RetryOrRaise(c)
      BY <1>2, <1>3, <3>4 DEF RetryOrRaise, Try, provider
    <3>5. CASE CancelCall(c)
      BY <1>2, <1>7, <3>5 DEF CancelCall, provider
    <3> QED
      BY <1>9, <2>1, <3>1, <3>2, <3>3, <3>4, <3>5 DEF CallStep
  <2>2. ASSUME NEW c \in Callers, CheckStep(c) PROVE Fits /\ Changes
    BY <1>2, <1>8, <2>2 DEF CheckStep, Send, CheckToken, Succeed, provider
  <2>3. ASSUME UNCHANGED provider PROVE Fits /\ Changes
    BY <1>2, <2>3 DEF provider
  <2>4. \/ \E c \in Callers : CallStep(c) \/ CheckStep(c)
        \/ UNCHANGED provider
    BY Kinds DEF vars
  <2> HIDE DEF Fits, Changes
  <2> QED
    BY <2>1, <2>2, <2>3, <2>4
<1> QED
  BY <1>s, <1>1, <1>9

\* What a step does to a call.
LEMMA CallEffects ==
  ASSUME KeysInv, [Next]_vars, NEW d \in Callers
  PROVE  \/ /\ call'[d] = call[d] /\ tries'[d] = tries[d] /\ excused'[d] = excused[d]
            /\ Calling(d) => held'[d] = held[d]
         \/ call[d] = "idle" /\ call'[d] = "getting" /\ tries'[d] = 1
         \/ /\ call[d] = "getting" /\ call'[d] = "holding" /\ Get(d) /\ held'[d] = token'
            /\ tries'[d] = tries[d] /\ excused'[d] = excused[d]
         \/ call[d] = "getting" /\ call'[d] = "failed" /\ excused'[d]
         \/ /\ call[d] = "holding" /\ call'[d] = "checking" /\ held'[d] = held[d]
            /\ tries'[d] = tries[d] /\ excused'[d] = excused[d]
         \/ /\ call[d] = "checking" /\ call'[d] = "failed" /\ check[d] = "rejected"
            /\ tries'[d] = tries[d]
            /\ token' = NoToken /\ reply' = reply /\ UNCHANGED keycloak
            /\ excused'[d] \/ (misses[d] < 2 /\ excused'[d] = excused[d])
         \/ /\ call[d] = "failed" /\ call'[d] = "getting" /\ tries'[d] = tries[d] + 1
            /\ excused'[d] = excused[d]
            /\ UNCHANGED <<token, reply, keycloak>>
         \/ /\ call[d] = "failed" /\ call'[d] = "error" /\ tries'[d] = tries[d]
            /\ excused'[d] = excused[d]
            /\ UNCHANGED <<token, reply, keycloak>>
         \/ call'[d] \in {"served", "cancelled"}
<1> DEFINE Keeps ==
      /\ call'[d] = call[d] /\ tries'[d] = tries[d] /\ excused'[d] = excused[d]
      /\ Calling(d) => held'[d] = held[d]
<1>0. /\ call \in [Callers -> {"idle", "getting", "holding", "checking", "failed",
                               "served", "error", "cancelled"}]
      /\ tries \in [Callers -> Nat] /\ held \in [Callers -> Tokens \cup {NoToken}]
      /\ excused \in [Callers -> BOOLEAN] /\ StagesFit
  BY DEF KeysInv, TypeOK, CallsTypeOK
<1> USE <1>0 DEF Becomes
<1>1. ASSUME NEW c \in Callers, c # d, CallStep(c) \/ CheckStep(c) PROVE Keeps
  <2>1. CASE Start(c) \/ RetryOrRaise(c)
    BY <1>1, <2>1 DEF Start, RetryOrRaise, Try, Calling
  <2>2. CASE Request(c) \/ GetFails(c)
    BY <1>1, <2>2 DEF Request, GetFails, Excuse, Calling
  <2>3. CASE Get(c)
    BY <1>1, <2>3 DEF Get, Calling
  <2>4. CASE CancelCall(c) \/ Succeed(c)
    BY <1>1, <2>4 DEF CancelCall, Succeed, Over, Drop, Calling
  <2>5. CASE Send(c) \/ CheckToken(c)
    BY <1>1, <2>5 DEF Send, CheckToken, calls, Calling
  <2>6. CASE MeetRefusal(c)
    BY <1>1, <2>6 DEF MeetRefusal, Drop, Excuse, Calling
  <2> QED
    BY <1>1, <2>1, <2>2, <2>3, <2>4, <2>5, <2>6 DEF CallStep, CheckStep
<1>2. ASSUME Start(d)
      PROVE  call[d] = "idle" /\ call'[d] = "getting" /\ tries'[d] = 1
  BY <1>2 DEF Start, Try, StagesFit
<1>3. ASSUME Request(d) \/ CheckToken(d) PROVE Keeps
  BY <1>3 DEF Request, CheckToken, calls, Calling
<1>4. ASSUME Get(d)
      PROVE  /\ call[d] = "getting" /\ call'[d] = "holding" /\ Get(d) /\ held'[d] = token'
             /\ tries'[d] = tries[d] /\ excused'[d] = excused[d]
  BY <1>4 DEF Get, TakeCached, FetchReturns, StagesFit
<1>5. ASSUME GetFails(d) PROVE call[d] = "getting" /\ call'[d] = "failed" /\ excused'[d]
  BY <1>5 DEF GetFails, FetchFails, Excuse, StagesFit
<1>6. ASSUME Send(d)
      PROVE  /\ call[d] = "holding" /\ call'[d] = "checking" /\ held'[d] = held[d]
             /\ tries'[d] = tries[d] /\ excused'[d] = excused[d]
  BY <1>6 DEF Send
<1>7. ASSUME MeetRefusal(d)
      PROVE  /\ call[d] = "checking" /\ call'[d] = "failed" /\ check[d] = "rejected"
             /\ tries'[d] = tries[d]
             /\ token' = NoToken /\ reply' = reply /\ UNCHANGED keycloak
             /\ excused'[d] \/ (misses[d] < 2 /\ excused'[d] = excused[d])
  <2>1. excused'[d] \/ (misses[d] < 2 /\ excused'[d] = excused[d])
    <3>1. (misses[d] = 2 /\ Excuse(d)) \/ (misses[d] < 2 /\ UNCHANGED excused)
      BY <1>7 DEF MeetRefusal
    <3>2. Excuse(d) => excused'[d]
      BY Zenon DEF Excuse
    <3> QED
      BY <3>1, <3>2
  <2> QED
    BY <1>7, <2>1 DEF MeetRefusal, Invalidate
<1>8. ASSUME RetryOrRaise(d)
      PROVE  /\ call[d] = "failed" /\ excused'[d] = excused[d]
             /\ UNCHANGED <<token, reply, keycloak>>
             /\ \/ call'[d] = "getting" /\ tries'[d] = tries[d] + 1
                \/ call'[d] = "error" /\ tries'[d] = tries[d]
  BY <1>8 DEF RetryOrRaise, Try, Ask, provider
<1>9. ASSUME CancelCall(d) \/ Succeed(d) PROVE call'[d] \in {"served", "cancelled"}
  BY <1>9 DEF CancelCall, Succeed, Over
<1>10. ASSUME UNCHANGED <<call, tries, held, excused>> PROVE Keeps
  BY <1>10 DEF Calling
<1>11. \/ \E c \in Callers : CallStep(c) \/ CheckStep(c)
       \/ UNCHANGED <<call, tries, held, excused>>
  BY Kinds DEF vars, calls, Tick
<1>12. CASE \E c \in Callers \ {d} : CallStep(c) \/ CheckStep(c)
  BY <1>1, <1>12
<1>13. CASE CallStep(d) \/ CheckStep(d)
  <2> HIDE DEF Keeps
  <2>1. CASE Keeps
    BY <2>1 DEF Keeps
  <2> QED
    BY <1>2, <1>3, <1>4, <1>5, <1>6, <1>7, <1>8, <1>9, <1>13, <2>1 DEF CallStep, CheckStep
<1> QED
  BY <1>10, <1>11, <1>12, <1>13

\* Tokens go on coming in the order of their keys.
LEMMA TokensStep ==
  ASSUME KeysInv, TokensFit, [Next]_vars
  PROVE  TokensFit'
<1>0. /\ token \in Tokens \cup {NoToken} /\ reply \in Tokens \cup {NoToken}
      /\ NoToken \notin Tokens /\ \A t \in Tokens : t.key \in Nat
      /\ signing \in Nat
  BY DEF KeysInv, TypeOK, ServiceTokenTypeOK, KeycloakTypeOK, Keys, Tokens
<1>1. /\ \A c \in Callers : getting'[c] = "fetching" => reply' # NoToken
      /\ reply' # NoToken => \E c \in Callers : getting'[c] = "fetching"
      /\ signing' \in {signing, signing + 1}
  BY SupplyStep
<1>2. \/ /\ token' \in Tokens /\ reply' = NoToken /\ signing' = signing
         /\ token' = token \/ (token' = reply /\ reply \in Tokens)
      \/ /\ ~ \E c \in Callers : Get(c)
         /\ token' \in {token, NoToken}
         /\ \/ reply' \in {reply, NoToken}
            \/ reply = NoToken /\ reply' \in Tokens /\ reply'.key = signing'
  BY SupplyStep
<1>3. /\ reply' # NoToken => reply'.key <= signing'
      /\ token' # NoToken => token'.key <= signing'
      /\ token' # NoToken /\ reply' # NoToken => token'.key <= reply'.key
  BY <1>0, <1>1, <1>2 DEF TokensFit
<1>4. ASSUME NEW c \in Callers, Calling(c)'
      PROVE  /\ held'[c] \in Tokens /\ held'[c].key <= signing'
             /\ token' # NoToken => held'[c].key <= token'.key
             /\ reply' # NoToken => held'[c].key <= reply'.key
  <2>1. \/ Calling(c) /\ held'[c] = held[c]
        \/ Get(c) /\ held'[c] = token'
    BY <1>4, CallEffects DEF Calling
  <2>2. CASE Calling(c) /\ held'[c] = held[c]
    <3>1. /\ held[c] \in Tokens /\ held[c].key <= signing
          /\ token # NoToken => held[c].key <= token.key
          /\ reply # NoToken => held[c].key <= reply.key
      BY <2>2 DEF TokensFit
    <3> QED
      BY <1>0, <1>1, <1>2, <2>2, <3>1
  <2>3. CASE Get(c) /\ held'[c] = token'
    BY <1>0, <1>2, <1>3, <2>3
  <2> QED
    BY <2>1, <2>2, <2>3
<1> QED
  BY <1>1, <1>3, <1>4 DEF TokensFit

\* How long tokens have been on their way, after each step.
LEMMA LagEffects ==
  ASSUME KeysInv, TokensFit, [Next]_vars, NEW d \in Callers
  PROVE  /\ Fetching(d)' =>
              \/ Request(d)
              \/ /\ Fetching(d) /\ reply' = reply
                 /\ \/ clock' = clock /\ lag'[d] = lag[d]
                    \/ clock' = clock + 1 /\ lag'[d] = lag[d] + 1 /\ lag[d] < MaxFetchLag
         /\ Calling(d)' =>
              \/ Get(d)
              \/ /\ Calling(d) /\ held'[d] = held[d]
                 /\ \/ clock' = clock /\ lag'[d] = lag[d]
                    \/ clock' = clock + 1 /\ lag'[d] = lag[d] + 1 /\ lag[d] < MaxCallLag
<1> DEFINE Same == clock' = clock /\ lag'[d] = lag[d]
<1>0. /\ getting \in [Callers -> {"out", "waiting", "fetching"}]
      /\ call \in [Callers -> {"idle", "getting", "holding", "checking", "failed",
                               "served", "error", "cancelled"}]
      /\ lag \in [Callers -> 0 .. Larger(MaxFetchLag, MaxCallLag)]
      /\ LineFits /\ StagesFit
  BY DEF KeysInv, TypeOK, CallsTypeOK, ServiceTokenTypeOK
<1>1. CASE Tick
  <2>1. /\ UNCHANGED <<getting, reply, call, held>> /\ clock' = clock + 1
        /\ Fetching(d) => lag'[d] = lag[d] + 1 /\ lag[d] < MaxFetchLag
        /\ Calling(d) => lag'[d] = lag[d] + 1 /\ lag[d] < MaxCallLag
    BY <1>0, <1>1 DEF Tick, provider
  <2> QED
    BY <2>1 DEF Fetching, Calling
<1>2. CASE ~Tick
  <2>1. clock' = clock
    BY <1>2, Kinds DEF vars
  <2>2. ASSUME Fetching(d)', ~Request(d)
        PROVE  Fetching(d) /\ reply' = reply /\ lag'[d] = lag[d]
    <3>1. ASSUME NEW c \in Callers, CallStep(c)
          PROVE  Fetching(d) /\ lag'[d] = lag[d]
      <4>1. CASE Start(c) \/ RetryOrRaise(c)
        BY <1>0, <2>2, <4>1 DEF Start, RetryOrRaise, Try, Ask, Goes, Fetching, provider
      <4>2. CASE Request(c)
        BY <1>0, <2>2, <4>2 DEF Request, Fetch, Goes, Fetching
      <4>3. CASE Get(c)
        BY <1>0, <2>2, <4>3 DEF Get, TakeCached, FetchReturns, Leave, Goes, Fetching
      <4>4. CASE GetFails(c)
        BY <1>0, <2>2, <4>4 DEF GetFails, FetchFails, Leave, Goes, Fetching
      <4>5. CASE CancelCall(c)
        <5>1. CASE CancelGet(c)
          BY <1>0, <2>2, <4>5, <5>1 DEF CancelCall, Over, Drop, CancelGet, Leave, Goes, Fetching
        <5>2. CASE call[c] \in {"holding", "failed"} /\ UNCHANGED provider
          BY <1>0, <2>2, <4>5, <5>2 DEF CancelCall, Over, Drop, provider, Fetching, StagesFit
        <5> QED
          BY <4>5, <5>1, <5>2 DEF CancelCall
      <4> QED
        BY <3>1, <4>1, <4>2, <4>3, <4>4, <4>5 DEF CallStep
    <3>2. ASSUME NEW c \in Callers, CheckStep(c)
          PROVE  Fetching(d) /\ lag'[d] = lag[d]
      <4>1. CASE Send(c) \/ CheckToken(c)
        BY <2>2, <4>1 DEF Send, CheckToken, calls, provider, Fetching
      <4>2. CASE Succeed(c) \/ MeetRefusal(c)
        <5>1. getting' = getting /\ lag' = [lag EXCEPT ![c] = 0] /\ call[c] = "checking"
          BY <4>2 DEF Succeed, MeetRefusal, Invalidate, Over, Drop, provider
        <5> QED
          BY <1>0, <2>2, <5>1 DEF Fetching, StagesFit
      <4> QED
        BY <3>2, <4>1, <4>2 DEF CheckStep
    <3>3. ASSUME UNCHANGED <<provider, calls>>
          PROVE  Fetching(d) /\ lag'[d] = lag[d]
      BY <2>2, <3>3 DEF provider, calls, Fetching
    <3>4. Fetching(d) /\ lag'[d] = lag[d]
      BY <1>2, <3>1, <3>2, <3>3, Kinds DEF vars
    <3>5. reply # NoToken /\ reply' # NoToken
      BY <2>2, <3>4, SupplyStep DEF TokensFit, Fetching
    <3>6. reply' = reply
      BY <3>5, SupplyStep
    <3> QED
      BY <3>4, <3>6
  <2>3. ASSUME Calling(d)', ~Get(d)
        PROVE  Calling(d) /\ held'[d] = held[d] /\ lag'[d] = lag[d]
    <3>1. Calling(d) /\ held'[d] = held[d]
      BY <2>3, CallEffects DEF Calling
    <3>2. ASSUME NEW c \in Callers, CallStep(c) \/ CheckStep(c)
          PROVE  lag'[d] = lag[d]
      <4>1. CASE Start(c) \/ RetryOrRaise(c) \/ GetFails(c) \/ Send(c) \/ CheckToken(c)
        BY <4>1 DEF Start, RetryOrRaise, GetFails, Send, CheckToken, calls
      <4>2. CASE Request(c) \/ Get(c)
        <5>1. lag' = [lag EXCEPT ![c] = 0] /\ c # d
          BY <1>0, <2>3, <3>1, <4>2
             DEF Request, Fetch, Get, TakeCached, FetchReturns, StagesFit, Calling
        <5> QED
          BY <1>0, <5>1
      <4>3. CASE CancelCall(c) \/ Succeed(c) \/ MeetRefusal(c)
        <5>1. lag' = [lag EXCEPT ![c] = 0]
          BY <4>3 DEF CancelCall, Succeed, MeetRefusal, Over, Drop
        <5>2. call'[c] \in {"cancelled", "served", "failed"}
          BY <1>0, <4>3 DEF CancelCall, Succeed, MeetRefusal, Over, Becomes
        <5>3. c # d
          BY <2>3, <5>2 DEF Calling
        <5> QED
          BY <1>0, <5>1, <5>3
      <4> QED
        BY <3>2, <4>1, <4>2, <4>3 DEF CallStep, CheckStep
    <3>3. UNCHANGED <<provider, calls>> => lag'[d] = lag[d]
      BY DEF calls
    <3>4. lag'[d] = lag[d]
      BY <1>2, <3>2, <3>3, Kinds DEF vars
    <3> QED
      BY <3>1, <3>4
  <2> QED
    BY <2>1, <2>2, <2>3
<1> QED
  BY <1>1, <1>2

\* Tokens come and go in time.
LEMMA ExpiryStep ==
  ASSUME KeysInv, TokensFit, ExpiryFits, [Next]_vars
  PROVE  ExpiryFits'
<1>0. /\ token \in Tokens \cup {NoToken} /\ reply \in Tokens \cup {NoToken}
      /\ NoToken \notin Tokens /\ \A t \in Tokens : t.expires \in Nat
      /\ signing \in Keys /\ clock \in Times /\ clock \in Nat /\ expiresAt \in Nat
      /\ getting \in [Callers -> {"out", "waiting", "fetching"}]
      /\ \A d \in Callers : lag[d] \in Nat
  BY DEF KeysInv, TypeOK, ServiceTokenTypeOK, KeycloakTypeOK, CallsTypeOK, Times, Tokens, Larger
<1>p. KeptFor \in Nat /\ KeptFor >= 1 /\ Lifetime \in Nat /\ MaxFetchLag \in Nat /\ MaxCallLag \in Nat
  BY DEF KeptFor, Larger
<1>l. lag \in [Callers -> 0 .. Larger(MaxFetchLag, MaxCallLag)]
  BY DEF KeysInv, TypeOK, CallsTypeOK
<1>1. ASSUME NEW c \in Callers, FetchReturns(c), reply \in Tokens
      PROVE  /\ token' = reply /\ expiresAt' = clock + KeptFor
             /\ reply.expires + MaxFetchLag >= clock + Lifetime
  <2>1. Fetching(c) /\ token' = reply /\ expiresAt' = clock + KeptFor
    BY <1>1 DEF FetchReturns, Fetching
  <2> QED
    BY <1>0, <1>1, <1>p, <2>1 DEF ExpiryFits
<1>2. token' # NoToken => token'.expires + MaxFetchLag + KeptFor >= expiresAt' + Lifetime
  <2>1. ASSUME NEW c \in Callers, Get(c)
        PROVE  token' # NoToken => token'.expires + MaxFetchLag + KeptFor >= expiresAt' + Lifetime
    <3>1. CASE TakeCached(c)
      BY <3>1 DEF TakeCached, ExpiryFits
    <3>2. CASE FetchReturns(c)
      <4>1. reply \in Tokens
        BY <1>0, <3>2 DEF FetchReturns, TokensFit
      <4> QED
        BY <1>0, <1>1, <1>p, <3>2, <4>1
    <3> QED
      BY <2>1, <3>1, <3>2 DEF Get
  <2>2. ASSUME ~ \E c \in Callers : Get(c), token' # NoToken
        PROVE  token' = token /\ expiresAt' = expiresAt
    <3>1. token' = token
      BY <2>2, SupplyStep
    <3>2. ASSUME NEW c \in Callers, CallStep(c) PROVE expiresAt' = expiresAt
      BY <2>2, <3>2
         DEF CallStep, Start, Request, GetFails, RetryOrRaise, CancelCall, Try, Ask, Fetch,
             FetchFails, CancelGet, provider
    <3>3. ASSUME NEW c \in Callers, CheckStep(c) PROVE expiresAt' = expiresAt
      BY <2>2, <3>3 DEF CheckStep, Send, CheckToken, Succeed, MeetRefusal, Invalidate, provider
    <3>4. UNCHANGED provider => expiresAt' = expiresAt
      BY DEF provider
    <3> QED
      BY <3>1, <3>2, <3>3, <3>4, Kinds DEF vars
  <2> QED
    BY <2>1, <2>2 DEF ExpiryFits
<1>3. ASSUME NEW d \in Callers, Fetching(d)'
      PROVE  lag'[d] <= MaxFetchLag /\ reply'.expires + lag'[d] = clock' + Lifetime
  <2>1. CASE Request(d)
    <3>1. reply' = NewToken /\ lag' = [lag EXCEPT ![d] = 0] /\ clock' = clock
      BY <2>1 DEF Request, Fetch
    <3>2. NewToken.expires = clock + Lifetime
      BY DEF NewToken
    <3> QED
      BY <1>0, <1>l, <1>p, <3>1, <3>2
  <2>2. CASE ~Request(d)
    <3>1. /\ Fetching(d) /\ reply' = reply
          /\ \/ clock' = clock /\ lag'[d] = lag[d]
             \/ clock' = clock + 1 /\ lag'[d] = lag[d] + 1 /\ lag[d] < MaxFetchLag
      BY <1>3, <2>2, LagEffects
    <3>2. lag[d] <= MaxFetchLag /\ reply.expires + lag[d] = clock + Lifetime /\ reply \in Tokens
      BY <1>0, <3>1 DEF ExpiryFits, TokensFit, Fetching
    <3> QED
      BY <1>0, <1>p, <3>1, <3>2
  <2> QED
    BY <2>1, <2>2
<1>4. ASSUME NEW d \in Callers, Calling(d)'
      PROVE  /\ lag'[d] <= MaxCallLag
             /\ held'[d].expires + MaxFetchLag + KeptFor + lag'[d] > clock' + Lifetime
  <2>1. CASE Get(d)
    <3>1. lag'[d] = 0 /\ clock' = clock
      BY <1>l, <2>1 DEF Get
    <3>2. held'[d] = token' /\ token' \in Tokens
      <4>1. held'[d] = token'
        BY <2>1, <1>4, CallEffects DEF KeysInv, TypeOK, CallsTypeOK, Get, Calling
      <4> QED
        BY <2>1, <4>1, SupplyStep
    <3>3. CASE TakeCached(d)
      <4>1. token' = token /\ token # NoToken /\ clock < expiresAt
        BY <3>3 DEF TakeCached, Cached
      <4> QED
        BY <1>0, <1>p, <3>1, <3>2, <4>1 DEF ExpiryFits
    <3>4. CASE FetchReturns(d)
      <4>1. reply \in Tokens
        BY <1>0, <3>4 DEF FetchReturns, TokensFit
      <4> QED
        BY <1>0, <1>1, <1>p, <3>1, <3>2, <3>4, <4>1
    <3> QED
      BY <2>1, <3>3, <3>4 DEF Get
  <2>2. CASE ~Get(d)
    <3>1. /\ Calling(d) /\ held'[d] = held[d]
          /\ \/ clock' = clock /\ lag'[d] = lag[d]
             \/ clock' = clock + 1 /\ lag'[d] = lag[d] + 1 /\ lag[d] < MaxCallLag
      BY <1>4, <2>2, LagEffects
    <3>2. /\ lag[d] <= MaxCallLag /\ held[d].expires \in Nat
          /\ held[d].expires + MaxFetchLag + KeptFor + lag[d] > clock + Lifetime
      BY <1>0, <3>1 DEF ExpiryFits, TokensFit
    <3> QED
      BY <1>0, <1>p, <3>1, <3>2
  <2> QED
    BY <2>1, <2>2
<1>5. KeptFor' = KeptFor
  BY DEF KeptFor, Larger
<1> QED
  BY <1>2, <1>3, <1>4, <1>5 DEF ExpiryFits

\* With a leeway that covers the way of a token, a check that Keycloak answered
\* refuses it only when its key is retired.
LEMMA RefusalsStep ==
  ASSUME LeewayCoversTheWay, KeysInv, TokensFit, ExpiryFits, RefusalsFit, [Next]_vars
  PROVE  RefusalsFit'
<1>0. /\ held \in [Callers -> Tokens \cup {NoToken}]
      /\ StagesFit /\ KeysFit
      /\ \A t \in Tokens : t.key \in Keys /\ t.expires \in Nat
      /\ \A d \in Callers : lag[d] \in Nat
      /\ clock \in Nat /\ signing \in Keys
  BY DEF KeysInv, TypeOK, CallsTypeOK, KeycloakTypeOK, Times, Tokens, Larger
<1>p. /\ KeptFor \in Nat /\ Lifetime \in Nat /\ MaxFetchLag \in Nat /\ MaxCallLag \in Nat
      /\ MaxFetchLag + MaxCallLag + KeptFor <= Lifetime
  BY DEF KeptFor, Larger, LeewayCoversTheWay
<1>1. ASSUME NEW d \in Callers, check[d] # "none"
      PROVE  /\ Calling(d) /\ held[d].key \in Keys /\ held[d].key <= signing
             /\ clock < held[d].expires
             /\ Retired(held[d].key) => retired'[held[d].key] # Never
  <2>1. Calling(d)
    BY <1>0, <1>1 DEF StagesFit, Calling
  <2>2. held[d] \in Tokens /\ held[d].key <= signing
    BY <2>1 DEF TokensFit
  <2>3. /\ lag[d] <= MaxCallLag
        /\ held[d].expires + MaxFetchLag + KeptFor + lag[d] > clock + Lifetime
    BY <2>1 DEF ExpiryFits
  <2>4. clock < held[d].expires
    BY <1>0, <1>p, <2>2, <2>3
  <2>5. Retired(held[d].key) => retired'[held[d].key] # Never
    BY <1>0, <2>2, KeycloakStep DEF Retired
  <2> QED
    BY <1>0, <2>1, <2>2, <2>4, <2>5
<1> DEFINE Fits(d) ==
      /\ check'[d] \in {"lock", "look"} /\ forced'[d] /\ misses'[d] = 0 =>
            held'[d] = held[d] /\ retired'[held[d].key] # Never
      /\ check'[d] = "rejected" /\ misses'[d] < 2 =>
            held'[d] = held[d] /\ retired'[held[d].key] # Never
<1>2. ASSUME NEW c \in Callers, CheckToken(c), NEW d \in Callers PROVE Fits(d)
  <2> DEFINE k == held[c].key
  <2>0. UNCHANGED held
    BY <1>2 DEF CheckToken, calls
  <2>1. check[c] # "none"
    BY <1>2 DEF CheckToken, GetJwksClient, LookUp, FetchJwks, FetchJwksFails
  <2>2. CASE d # c
    <3>1. check'[d] = check[d] /\ forced'[d] = forced[d] /\ misses'[d] = misses[d]
      BY <1>2, <2>2, ValidatorTypes
         DEF CheckToken, GetJwksClient, LookUp, FetchJwks, FetchJwksFails, Verify, NoKey, Attempt,
             Moves
    <3> QED
      BY <1>1, <2>0, <3>1 DEF RefusalsFit
  <2>3. CASE d = c
    <3>1. CASE GetJwksClient(c)
      <4>1. check[c] = "lock" /\ UNCHANGED <<forced, misses>> /\ check'[c] = "look"
        BY <3>1, ValidatorTypes DEF GetJwksClient, Moves
      <4> QED
        BY <1>1, <2>0, <2>1, <2>3, <4>1 DEF RefusalsFit
    <3>2. ASSUME Verify(c, held[c].expires) PROVE Fits(d)
      <4>1. check'[c] = "accepted"
        BY <1>1, <2>1, <3>2, ValidatorTypes DEF Verify, Moves
      <4> QED
        BY <2>3, <4>1
    <3>3. CASE LookUp(c, k, held[c].expires)
      BY <2>0, <3>2, <3>3 DEF LookUp
    <3>4. CASE FetchJwks(c, k, held[c].expires)
      <4>1. CASE k \notin published
        <5>1. Retired(k)
          BY <1>0, <1>1, <2>1, <4>1 DEF KeysFit, Retired
        <5> QED
          BY <1>1, <2>0, <2>1, <2>3, <5>1
      <4>2. CASE k \in published
        BY <2>0, <3>2, <3>4, <4>2 DEF FetchJwks
      <4> QED
        BY <4>1, <4>2
    <3>5. CASE FetchJwksFails(c, k)
      <4>1. /\ check[c] = "look" /\ NoKey(c) /\ misses'[c] = misses[c] + 1
        BY <3>5, ValidatorTypes DEF FetchJwksFails
      <4>2. misses[c] \in Nat /\ misses'[c] # 0
        BY <4>1, ValidatorTypes
      <4>3. CASE ~forced[c] /\ Attempt(c, TRUE)
        <5>1. check'[c] = "lock"
          BY <4>3, ValidatorTypes DEF Attempt, Moves
        <5> QED
          BY <2>0, <2>3, <4>2, <5>1
      <4>4. CASE forced[c] /\ Moves(c, "rejected")
        <5>1. check'[c] = "rejected"
          BY <4>4, ValidatorTypes DEF Moves
        <5>2. misses'[c] < 2 => misses[c] = 0
          BY <4>1, <4>2
        <5>3. misses'[c] < 2 => Retired(k)
          BY <4>1, <4>4, <5>2 DEF RefusalsFit
        <5> QED
          BY <1>1, <2>0, <2>1, <2>3, <5>1, <5>3
      <4> QED
        BY <4>1, <4>3, <4>4 DEF NoKey
    <3> QED
      BY <1>2, <3>1, <3>3, <3>4, <3>5 DEF CheckToken
  <2> QED
    BY <2>2, <2>3
<1>3. ASSUME NEW c \in Callers, Send(c) \/ Succeed(c) \/ MeetRefusal(c), NEW d \in Callers
      PROVE  /\ check'[d] \in {"lock", "look"} /\ forced'[d] => check[d] = check'[d] /\ forced[d]
             /\ check'[d] = "rejected" => check[d] = "rejected"
             /\ check'[d] # "none" => misses'[d] = misses[d]
  <2>1. CASE Send(c)
    <3>1. /\ check' = [check EXCEPT ![c] = "lock"] /\ misses' = misses
          /\ forced' = [forced EXCEPT ![c] = FALSE]
      BY <2>1 DEF Send, BeginDecode, Attempt, Moves
    <3>2. d # c => check'[d] = check[d] /\ forced'[d] = forced[d]
      BY <3>1, ValidatorTypes
    <3>3. d = c => check'[d] = "lock" /\ ~forced'[d]
      BY <3>1, ValidatorTypes
    <3> QED
      BY <3>1, <3>2, <3>3
  <2>2. CASE Succeed(c) \/ MeetRefusal(c)
    <3>1. /\ check' = [check EXCEPT ![c] = "none"] /\ misses' = [misses EXCEPT ![c] = 0]
          /\ forced' = [forced EXCEPT ![c] = FALSE]
      BY <2>2 DEF Succeed, MeetRefusal, Answered, Moves
    <3>2. d # c => check'[d] = check[d] /\ forced'[d] = forced[d] /\ misses'[d] = misses[d]
      BY <3>1, ValidatorTypes
    <3>3. d = c => check'[d] = "none"
      BY <3>1, ValidatorTypes
    <3> QED
      BY <3>2, <3>3
  <2> QED
    BY <1>3, <2>1, <2>2
<1>4. UNCHANGED validator => UNCHANGED <<check, forced, misses>>
  BY DEF validator
<1>5. ASSUME NEW d \in Callers, ~ \E c \in Callers : CheckToken(c)
      PROVE  /\ check'[d] \in {"lock", "look"} /\ forced'[d] => check[d] = check'[d] /\ forced[d]
             /\ check'[d] = "rejected" => check[d] = "rejected"
             /\ check'[d] # "none" => misses'[d] = misses[d]
  <2>1. CASE \E c \in Callers : Send(c) \/ Succeed(c) \/ MeetRefusal(c)
    BY <1>3, <2>1
  <2>2. CASE UNCHANGED validator
    BY <1>4, <2>2
  <2> QED
    BY <1>5, <2>1, <2>2, Kinds DEF CheckStep, vars
<1>6. ASSUME NEW d \in Callers
      PROVE  Fits(d)
  <2>1. CASE \E c \in Callers : CheckToken(c)
    BY <1>2, <2>1
  <2>2. CASE ~ \E c \in Callers : CheckToken(c)
    <3>1. check[d] # "none" /\ check'[d] # "none" => held'[d] = held[d]
      <4>1. ASSUME check[d] # "none", check'[d] # "none"
            PROVE  call'[d] = "checking" /\ call[d] = "checking"
        BY <1>0, <4>1, CallsStep DEF StagesFit
      <4> QED
        BY <4>1, CallEffects DEF Calling
    <3> QED
      BY <1>1, <1>5, <2>2, <3>1 DEF RefusalsFit
  <2> QED
    BY <2>1, <2>2
<1>7. ASSUME NEW d \in Callers
      PROVE  /\ check'[d] \in {"lock", "look"} /\ forced'[d] /\ misses'[d] = 0
                   => Retired(held[d].key)'
             /\ check'[d] = "rejected" /\ misses'[d] < 2 => Retired(held[d].key)'
  BY <1>6 DEF Retired, Never
<1> QED
  BY <1>7 DEF RefusalsFit

\* The next key only grows, and with it the refusals that are accounted for.
LEMMA NextKeyStep ==
  ASSUME KeysInv, TokensFit, [Next]_vars, NEW n \in Int, Within(n, NextKey, OneToken)
  PROVE  \/ n <= 2 * GoneBelow(retired', NextKey')
         \/ /\ OneToken' /\ retired'[NextKey'] # Never
            /\ n <= 2 * GoneBelow(retired', NextKey') + 1
<1> DEFINE old == NextKey
<1> DEFINE new == NextKey'
<1>0. /\ token \in Tokens \cup {NoToken} /\ reply \in Tokens \cup {NoToken}
      /\ NoToken \notin Tokens /\ \A t \in Tokens : t.key \in Keys
      /\ signing \in Keys /\ signing' \in Keys /\ \A k \in Keys : k \in Nat
      /\ KeysFit /\ KeysFit'
  BY KeycloakStep DEF KeysInv, TypeOK, ServiceTokenTypeOK, KeycloakTypeOK, Keys, Tokens
<1>k. \A k \in Keys : retired[k] # Never => retired'[k] # Never
  BY KeycloakStep
<1>1. \/ /\ token' \in Tokens /\ reply' = NoToken /\ signing' = signing
         /\ token' = token \/ (token' = reply /\ reply \in Tokens)
      \/ /\ token' \in {token, NoToken}
         /\ \/ reply' \in {reply, NoToken}
            \/ reply = NoToken /\ reply' \in Tokens /\ reply'.key = signing'
  BY SupplyStep
<1>2. signing' \in {signing, signing + 1}
  BY SupplyStep
<1>3. /\ reply # NoToken => reply.key <= signing
      /\ token # NoToken => token.key <= signing
      /\ token # NoToken /\ reply # NoToken => token.key <= reply.key
  BY DEF TokensFit
<1>4. old \in Keys /\ new \in Keys /\ old <= new
  BY <1>0, <1>1, <1>2, <1>3 DEF NextKey
<1>5. OneToken /\ Retired(old) /\ new = old => OneToken'
  <2>1. Retired(old) => old < signing
    BY <1>0, <1>4 DEF KeysFit, Retired
  <2>2. CASE token' = NoToken \/ reply' = NoToken
    BY <2>2 DEF OneToken
  <2>3. CASE token' = token /\ token # NoToken /\ reply' = reply
    BY <2>3 DEF OneToken
  <2>4. CASE token' = token /\ token # NoToken /\ reply' \in Tokens /\ reply'.key = signing'
    <3>1. old = token.key
      BY <2>4 DEF NextKey
    <3> QED
      BY <1>0, <1>2, <2>1, <2>4, <3>1 DEF OneToken
  <2> QED
    BY <1>0, <1>1, <2>2, <2>3, <2>4
<1> HIDE DEF old, new
<1>7. /\ GoneBelow(retired, old) \in Nat /\ GoneBelow(retired', new) \in Nat
      /\ GoneBelow(retired, old) <= GoneBelow(retired', new)
      /\ old < new /\ retired'[old] # Never =>
            GoneBelow(retired, old) + 1 <= GoneBelow(retired', new)
  BY <1>0, <1>4, <1>k, GoneCount
<1>8. \/ n <= 2 * GoneBelow(retired, old)
      \/ OneToken /\ Retired(old) /\ n <= 2 * GoneBelow(retired, old) + 1
  BY DEF Within, old
<1>9. \/ n <= 2 * GoneBelow(retired', new)
      \/ OneToken' /\ retired'[new] # Never /\ n <= 2 * GoneBelow(retired', new) + 1
  <2>1. Retired(old) => retired'[old] # Never
    BY <1>4, <1>k DEF Retired
  <2>2. CASE n <= 2 * GoneBelow(retired, old)
    BY <1>7, <2>2
  <2>3. CASE OneToken /\ Retired(old) /\ n <= 2 * GoneBelow(retired, old) + 1
    <3>1. CASE old < new
      BY <1>7, <2>1, <2>3, <3>1
    <3>2. CASE old = new
      BY <1>5, <1>7, <2>1, <2>3, <3>2
    <3> QED
      BY <1>0, <1>4, <3>1, <3>2
  <2> QED
    BY <1>8, <2>2, <2>3
<1> QED
  BY <1>9 DEF new

\* Nor does a call under way run out of what its key accounts for.
LEMMA CallingBudgetStep ==
  ASSUME KeysInv, TokensFit, [Next]_vars, NEW n \in Int, NEW k \in Keys,
         Within(n, k, NoneComes(k))
  PROVE  \/ n <= 2 * GoneBelow(retired', k)
         \/ /\ reply' # NoToken => reply'.key # k
            /\ retired'[k] # Never /\ n <= 2 * GoneBelow(retired', k) + 1
<1>0. /\ reply \in Tokens \cup {NoToken} /\ signing \in Nat /\ k \in Nat /\ KeysFit
  BY DEF KeysInv, TypeOK, ServiceTokenTypeOK, KeycloakTypeOK, Keys
<1>k. \A j \in Keys : retired[j] # Never => retired'[j] # Never
  BY KeycloakStep
<1>1. /\ GoneBelow(retired, k) \in Nat /\ GoneBelow(retired', k) \in Nat
      /\ GoneBelow(retired, k) <= GoneBelow(retired', k)
  BY <1>0, <1>k, GoneCount
<1>2. Retired(k) => k < signing
  BY <1>0 DEF KeysFit, Retired
<1>3. Retired(k) /\ NoneComes(k) => (reply' # NoToken => reply'.key # k)
  <2>1. signing' \in {signing, signing + 1}
    BY SupplyStep
  <2>2. reply' \in {reply, NoToken} \/ reply'.key = signing'
    BY SupplyStep
  <2> QED
    BY <1>0, <1>2, <2>1, <2>2 DEF NoneComes
<1> QED
  BY <1>0, <1>k, <1>1, <1>3 DEF Within, Retired

\* A call that was never left unanswered has been refused twice per key gone by,
\* and once more if the next token may be one more of a retired key.
LEMMA BudgetStep ==
  ASSUME KeysInv, TokensFit, RefusalsFit, BudgetFits, [Next]_vars
  PROVE  BudgetFits'
<1> DEFINE NextOK(n) ==
      \/ n <= 2 * GoneBelow(retired', NextKey')
      \/ /\ OneToken' /\ retired'[NextKey'] # Never
         /\ n <= 2 * GoneBelow(retired', NextKey') + 1
<1> DEFINE CallOK(n, k) ==
      \/ n <= 2 * GoneBelow(retired', k)
      \/ /\ reply' # NoToken => reply'.key # k
         /\ retired'[k] # Never /\ n <= 2 * GoneBelow(retired', k) + 1
<1>0. /\ token \in Tokens \cup {NoToken} /\ reply \in Tokens \cup {NoToken}
      /\ NoToken \notin Tokens /\ \A t \in Tokens : t.key \in Keys
      /\ signing \in Keys /\ \A k \in Keys : k \in Nat
      /\ \A d \in Callers : tries[d] \in Nat
      /\ KeysFit /\ StagesFit
  BY DEF KeysInv, TypeOK, ServiceTokenTypeOK, KeycloakTypeOK, CallsTypeOK, Keys, Tokens
<1>k. \A k \in Keys : retired[k] # Never => retired'[k] # Never
  BY KeycloakStep
<1>s. signing' \in {signing, signing + 1} /\ signing' \in Keys
  BY SupplyStep, KeycloakStep DEF KeycloakTypeOK
<1>n. \A n \in Int : Within(n, NextKey, OneToken) => NextOK(n)
  BY NextKeyStep
<1>c. \A n \in Int, k \in Keys : Within(n, k, NoneComes(k)) => CallOK(n, k)
  BY CallingBudgetStep
<1>h. \A d \in Callers : Calling(d) => held[d] \in Tokens /\ held[d].key \in Keys
                                        /\ held[d].key <= signing
  BY <1>0 DEF TokensFit
<1>g. \A k \in Keys : GoneBelow(retired', k) \in Nat
  BY <1>0, GoneCount
<1>x. NextKey \in Keys /\ (Retired(NextKey) => NextKey < signing) /\ NextKey <= signing
  BY <1>0 DEF NextKey, TokensFit, KeysFit, Retired
<1>1. ASSUME NEW d \in Callers, ~excused'[d]
      PROVE  /\ call'[d] = "getting" => NextOK(tries'[d] - 1)
             /\ call'[d] = "failed" => NextOK(tries'[d])
             /\ Calling(d)' => CallOK(tries'[d] - 1, held'[d].key)
             /\ call'[d] = "error" => tries'[d] <= 2 * GoneBelow(retired', signing')
  <2>0. tries[d] \in Nat /\ tries[d] \in Int /\ tries[d] - 1 \in Int
    BY <1>0
  <2>1. CASE /\ call'[d] = call[d] /\ tries'[d] = tries[d] /\ excused'[d] = excused[d]
             /\ Calling(d) => held'[d] = held[d]
    <3>1. ~excused[d]
      BY <1>1, <2>1
    <3>2. call'[d] = "getting" => NextOK(tries'[d] - 1)
      BY <1>n, <2>0, <2>1, <3>1 DEF BudgetFits
    <3>3. call'[d] = "failed" => NextOK(tries'[d])
      BY <1>n, <2>0, <2>1, <3>1 DEF BudgetFits
    <3>4. Calling(d)' => CallOK(tries'[d] - 1, held'[d].key)
      <4>1. Calling(d)' => Calling(d)
        BY <2>1 DEF Calling
      <4>2. Calling(d) => Within(tries[d] - 1, held[d].key, NoneComes(held[d].key))
        BY <3>1 DEF BudgetFits
      <4> QED
        BY <1>c, <1>h, <2>0, <2>1, <4>1, <4>2
    <3>5. call'[d] = "error" => tries'[d] <= 2 * GoneBelow(retired', signing')
      <4>1. GoneBelow(retired, signing) <= GoneBelow(retired', signing')
            /\ GoneBelow(retired, signing) \in Nat /\ GoneBelow(retired', signing') \in Nat
        BY <1>0, <1>k, <1>s, GoneCount
      <4>2. call[d] = "error" => tries[d] <= 2 * GoneBelow(retired, signing)
        BY <3>1 DEF BudgetFits
      <4> QED
        BY <2>0, <2>1, <4>1, <4>2
    <3> QED
      BY <3>2, <3>3, <3>4, <3>5
  <2>2. CASE call[d] = "idle" /\ call'[d] = "getting" /\ tries'[d] = 1
    <3>1. NextKey' \in Keys
      <4>1. /\ token' \in Tokens \cup {NoToken} /\ reply' \in Tokens \cup {NoToken}
        BY ProviderStep DEF ServiceTokenTypeOK, Tokens, Keys
      <4> QED
        BY <1>0, <1>s, <4>1 DEF NextKey
    <3>2. NextOK(0)
      BY <1>g, <3>1
    <3>3. ~Calling(d)'
      BY <2>2 DEF Calling
    <3> QED
      BY <2>2, <3>2, <3>3
  <2>3. CASE /\ call[d] = "getting" /\ call'[d] = "holding" /\ Get(d) /\ held'[d] = token'
             /\ tries'[d] = tries[d] /\ excused'[d] = excused[d]
    <3>1. NextOK(tries[d] - 1)
      BY <1>1, <1>n, <2>0, <2>3 DEF BudgetFits
    <3>2. token' \in Tokens /\ reply' = NoToken
      BY <2>3, SupplyStep
    <3>3. NextKey' = held'[d].key
      BY <1>0, <2>3, <3>2 DEF NextKey
    <3>4. CallOK(tries[d] - 1, held'[d].key)
      BY <3>1, <3>2, <3>3
    <3> QED
      BY <2>3, <3>4
  <2>4. CASE call[d] = "getting" /\ call'[d] = "failed" /\ excused'[d]
    BY <1>1, <2>4
  <2>5. CASE /\ call[d] = "holding" /\ call'[d] = "checking" /\ held'[d] = held[d]
             /\ tries'[d] = tries[d] /\ excused'[d] = excused[d]
    <3>1. Calling(d) /\ ~excused[d]
      BY <1>1, <2>5 DEF Calling
    <3>2. Within(tries[d] - 1, held[d].key, NoneComes(held[d].key))
      BY <3>1 DEF BudgetFits
    <3>3. CallOK(tries[d] - 1, held[d].key)
      BY <1>c, <1>h, <2>0, <3>1, <3>2
    <3> QED
      BY <2>5, <3>3
  <2>6. CASE /\ call[d] = "checking" /\ call'[d] = "failed" /\ check[d] = "rejected"
             /\ tries'[d] = tries[d]
             /\ token' = NoToken /\ reply' = reply /\ UNCHANGED keycloak
             /\ excused'[d] \/ (misses[d] < 2 /\ excused'[d] = excused[d])
    <3> DEFINE k == held[d].key
    <3>1. ~excused[d] /\ Retired(k) /\ Calling(d)
      BY <1>1, <2>6 DEF RefusalsFit, Calling
    <3>2. k \in Keys /\ k < signing
      BY <1>0, <1>h, <3>1 DEF KeysFit, Retired
    <3>3. Within(tries[d] - 1, k, NoneComes(k))
      BY <3>1 DEF BudgetFits
    <3>4. signing' = signing /\ retired' = retired
      BY <2>6 DEF keycloak
    <3>5. OneToken' /\ NextKey' = IF reply # NoToken THEN reply.key ELSE signing
      BY <2>6, <3>4 DEF OneToken, NextKey
    <3>6. NextKey' \in Keys /\ k <= NextKey' /\ (NoneComes(k) => k < NextKey')
      <4>1. reply # NoToken => reply \in Tokens /\ k <= reply.key
        BY <1>0, <3>1 DEF TokensFit
      <4> QED
        BY <1>0, <3>2, <3>5, <4>1 DEF NoneComes
    <3> DEFINE m == NextKey'
    <3> HIDE DEF k, m
    <3>7. /\ GoneBelow(retired, k) \in Nat /\ GoneBelow(retired, m) \in Nat
          /\ GoneBelow(retired, k) <= GoneBelow(retired, m)
          /\ k < m => GoneBelow(retired, k) + 1 <= GoneBelow(retired, m)
      <4>1. m \in Int /\ k \in Int /\ k <= m /\ k \in Keys
        BY <1>0, <3>2, <3>6 DEF m
      <4>2. retired[k] # Never
        BY <3>1 DEF k, Retired
      <4> QED
        BY <4>1, <4>2, GoneCount
    <3>8. \/ tries[d] - 1 <= 2 * GoneBelow(retired, k)
          \/ NoneComes(k) /\ tries[d] - 1 <= 2 * GoneBelow(retired, k) + 1
      BY <3>3 DEF Within
    <3>9. \/ tries[d] <= 2 * GoneBelow(retired, m)
          \/ m = k /\ tries[d] <= 2 * GoneBelow(retired, m) + 1
      <4>1. m \in Nat /\ k \in Nat /\ k <= m /\ (NoneComes(k) => k < m)
        BY <1>0, <3>2, <3>6 DEF m
      <4>2. CASE k < m
        BY <2>0, <3>7, <3>8, <4>2
      <4>3. CASE k = m
        BY <2>0, <3>7, <3>8, <4>1, <4>3
      <4> QED
        BY <4>1, <4>2, <4>3
    <3>10. retired[k] # Never
      BY <3>1 DEF k, Retired
    <3>11. NextOK(tries[d])
      BY <3>4, <3>5, <3>9, <3>10 DEF m
    <3> QED
      BY <2>6, <3>11 DEF Calling
  <2>7. CASE /\ call[d] = "failed" /\ call'[d] = "getting" /\ tries'[d] = tries[d] + 1
             /\ excused'[d] = excused[d]
             /\ UNCHANGED <<token, reply, keycloak>>
    <3>1. NextOK(tries[d])
      BY <1>1, <1>n, <2>0, <2>7 DEF BudgetFits
    <3>2. tries'[d] - 1 = tries[d] /\ ~Calling(d)'
      BY <2>0, <2>7 DEF Calling
    <3> QED
      BY <2>7, <3>1, <3>2
  <2>8. CASE /\ call[d] = "failed" /\ call'[d] = "error" /\ tries'[d] = tries[d]
             /\ excused'[d] = excused[d]
             /\ UNCHANGED <<token, reply, keycloak>>
    <3>1. Within(tries[d], NextKey, OneToken)
      BY <1>1, <2>8 DEF BudgetFits
    <3>2. signing' = signing /\ retired' = retired
      BY <2>8 DEF keycloak
    <3> DEFINE m == NextKey
    <3> HIDE DEF m
    <3>3. m \in Keys /\ m \in Int /\ signing \in Int /\ m <= signing /\ (retired[m] # Never => m < signing)
      BY <1>0, <1>x DEF m, Retired
    <3>4. /\ GoneBelow(retired, m) \in Nat /\ GoneBelow(retired, signing) \in Nat
          /\ GoneBelow(retired, m) <= GoneBelow(retired, signing)
          /\ retired[m] # Never => GoneBelow(retired, m) + 1 <= GoneBelow(retired, signing)
      BY <3>3, GoneCount
    <3>5. \/ tries[d] <= 2 * GoneBelow(retired, m)
          \/ retired[m] # Never /\ tries[d] <= 2 * GoneBelow(retired, m) + 1
      BY <3>1 DEF Within, Retired, m
    <3>6. tries[d] <= 2 * GoneBelow(retired, signing)
      BY <2>0, <3>4, <3>5
    <3> QED
      BY <2>8, <3>2, <3>6 DEF Calling
  <2>9. CASE call'[d] \in {"served", "cancelled"}
    BY <2>9 DEF Calling
  <2> HIDE DEF NextOK, CallOK
  <2> QED
    BY <2>1, <2>2, <2>3, <2>4, <2>5, <2>6, <2>7, <2>8, <2>9, CallEffects
<1>2. ASSUME NEW d \in Callers, ~excused'[d]
      PROVE  /\ call'[d] = "getting" => Within(tries[d] - 1, NextKey, OneToken)'
             /\ call'[d] = "failed" => Within(tries[d], NextKey, OneToken)'
             /\ Calling(d)' => Within(tries[d] - 1, held[d].key, NoneComes(held[d].key))'
             /\ call'[d] = "error" => (tries[d] <= 2 * GoneBelow(retired, signing))'
  BY <1>1, <1>2 DEF Within, Retired, NoneComes, GoneBelow, Never, Keys
<1> QED
  BY <1>2 DEF BudgetFits

\* Before the first call there is nothing to account for.
LEMMA RotationInvInit == Init => RotationInv
<1> SUFFICES ASSUME Init PROVE RotationInv
  OBVIOUS
<1>1. TokensFit /\ ExpiryFits /\ RefusalsFit
  BY DEF Init, ServiceTokenInit, TokenValidatorInit, TokensFit, ExpiryFits, RefusalsFit, Calling,
         Fetching
<1>2. BudgetFits
  BY DEF Init, BudgetFits, Calling
<1> QED
  BY <1>1, <1>2 DEF RotationInv

\* A call fails for good after two attempts per key gone by at the least, or
\* excused.
LEMMA BudgetSuffices == KeysInv /\ RotationInv => RotationIsSurvived
<1> SUFFICES ASSUME KeysInv, RotationInv, NEW c \in Callers, call[c] = "error", ~excused[c]
             PROVE  ~(MaxAttempts[c] > 2 * Cardinality({k \in Keys : retired[k] # Never}))
  BY DEF RotationIsSurvived
<1>1. tries[c] <= 2 * GoneBelow(retired, signing) /\ tries[c] = MaxAttempts[c]
  BY DEF RotationInv, BudgetFits, KeysInv, StagesFit
<1>2. {k \in Keys : retired[k] # Never /\ k < signing} = {k \in Keys : retired[k] # Never}
  BY DEF KeysInv, KeysFit
<1>3. MaxAttempts[c] \in Nat /\ signing \in Int
  BY DEF KeysInv, TypeOK, KeycloakTypeOK, Keys
<1>4. GoneBelow(retired, signing) \in Nat
  <2>1. signing <= signing /\ \A k \in Keys : retired[k] # Never => retired[k] # Never
    BY <1>3
  <2> QED
    BY <1>3, <2>1, GoneCount
<1>5. GoneBelow(retired, signing) = Cardinality({k \in Keys : retired[k] # Never})
  BY <1>2 DEF GoneBelow
<1> QED
  BY <1>1, <1>3, <1>4, <1>5

\* However often Keycloak rotates and retires keys, and whatever other callers
\* fetch, keep and drop meanwhile: a call with more than two attempts per retired
\* key fails for good only if Keycloak left it unanswered, provided that the
\* leeway covers the way of a token.
THEOREM RotationsAreSurvived ==
  ASSUME LeewayCoversTheWay
  PROVE  Spec => []RotationIsSurvived
<1>1. Init => KeysInv /\ RotationInv
  BY KeysInvInit, RotationInvInit
<1>2. KeysInv /\ RotationInv /\ [Next]_vars => (KeysInv /\ RotationInv)'
  BY LeewayCoversTheWay, KeysInvStep, TokensStep, ExpiryStep, RefusalsStep, BudgetStep
     DEF RotationInv
<1> QED
  BY <1>1, <1>2, BudgetSuffices, PTL DEF Spec

=============================================================================
