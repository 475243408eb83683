---------------------------- MODULE WorkerProofs ----------------------------
(***************************************************************************)
(* Theorems about Worker, for any jobs and processes, any number of        *)
(* retries, of killed runs and of letters sent again.                      *)
(***************************************************************************)
EXTENDS Worker, TLAPS

USE LettersAssumption, WorkerAssumption, IdleAssumption

-----------------------------------------------------------------------------
(* The list of dead letters                                                *)

\* Writing a letter keeps the others.
LEMMA PushKeeps ==
    ASSUME LettersTypeOK, NEW job \in Jobs, PushLetter(job)
    PROVE  /\ LettersTypeOK'
           /\ Lettered(job)'
           /\ \A j \in Jobs : Lettered(j) => Lettered(j)'
<1> USE DEF LettersTypeOK, PushLetter, Lettered
<1>1. LettersTypeOK'
  OBVIOUS
<1>2. letters'[Len(letters) + 1] = job /\ Len(letters) + 1 \in DOMAIN letters'
  OBVIOUS
<1>3. \A i \in DOMAIN letters : i \in DOMAIN letters' /\ letters'[i] = letters[i]
  OBVIOUS
<1> QED
  BY <1>1, <1>2, <1>3

\* Taking the oldest letter keeps it in the hand.
LEMMA PopKeeps ==
    ASSUME LettersTypeOK, PopLetter
    PROVE  /\ LettersTypeOK'
           /\ \A j \in Jobs : Lettered(j) => Lettered(j)'
<1> USE DEF LettersTypeOK, PopLetter, Lettered
<1>1. LettersTypeOK'
  OBVIOUS
<1>2. ASSUME NEW j \in Jobs, Lettered(j) PROVE Lettered(j)'
  <2>1. CASE hand = j
    BY <2>1
  <2>2. ASSUME NEW i \in DOMAIN letters, letters[i] = j PROVE Lettered(j)'
    <3>1. CASE i = 1
      BY <2>2, <3>1
    <3>2. CASE i # 1
      <4>1. i - 1 \in DOMAIN letters' /\ letters'[i - 1] = j
        BY <2>2, <3>2
      <4> QED
        BY <4>1
    <3> QED
      BY <3>1, <3>2
  <2> QED
    BY <1>2, <2>1, <2>2
<1> QED
  BY <1>1, <1>2

\* Putting a letter back keeps it and the others.
LEMMA PutBackKeeps ==
    ASSUME LettersTypeOK, PutBack
    PROVE  /\ LettersTypeOK'
           /\ \A j \in Jobs : Lettered(j) => Lettered(j)'
<1> USE DEF LettersTypeOK, PutBack, Lettered
<1>1. LettersTypeOK'
  OBVIOUS
<1>2. 1 \in DOMAIN letters' /\ letters'[1] = hand
  OBVIOUS
<1>3. \A i \in DOMAIN letters : i + 1 \in DOMAIN letters' /\ letters'[i + 1] = letters[i]
  OBVIOUS
<1> QED
  BY <1>1, <1>2, <1>3

-----------------------------------------------------------------------------
(* Types                                                                   *)

\* A message sent is one more in the queue.
LEMMA SendAdds ==
    ASSUME TypeOK, NEW m \in Messages, Send(m)
    PROVE  /\ queue' \in [Messages -> Nat]
           /\ queue'[m] > 0
           /\ \A n \in Messages : queue[n] > 0 => queue'[n] > 0
BY DEF TypeOK, Send

\* A process that goes on keeps its message.
LEMMA GotoKeeps ==
    ASSUME TypeOK, NEW s \in Slots, run[s] # Idle,
           NEW step \in {"start", "body", "failed", "end"}, Goto(s, step)
    PROVE  /\ run' \in [Slots -> Runs \cup {Idle}]
           /\ run'[s] # Idle /\ run'[s].step = step /\ run'[s].msg = run[s].msg
           /\ \A t \in Slots : t # s => run'[t] = run[t]
           /\ Job(s) \in Jobs
BY DEF TypeOK, Goto, Runs, Messages, Job

\* A process that stops has no message.
LEMMA StopKeeps ==
    ASSUME TypeOK, NEW s \in Slots, run[s] # Idle, run' = [run EXCEPT ![s] = Idle]
    PROVE  /\ run' \in [Slots -> Runs \cup {Idle}]
           /\ run'[s] = Idle
           /\ \A t \in Slots : t # s => run'[t] = run[t]
           /\ run[s].msg \in Messages /\ Job(s) \in Jobs
BY DEF TypeOK, Runs, Messages, Job
\* Every step keeps every type.
LEMMA TypeStep == TypeOK /\ [Next]_vars => TypeOK'
<1> SUFFICES ASSUME TypeOK, [Next]_vars PROVE TypeOK'
  OBVIOUS
<1> USE DEF TypeOK, deadLetters, history
<1>1. ASSUME NEW s \in Slots, ProcessStep(s) PROVE TypeOK'
  <2>1. ASSUME NEW m \in Messages, Deliver(s, m) PROVE TypeOK'
    BY <2>1 DEF Deliver, LettersTypeOK, Runs
  <2>2. CASE Execute(s)
    <3>1. Job(s) \in Jobs /\ run' \in [Slots -> Runs \cup {Idle}]
      BY <2>2, GotoKeeps DEF Execute, At
    <3>2. attempts' \in [Jobs -> Nat] /\ skipped' \subseteq Jobs
      BY <2>2, <3>1 DEF Execute, Tried
    <3>3. lock' \in Slots \cup {Free, Orphan}
      BY <2>2 DEF Execute
    <3> QED
      BY <2>2, <3>1, <3>2, <3>3 DEF Execute, LettersTypeOK
  <2>3. CASE AcquireFails(s)
    <3>1. Job(s) \in Jobs /\ run' \in [Slots -> Runs \cup {Idle}]
      BY <2>3, GotoKeeps DEF AcquireFails, At
    <3>2. attempts' \in [Jobs -> Nat] /\ lock' \in Slots \cup {Free, Orphan}
      BY <2>3, <3>1 DEF AcquireFails, Tried
    <3> QED
      BY <2>3, <3>1, <3>2 DEF AcquireFails, LettersTypeOK
  <2>4. CASE BodyEnds(s)
    BY <2>4, GotoKeeps DEF BodyEnds, At, LettersTypeOK
  <2>5. CASE Retry(s)
    <3>1. [run[s].msg EXCEPT !.tries = @ + 1] \in Messages
      BY <2>5 DEF Retry, At, Runs, Messages
    <3> QED
      BY <2>5, <3>1, SendAdds, GotoKeeps DEF Retry, At, LettersTypeOK
  <2>6. CASE OnTaskFailure(s)
    <3>1. Job(s) \in Jobs
      BY <2>6, GotoKeeps DEF OnTaskFailure, At
    <3>2. LettersTypeOK'
      BY <2>6, <3>1, PushKeeps DEF OnTaskFailure, LettersTypeOK
    <3> QED
      BY <2>6, <3>1, <3>2, GotoKeeps DEF OnTaskFailure, At
  <2>7. CASE Acknowledge(s)
    BY <2>7, StopKeeps DEF Acknowledge, At, LettersTypeOK
  <2> QED
    BY <1>1, <2>1, <2>2, <2>3, <2>4, <2>5, <2>6, <2>7 DEF ProcessStep
<1>2. ASSUME NEW s \in Slots, Kill(s) PROVE TypeOK'
  <2>1. Job(s) \in Jobs /\ run' \in [Slots -> Runs \cup {Idle}] /\ run[s].msg \in Messages
    BY <1>2, StopKeeps DEF Kill
  <2>2. queue' \in [Messages -> Nat]
    BY <1>2, <2>1, SendAdds DEF Kill
  <2>3. kills' \in 0 .. MaxKills /\ killed' \subseteq Jobs
    BY <1>2, <2>1 DEF Kill
  <2>4. lock' \in Slots \cup {Free, Orphan}
    BY <1>2 DEF Kill
  <2> QED
    BY <1>2, <2>1, <2>2, <2>3, <2>4 DEF Kill, LettersTypeOK
<1>3. CASE LockExpires
  BY <1>3 DEF LockExpires, LettersTypeOK
<1>4. CASE Pop
  BY <1>4, PopKeeps DEF Pop
<1>5. CASE SendLetter
  <2>1. hand \in Jobs
    BY <1>5 DEF SendLetter, HandEmptied, LettersTypeOK
  <2>2. [job |-> hand, tries |-> 0] \in Messages
    BY <2>1 DEF Messages
  <2>3. queue' \in [Messages -> Nat]
    BY <1>5, <2>2, SendAdds DEF SendLetter
  <2>4. requeued' \in [Jobs -> Nat]
    BY <1>5, <2>1 DEF SendLetter
  <2>5. LettersTypeOK'
    BY <1>5 DEF SendLetter, HandEmptied, LettersTypeOK
  <2> QED
    BY <1>5, <2>3, <2>4, <2>5 DEF SendLetter
<1>6. CASE SendLetterFails
  BY <1>6, PutBackKeeps DEF SendLetterFails
<1>7. CASE LoseLetter
  BY <1>7 DEF LoseLetter, HandEmptied, LettersTypeOK
<1>8. CASE UNCHANGED vars
  BY <1>8 DEF vars, LettersTypeOK
<1> QED
  BY <1>1, <1>2, <1>3, <1>4, <1>5, <1>6, <1>7, <1>8 DEF Next, Requeue

\* Every variable keeps its type.
THEOREM TypeCorrectness == Spec => []TypeOK
<1>1. Init => TypeOK
  <2> SUFFICES ASSUME Init PROVE TypeOK
    OBVIOUS
  <2>1. LettersTypeOK
    BY DEF Init, LettersInit, LettersTypeOK
  <2> QED
    BY <2>1 DEF Init, TypeOK
<1> QED
  BY <1>1, TypeStep, PTL DEF Spec

-----------------------------------------------------------------------------
(* The lock                                                                *)

\* The body of a locked job runs with the lock in its process's hands.
BodyHoldsLock ==
    \A s \in Slots : At(s, "body") /\ Job(s) \in Locked => lock = s

\* Every step keeps it so: only Redis takes a lock away, and only one nobody holds.
LEMMA LockStep == TypeOK /\ BodyHoldsLock /\ [Next]_vars => BodyHoldsLock'
<1> SUFFICES ASSUME TypeOK, BodyHoldsLock, [Next]_vars PROVE BodyHoldsLock'
  OBVIOUS
<1> USE DEF BodyHoldsLock, At, Job
<1>1. ASSUME NEW s \in Slots, ProcessStep(s) PROVE BodyHoldsLock'
  <2>1. ASSUME NEW m \in Messages, Deliver(s, m) PROVE BodyHoldsLock'
    BY <2>1 DEF Deliver, TypeOK
  <2>2. CASE Execute(s)
    BY <2>2, GotoKeeps DEF Execute
  <2>3. CASE AcquireFails(s)
    BY <2>3, GotoKeeps DEF AcquireFails
  <2>4. CASE BodyEnds(s)
    BY <2>4, GotoKeeps DEF BodyEnds
  <2>5. CASE Retry(s)
    BY <2>5, GotoKeeps DEF Retry
  <2>6. CASE OnTaskFailure(s)
    BY <2>6, GotoKeeps DEF OnTaskFailure
  <2>7. CASE Acknowledge(s)
    BY <2>7, StopKeeps DEF Acknowledge
  <2> QED
    BY <1>1, <2>1, <2>2, <2>3, <2>4, <2>5, <2>6, <2>7 DEF ProcessStep
<1>2. ASSUME NEW s \in Slots, Kill(s) PROVE BodyHoldsLock'
  BY <1>2, StopKeeps DEF Kill
<1>3. CASE LockExpires
  BY <1>3 DEF LockExpires
<1>4. CASE Pop \/ Requeue
  BY <1>4 DEF Pop, Requeue, SendLetter, SendLetterFails, LoseLetter
<1>5. CASE UNCHANGED vars
  BY <1>5 DEF vars
<1> QED
  BY <1>1, <1>2, <1>3, <1>4, <1>5 DEF Next

\* Bodies of a task with lock=True never overlap, whatever is killed, redelivered
\* or sent again, as long as the lock extends itself.
THEOREM LockedRunsExclude == Spec => []LockedRunAlone
<1>1. Init => BodyHoldsLock
  BY DEF Init, BodyHoldsLock, At
<1>2. BodyHoldsLock => LockedRunAlone
  BY DEF BodyHoldsLock, LockedRunAlone
<1> QED
  BY <1>1, <1>2, LockStep, TypeCorrectness, PTL DEF Spec

-----------------------------------------------------------------------------
(* What becomes of a job                                                   *)

\* A job is settled, in a letter, in the queue, or in a run that has not
\* decided yet.  A run about to be acknowledged does not count.
InHand(j) ==
    \/ j \in done \cup skipped \cup lost
    \/ Lettered(j)
    \/ \E m \in Messages : m.job = j /\ queue[m] > 0
    \/ \E s \in Slots : run[s] # Idle /\ Job(s) = j /\ run[s].step # "end"

EveryJobInHand == \A j \in Jobs : InHand(j)
\* A letter that stays where it is still is one.
LEMMA LettersStay ==
    ASSUME UNCHANGED deadLetters
    PROVE  \A j \in Jobs : Lettered(j) => Lettered(j)'
BY DEF deadLetters, Lettered

\* Every step keeps every job in hand: what leaves one place is in the next
\* before the run that moved it can be acknowledged.
LEMMA InHandStep == TypeOK /\ EveryJobInHand /\ [Next]_vars => EveryJobInHand'
<1> SUFFICES ASSUME TypeOK, [Next]_vars, NEW j \in Jobs, InHand(j) PROVE InHand(j)'
  BY DEF EveryJobInHand
<1> USE DEF InHand, At
<1>0. LettersTypeOK
  BY DEF TypeOK
<1>1. ASSUME NEW s \in Slots, ProcessStep(s) PROVE InHand(j)'
  <2>1. ASSUME NEW m \in Messages, Deliver(s, m) PROVE InHand(j)'
    <3>1. /\ run'[s] = [msg |-> m, step |-> "start"] /\ run'[s] # Idle
          /\ \A t \in Slots : t # s => run'[t] = run[t]
          /\ \A n \in Messages : n # m => queue'[n] = queue[n]
      BY <2>1 DEF Deliver, TypeOK, Runs
    <3>2. m.job = j => InHand(j)'
      BY <3>1 DEF Job
    <3>3. Lettered(j) => Lettered(j)'
      BY <2>1, LettersStay DEF Deliver
    <3> QED
      BY <2>1, <3>1, <3>2, <3>3 DEF Deliver, Job
  <2>2. CASE Execute(s)
    BY <2>2, GotoKeeps, LettersStay DEF Execute, Job
  <2>3. CASE AcquireFails(s)
    BY <2>3, GotoKeeps, LettersStay DEF AcquireFails, Job
  <2>4. CASE BodyEnds(s)
    BY <2>4, GotoKeeps, LettersStay DEF BodyEnds, Job
  <2>5. CASE Retry(s)
    <3>1. /\ [run[s].msg EXCEPT !.tries = @ + 1] \in Messages
          /\ [run[s].msg EXCEPT !.tries = @ + 1].job = Job(s)
      BY <2>5 DEF Retry, TypeOK, Runs, Messages, Job
    <3>2. Job(s) = j => \E m \in Messages : m.job = j /\ queue'[m] > 0
      BY <2>5, <3>1, SendAdds DEF Retry
    <3> QED
      BY <2>5, <3>1, <3>2, SendAdds, GotoKeeps, LettersStay DEF Retry, Job
  <2>6. CASE OnTaskFailure(s)
    <3>1. Job(s) \in Jobs
      BY <2>6, GotoKeeps DEF OnTaskFailure
    <3>2. Job(s) = j => Lettered(j)' \/ j \in lost'
      BY <2>6, <1>0, <3>1, PushKeeps DEF OnTaskFailure
    <3>3. Lettered(j) => Lettered(j)'
      BY <2>6, <1>0, <3>1, PushKeeps, LettersStay DEF OnTaskFailure
    <3> QED
      BY <2>6, <3>2, <3>3, GotoKeeps DEF OnTaskFailure, Job
  <2>7. CASE Acknowledge(s)
    BY <2>7, StopKeeps, LettersStay DEF Acknowledge, Job
  <2> QED
    BY <1>1, <2>1, <2>2, <2>3, <2>4, <2>5, <2>6, <2>7 DEF ProcessStep
<1>2. ASSUME NEW s \in Slots, Kill(s) PROVE InHand(j)'
  <2>1. Job(s) = j => \E m \in Messages : m.job = j /\ queue'[m] > 0
    BY <1>2, StopKeeps, SendAdds DEF Kill, Job
  <2> QED
    BY <1>2, <2>1, StopKeeps, SendAdds, LettersStay DEF Kill, Job
<1>3. CASE LockExpires
  BY <1>3, LettersStay DEF LockExpires, Job
<1>4. CASE Pop
  BY <1>0, <1>4, PopKeeps DEF Pop, Job
<1>5. CASE SendLetter
  <2>1. hand \in Jobs /\ [job |-> hand, tries |-> 0] \in Messages
    BY <1>0, <1>5 DEF SendLetter, HandEmptied, LettersTypeOK, Messages
  <2>2. hand = j => \E m \in Messages : m.job = j /\ queue'[m] > 0
    BY <1>5, <2>1, SendAdds DEF SendLetter
  <2>3. hand # j /\ Lettered(j) => Lettered(j)'
    BY <1>5 DEF SendLetter, HandEmptied, Lettered
  <2> QED
    BY <1>5, <2>1, <2>2, <2>3, SendAdds DEF SendLetter, Job
<1>6. CASE SendLetterFails
  BY <1>0, <1>6, PutBackKeeps DEF SendLetterFails, Job
<1>7. CASE LoseLetter
  <2>1. hand # j /\ Lettered(j) => Lettered(j)'
    BY <1>7 DEF LoseLetter, HandEmptied, Lettered
  <2>2. hand = j => j \in lost'
    BY <1>7 DEF LoseLetter
  <2> QED
    BY <1>7, <2>1, <2>2 DEF LoseLetter, Lettered, Job
<1>8. CASE UNCHANGED vars
  BY <1>8, LettersStay DEF vars, Job, deadLetters, history
<1> QED
  BY <1>1, <1>2, <1>3, <1>4, <1>5, <1>6, <1>7, <1>8 DEF Next, Requeue

\* No job is forgotten: acknowledged late, redelivered, retried, written down as
\* a letter or sent again, it is always somewhere.
THEOREM JobsAreKept == Spec => []NoJobForgotten
<1>1. Init => EveryJobInHand
  <2> SUFFICES ASSUME Init, NEW j \in Jobs PROVE InHand(j)
    BY DEF EveryJobInHand
  <2>1. [job |-> j, tries |-> 0] \in Messages
    BY DEF Messages
  <2>2. queue[[job |-> j, tries |-> 0]] = 1
    BY <2>1 DEF Init
  <2> QED
    BY <2>1, <2>2 DEF InHand
<1>2. EveryJobInHand => NoJobForgotten
  BY DEF EveryJobInHand, InHand, NoJobForgotten, Pending
<1> QED
  BY <1>1, <1>2, InHandStep, TypeCorrectness, PTL DEF Spec
-----------------------------------------------------------------------------
(* The count of tries                                                      *)

\* As many tries as n rounds have.
Rounds(n) == (MaxRetries + 1) * n

Queued(m, j) == m.job = j /\ queue[m] > 0

\* The process runs the job and has not decided what becomes of it.
Live(s, j) == run[s] # Idle /\ Job(s) = j /\ run[s].step # "end"

InLetters(j) == \E i \in DOMAIN letters : letters[i] = j

\* A job is in one place: once in the queue, in one process, or in one letter.
InOnePlace(j) ==
    /\ \A m \in Messages : Queued(m, j) =>
         /\ queue[m] = 1
         /\ \A n \in Messages : Queued(n, j) => n = m
         /\ \A s \in Slots : ~Live(s, j)
         /\ ~Lettered(j)
    /\ \A s \in Slots : Live(s, j) =>
         /\ \A t \in Slots : Live(t, j) => t = s
         /\ ~Lettered(j)
    /\ \A i, k \in DOMAIN letters : letters[i] = j /\ letters[k] = j => i = k
    /\ hand = j => ~InLetters(j)

\* What its message has counted is what the current round has tried.
TriesFit(j) ==
    /\ \A m \in Messages : Queued(m, j) =>
         /\ failures[j] = requeued[j]
         /\ attempts[j] = Rounds(requeued[j]) + m.tries
    /\ \A s \in Slots : Live(s, j) =>
         /\ failures[j] = requeued[j]
         /\ attempts[j] = Rounds(requeued[j]) + run[s].msg.tries
                          + (IF run[s].step = "start" THEN 0 ELSE 1)
    /\ Lettered(j) =>
         /\ failures[j] = requeued[j] + 1
         /\ attempts[j] = Rounds(requeued[j] + 1)
    /\ Rounds(failures[j]) <= attempts[j]
    /\ attempts[j] <= Rounds(requeued[j] + 1)

RoundsFit == \A j \in Jobs : j \in killed \/ (InOnePlace(j) /\ TriesFit(j))

\* One more round has MaxRetries + 1 more tries.
LEMMA RoundsGrow ==
    \A n \in Nat : Rounds(n) \in Nat /\ Rounds(n + 1) = Rounds(n) + MaxRetries + 1
<1> TAKE n \in Nat
<1>1. (MaxRetries + 1) * (n + 1) = (MaxRetries + 1) * n + MaxRetries + 1
  OBVIOUS
<1>2. (MaxRetries + 1) * n \in Nat
  OBVIOUS
<1> QED
  BY <1>1, <1>2 DEF Rounds

\* Nothing was sent yet: each job is in the queue, never tried.
LEMMA InitRoundsFit == Init => RoundsFit
<1> SUFFICES ASSUME Init, NEW j \in Jobs PROVE InOnePlace(j) /\ TriesFit(j)
  BY DEF RoundsFit
<1>1. /\ \A s \in Slots : ~Live(s, j)
      /\ ~Lettered(j) /\ ~InLetters(j)
  BY DEF Init, LettersInit, Live, Lettered, InLetters
<1>2. \A m \in Messages : Queued(m, j) => queue[m] = 1 /\ m = [job |-> j, tries |-> 0]
  BY DEF Init, Queued, Messages
<1>3. InOnePlace(j)
  BY <1>1, <1>2 DEF InOnePlace, Init, LettersInit
<1>4. /\ attempts[j] = 0 /\ failures[j] = 0 /\ requeued[j] = 0
      /\ Rounds(0) = 0 /\ Rounds(0 + 1) = MaxRetries + 1
  BY RoundsGrow DEF Init, Rounds
<1>5. TriesFit(j)
  <2>1. \A m \in Messages : Queued(m, j) => m.tries = 0
    BY <1>2
  <2>2. Rounds(failures[j]) <= attempts[j] /\ attempts[j] <= Rounds(requeued[j] + 1)
    BY <1>4
  <2> QED
    BY <1>1, <1>4, <2>1, <2>2 DEF TriesFit
<1> QED
  BY <1>3, <1>5

\* The counters of a job stay.
SameCounts(j) ==
    /\ attempts'[j] = attempts[j]
    /\ failures'[j] = failures[j]
    /\ requeued'[j] = requeued[j]

\* A job stays where it is when another moves.
LEMMA OthersStay ==
    ASSUME TypeOK, NEW s \in Slots, NEW j \in Jobs, InOnePlace(j), TriesFit(j),
           \A t \in Slots : t # s => run'[t] = run[t],
           ~Live(s, j), ~Live(s, j)',
           \A m \in Messages : m.job = j => queue'[m] = queue[m],
           hand' = hand,
           \/ letters' = letters
           \/ \E other \in Jobs : other # j /\ letters' = Append(letters, other),
           SameCounts(j)
    PROVE  InOnePlace(j)' /\ TriesFit(j)'
<1>1. \A m \in Messages : (Queued(m, j)' <=> Queued(m, j)) /\ (m.job = j => queue'[m] = queue[m])
  BY DEF Queued
<1>2. \A t \in Slots : /\ Live(t, j)' <=> Live(t, j)
                       /\ Live(t, j) => run'[t] = run[t]
  BY DEF Live, Job
<1>3. /\ InLetters(j)' <=> InLetters(j)
      /\ \A i, k \in DOMAIN letters' : letters'[i] = j /\ letters'[k] = j => i = k
  <2>1. CASE letters' = letters
    BY <2>1 DEF InLetters, InOnePlace
  <2>2. ASSUME NEW other \in Jobs, other # j, letters' = Append(letters, other)
        PROVE  <1>3
    <3>1. letters \in Seq(Jobs)
      BY DEF TypeOK, LettersTypeOK
    <3>2. /\ \A i \in DOMAIN letters : i \in DOMAIN letters' /\ letters'[i] = letters[i]
          /\ \A i \in DOMAIN letters' : letters'[i] = j => i \in DOMAIN letters
      BY <2>2, <3>1
    <3> QED
      BY <3>2 DEF InLetters, InOnePlace
  <2> QED
    BY <2>1, <2>2
<1>4. Lettered(j)' <=> Lettered(j)
  BY <1>3 DEF Lettered, InLetters
<1>5. InOnePlace(j)'
  BY <1>1, <1>2, <1>3, <1>4 DEF InOnePlace, Queued
<1>6. TriesFit(j)'
  BY <1>1, <1>2, <1>4 DEF TriesFit, SameCounts
<1> QED
  BY <1>5, <1>6

\* A job that only one process has, in its current round.
LEMMA OnlyLive ==
    ASSUME NEW s \in Slots, NEW j \in Jobs,
           \A m \in Messages : ~Queued(m, j)',
           \A t \in Slots : Live(t, j)' => t = s,
           ~Lettered(j)',
           requeued'[j] \in Nat, failures'[j] = requeued'[j],
           run'[s].msg.tries \in 0 .. MaxRetries,
           attempts'[j] = Rounds(requeued'[j]) + run'[s].msg.tries
                          + (IF run'[s].step = "start" THEN 0 ELSE 1)
    PROVE  InOnePlace(j)' /\ TriesFit(j)'
<1>1. InOnePlace(j)'
  BY DEF InOnePlace, Lettered, InLetters
<1>2. /\ Rounds(requeued'[j]) \in Nat
      /\ Rounds(requeued'[j] + 1) = Rounds(requeued'[j]) + MaxRetries + 1
  BY RoundsGrow
<1>3. /\ Rounds(failures'[j]) <= attempts'[j]
      /\ attempts'[j] <= Rounds(requeued'[j] + 1)
  BY <1>2
<1> QED
  BY <1>1, <1>3 DEF TriesFit

\* A job that is only in the queue, in its current round.
LEMMA OnlyQueued ==
    ASSUME NEW j \in Jobs, NEW n \in Messages, queue'[n] = 1,
           \A m \in Messages : Queued(m, j)' => m = n,
           \A s \in Slots : ~Live(s, j)',
           ~Lettered(j)',
           requeued'[j] \in Nat, failures'[j] = requeued'[j],
           n.tries \in 0 .. MaxRetries,
           attempts'[j] = Rounds(requeued'[j]) + n.tries
    PROVE  InOnePlace(j)' /\ TriesFit(j)'
<1>1. InOnePlace(j)'
  BY DEF InOnePlace, Lettered, InLetters
<1>2. /\ Rounds(requeued'[j]) \in Nat
      /\ Rounds(requeued'[j] + 1) = Rounds(requeued'[j]) + MaxRetries + 1
  BY RoundsGrow
<1>3. /\ Rounds(failures'[j]) <= attempts'[j]
      /\ attempts'[j] <= Rounds(requeued'[j] + 1)
  BY <1>2
<1> QED
  BY <1>1, <1>3 DEF TriesFit

\* A job that is settled, or whose letter is written.
LEMMA Settled ==
    ASSUME NEW j \in Jobs,
           \A m \in Messages : ~Queued(m, j)',
           \A s \in Slots : ~Live(s, j)',
           \A i, k \in DOMAIN letters' : letters'[i] = j /\ letters'[k] = j => i = k,
           hand' = j => ~InLetters(j)',
           Lettered(j)' => /\ failures'[j] = requeued'[j] + 1
                           /\ attempts'[j] = Rounds(requeued'[j] + 1),
           Rounds(failures'[j]) <= attempts'[j],
           attempts'[j] <= Rounds(requeued'[j] + 1)
    PROVE  InOnePlace(j)' /\ TriesFit(j)'
<1>1. InOnePlace(j)'
  BY DEF InOnePlace
<1> QED
  BY <1>1 DEF TriesFit

\* A process takes the one message of a job.
LEMMA DeliverFits ==
    ASSUME TypeOK, NEW j \in Jobs, InOnePlace(j), TriesFit(j),
           NEW s \in Slots, NEW m \in Messages, Deliver(s, m)
    PROVE  InOnePlace(j)' /\ TriesFit(j)'
<1>1. /\ run'[s] = [msg |-> m, step |-> "start"] /\ run'[s] # Idle /\ run[s] = Idle
      /\ \A t \in Slots : t # s => run'[t] = run[t]
  BY DEF Deliver, TypeOK, Runs
<1>2. queue[m] \in Nat /\ queue[m] > 0 /\ queue'[m] = queue[m] - 1
  BY DEF Deliver, TypeOK
<1>3. \A n \in Messages : n # m => queue'[n] = queue[n]
  BY DEF Deliver, TypeOK
<1>4. UNCHANGED <<letters, hand, attempts, failures, requeued>>
  BY DEF Deliver, deadLetters, history
<1>5. CASE m.job = j
  <2>1. Queued(m, j)
    BY <1>2, <1>5 DEF Queued
  <2>2. /\ queue'[m] = 0
        /\ \A n \in Messages : Queued(n, j) => n = m
        /\ \A t \in Slots : ~Live(t, j)
        /\ ~Lettered(j)
    BY <1>2, <2>1 DEF InOnePlace
  <2>3. \A n \in Messages : ~Queued(n, j)'
    BY <1>3, <2>2 DEF Queued
  <2>4. \A t \in Slots : Live(t, j)' => t = s
    BY <1>1, <2>2 DEF Live, Job
  <2>5. ~Lettered(j)'
    BY <1>4, <2>2 DEF Lettered
  <2>6. requeued[j] \in Nat /\ m.tries \in 0 .. MaxRetries
    BY DEF TypeOK, Messages
  <2>7. failures[j] = requeued[j] /\ attempts[j] = Rounds(requeued[j]) + m.tries
    BY <2>1 DEF TriesFit
  <2>8. Rounds(requeued[j]) \in Nat
    BY <2>6, RoundsGrow
  <2>9. /\ run'[s].msg.tries = m.tries
        /\ attempts'[j] = Rounds(requeued'[j]) + m.tries + (IF run'[s].step = "start" THEN 0 ELSE 1)
    BY <1>1, <1>4, <2>6, <2>7, <2>8
  <2> QED
    BY <1>4, <2>3, <2>4, <2>5, <2>6, <2>7, <2>9, OnlyLive
<1>6. CASE m.job # j
  <2>1. ~Live(s, j) /\ ~Live(s, j)'
    BY <1>1, <1>6 DEF Live, Job
  <2>2. \A n \in Messages : n.job = j => queue'[n] = queue[n]
    BY <1>3, <1>6
  <2> QED
    BY <1>1, <1>4, <2>1, <2>2, OthersStay DEF SameCounts
<1> QED
  BY <1>5, <1>6

\* Where the job of a live run is, and how often it was tried.
LEMMA LiveFits ==
    ASSUME TypeOK, NEW j \in Jobs, InOnePlace(j), TriesFit(j), NEW s \in Slots, Live(s, j)
    PROVE  /\ \A m \in Messages : ~Queued(m, j)
           /\ \A t \in Slots : Live(t, j) => t = s
           /\ ~Lettered(j) /\ ~InLetters(j) /\ hand # j
           /\ failures[j] = requeued[j] /\ requeued[j] \in Nat
           /\ run[s].msg \in Messages /\ run[s].msg.job = j
           /\ run[s].msg.tries \in 0 .. MaxRetries
           /\ run[s].step \in {"start", "body", "failed"}
           /\ Rounds(requeued[j]) \in Nat
           /\ Rounds(requeued[j] + 1) = Rounds(requeued[j]) + MaxRetries + 1
           /\ run[s].step = "start"
              => attempts[j] = Rounds(requeued[j]) + run[s].msg.tries
           /\ run[s].step # "start"
              => attempts[j] = Rounds(requeued[j]) + run[s].msg.tries + 1
<1>1. /\ \A m \in Messages : ~Queued(m, j)
      /\ \A t \in Slots : Live(t, j) => t = s
      /\ ~Lettered(j)
  BY DEF InOnePlace
<1>2. ~InLetters(j) /\ hand # j
  BY <1>1 DEF Lettered, InLetters
<1>3. run[s] \in Runs /\ run[s].step # "end" /\ run[s].msg.job = j
  BY DEF TypeOK, Live, Job
<1>4. /\ run[s].msg \in Messages
      /\ run[s].msg.tries \in 0 .. MaxRetries
      /\ run[s].step \in {"start", "body", "failed"}
  BY <1>3 DEF Runs, Messages
<1>5. requeued[j] \in Nat
  BY DEF TypeOK
<1>6. /\ failures[j] = requeued[j]
      /\ attempts[j] = Rounds(requeued[j]) + run[s].msg.tries
                       + (IF run[s].step = "start" THEN 0 ELSE 1)
  BY DEF TriesFit
<1>7. /\ Rounds(requeued[j]) \in Nat
      /\ Rounds(requeued[j] + 1) = Rounds(requeued[j]) + MaxRetries + 1
  BY <1>5, RoundsGrow
<1> QED
  BY <1>1, <1>2, <1>3, <1>4, <1>5, <1>6, <1>7

\* A live run goes on: its first step takes it past "start", and is a try unless
\* it ends the run.
LEMMA GoesOnFits ==
    ASSUME TypeOK, NEW j \in Jobs, InOnePlace(j), TriesFit(j), NEW s \in Slots, Live(s, j),
           NEW step \in {"body", "failed", "end"}, Goto(s, step),
           UNCHANGED <<queue, letters, hand, failures, requeued>>,
           attempts'[j] = attempts[j]
                          + (IF run[s].step = "start" /\ step # "end" THEN 1 ELSE 0)
    PROVE  InOnePlace(j)' /\ TriesFit(j)'
<1>1. /\ run'[s] # Idle /\ run'[s].step = step /\ run'[s].msg = run[s].msg
      /\ \A t \in Slots : t # s => run'[t] = run[t]
  BY GotoKeeps DEF Live
<1>2. /\ \A m \in Messages : ~Queued(m, j)'
      /\ \A t \in Slots : Live(t, j)' => t = s
      /\ ~Lettered(j)' /\ ~InLetters(j)' /\ hand' # j
  BY <1>1, LiveFits DEF Queued, Live, Job, Lettered, InLetters
<1>3. /\ failures'[j] = requeued'[j] /\ requeued'[j] \in Nat
      /\ run'[s].msg.tries \in 0 .. MaxRetries
      /\ Rounds(requeued'[j]) \in Nat
      /\ Rounds(requeued'[j] + 1) = Rounds(requeued'[j]) + MaxRetries + 1
  BY <1>1, LiveFits
<1>4. CASE step # "end"
  <2>1. attempts'[j] = Rounds(requeued'[j]) + run'[s].msg.tries + 1
    BY <1>1, <1>4, LiveFits
  <2>2. run'[s].step # "start"
    BY <1>1
  <2> QED
    BY <1>2, <1>3, <2>1, <2>2, OnlyLive
<1>5. CASE step = "end"
  <2>1. \A t \in Slots : ~Live(t, j)'
    BY <1>1, <1>2, <1>5 DEF Live
  <2>2. Rounds(failures'[j]) <= attempts'[j] /\ attempts'[j] <= Rounds(requeued'[j] + 1)
    BY <1>1, <1>3, <1>5, LiveFits
  <2>3. \A i, k \in DOMAIN letters' : letters'[i] = j /\ letters'[k] = j => i = k
    BY <1>2 DEF InLetters
  <2> QED
    BY <1>2, <2>1, <2>2, <2>3, Settled
<1> QED
  BY <1>4, <1>5

\* The counters of a job are those before the step, but for the tries of a process.
LEMMA TriedCounts ==
    ASSUME TypeOK, NEW s \in Slots, run[s] # Idle, Tried(s)
    PROVE  /\ attempts'[Job(s)] = attempts[Job(s)] + 1
           /\ \A j \in Jobs : j # Job(s) => attempts'[j] = attempts[j]
<1>1. Job(s) \in Jobs
  BY DEF TypeOK, Runs, Messages, Job
<1> QED
  BY <1>1 DEF TypeOK, Tried

\* Steps of a process that is not one of the job's.
LEMMA OtherRunSteps ==
    ASSUME TypeOK, NEW j \in Jobs, InOnePlace(j), TriesFit(j),
           NEW s \in Slots, run[s] # Idle, Job(s) # j,
           NEW step \in {"start", "body", "failed", "end"}, Goto(s, step),
           \A m \in Messages : m.job = j => queue'[m] = queue[m],
           hand' = hand,
           \/ letters' = letters
           \/ \E other \in Jobs : other # j /\ letters' = Append(letters, other),
           SameCounts(j)
    PROVE  InOnePlace(j)' /\ TriesFit(j)'
<1>1. /\ run'[s] # Idle /\ run'[s].msg = run[s].msg
      /\ \A t \in Slots : t # s => run'[t] = run[t]
  BY GotoKeeps
<1>2. ~Live(s, j) /\ ~Live(s, j)'
  BY <1>1 DEF Live, Job
<1> QED
  BY <1>1, <1>2, OthersStay

\* Trying the job, or skipping it.
LEMMA ExecuteFits ==
    ASSUME TypeOK, NEW j \in Jobs, InOnePlace(j), TriesFit(j),
           NEW s \in Slots, Execute(s) \/ AcquireFails(s)
    PROVE  InOnePlace(j)' /\ TriesFit(j)'
<1>1. At(s, "start") /\ UNCHANGED <<queue, failures, requeued, letters, hand>>
  BY DEF Execute, AcquireFails, deadLetters
<1>2. \/ Tried(s) /\ (Goto(s, "body") \/ Goto(s, "failed"))
      \/ UNCHANGED attempts /\ Goto(s, "end")
  BY DEF Execute, AcquireFails
<1>3. run[s] # Idle /\ run[s].step = "start"
  BY <1>1 DEF At
<1>4. CASE Job(s) = j
  <2>1. Live(s, j)
    BY <1>3, <1>4 DEF Live
  <2>2. CASE Tried(s) /\ (Goto(s, "body") \/ Goto(s, "failed"))
    <3>1. attempts'[j] = attempts[j] + 1
      BY <1>3, <1>4, <2>2, TriedCounts
    <3>2. CASE Goto(s, "body")
      BY <1>1, <1>3, <2>1, <3>1, <3>2, GoesOnFits
    <3>3. CASE Goto(s, "failed")
      BY <1>1, <1>3, <2>1, <3>1, <3>3, GoesOnFits
    <3> QED
      BY <2>2, <3>2, <3>3
  <2>3. CASE UNCHANGED attempts /\ Goto(s, "end")
    <3>1. attempts'[j] = attempts[j] + 0
      BY <2>3 DEF TypeOK
    <3> QED
      BY <1>1, <1>3, <2>1, <2>3, <3>1, GoesOnFits
  <2> QED
    BY <1>2, <2>2, <2>3
<1>5. CASE Job(s) # j
  <2>1. SameCounts(j)
    BY <1>1, <1>2, <1>3, <1>5, TriedCounts DEF SameCounts
  <2> QED
    BY <1>1, <1>2, <1>3, <1>5, <2>1, OtherRunSteps
<1> QED
  BY <1>4, <1>5

\* The body of the job ends.
LEMMA BodyEndsFits ==
    ASSUME TypeOK, NEW j \in Jobs, InOnePlace(j), TriesFit(j), NEW s \in Slots, BodyEnds(s)
    PROVE  InOnePlace(j)' /\ TriesFit(j)'
<1>1. /\ run[s] # Idle /\ run[s].step = "body"
      /\ Goto(s, "end") \/ Goto(s, "failed")
      /\ UNCHANGED <<queue, attempts, failures, requeued, letters, hand>>
  BY DEF BodyEnds, At, deadLetters, history
<1>2. CASE Job(s) = j
  <2>1. Live(s, j)
    BY <1>1, <1>2 DEF Live
  <2>2. attempts'[j] = attempts[j] + 0
    BY <1>1 DEF TypeOK
  <2> QED
    BY <1>1, <2>1, <2>2, GoesOnFits
<1>3. CASE Job(s) # j
  BY <1>1, <1>3, OtherRunSteps DEF SameCounts
<1> QED
  BY <1>2, <1>3

\* A message sent is one more of its own.
LEMMA SendIsOneMore ==
    ASSUME TypeOK, NEW m \in Messages, Send(m)
    PROVE  /\ queue'[m] = queue[m] + 1
           /\ \A n \in Messages : n # m => queue'[n] = queue[n]
BY DEF TypeOK, Send

\* The next try of the job takes the place of this one.
LEMMA RetryFits ==
    ASSUME TypeOK, NEW j \in Jobs, InOnePlace(j), TriesFit(j), NEW s \in Slots, Retry(s)
    PROVE  InOnePlace(j)' /\ TriesFit(j)'
<1> DEFINE next == [run[s].msg EXCEPT !.tries = @ + 1]
<1>1. /\ run[s] # Idle /\ run[s].step = "failed" /\ run[s].msg.tries < MaxRetries
      /\ Send(next) /\ Goto(s, "end")
      /\ UNCHANGED <<attempts, failures, requeued, letters, hand>>
  BY DEF Retry, At, deadLetters, history
<1>2. /\ next \in Messages /\ next.job = Job(s) /\ next.tries = run[s].msg.tries + 1
      /\ run[s].msg.tries \in Nat
  BY <1>1 DEF TypeOK, Runs, Messages, Job
<1> HIDE DEF next
<1>3. /\ queue'[next] = queue[next] + 1
      /\ \A n \in Messages : n # next => queue'[n] = queue[n]
  BY <1>1, <1>2, SendIsOneMore
<1>4. /\ run'[s] # Idle /\ run'[s].step = "end"
      /\ \A t \in Slots : t # s => run'[t] = run[t]
  BY <1>1, GotoKeeps
<1>5. CASE Job(s) = j
  <2>1. Live(s, j)
    BY <1>1, <1>5 DEF Live
  <2>2. queue'[next] = 1
    <3>1. ~Queued(next, j)
      BY <1>2, <2>1, LiveFits
    <3>2. queue[next] \in Nat
      BY <1>2 DEF TypeOK
    <3> QED
      BY <1>2, <1>3, <1>5, <3>1, <3>2 DEF Queued
  <2>3. \A m \in Messages : Queued(m, j)' => m = next
    BY <1>3, <2>1, LiveFits DEF Queued
  <2>4. \A t \in Slots : ~Live(t, j)'
    BY <1>4, <2>1, LiveFits DEF Live, Job
  <2>5. ~Lettered(j)'
    BY <1>1, <2>1, LiveFits DEF Lettered
  <2>6. /\ requeued'[j] \in Nat /\ failures'[j] = requeued'[j]
        /\ next.tries \in 0 .. MaxRetries
    BY <1>1, <1>2, <2>1, LiveFits
  <2>7. attempts'[j] = Rounds(requeued'[j]) + next.tries
    BY <1>1, <1>2, <2>1, LiveFits
  <2> QED
    BY <1>2, <2>2, <2>3, <2>4, <2>5, <2>6, <2>7, OnlyQueued
<1>6. CASE Job(s) # j
  <2>1. \A m \in Messages : m.job = j => queue'[m] = queue[m]
    BY <1>2, <1>3, <1>6
  <2> QED
    BY <1>1, <1>6, <2>1, OtherRunSteps DEF SameCounts
<1> QED
  BY <1>5, <1>6

\* A job out of retries has its letter, or lost it.
LEMMA FailureFits ==
    ASSUME TypeOK, NEW j \in Jobs, InOnePlace(j), TriesFit(j), NEW s \in Slots, OnTaskFailure(s)
    PROVE  InOnePlace(j)' /\ TriesFit(j)'
<1>1. /\ run[s] # Idle /\ run[s].step = "failed" /\ run[s].msg.tries = MaxRetries
      /\ failures' = [failures EXCEPT ![Job(s)] = @ + 1]
      /\ Goto(s, "end")
      /\ UNCHANGED <<queue, attempts, requeued, hand>>
      /\ letters' = letters \/ letters' = Append(letters, Job(s))
  BY DEF OnTaskFailure, At, PushLetter, deadLetters
<1>2. /\ run'[s] # Idle /\ run'[s].step = "end" /\ Job(s) \in Jobs
      /\ \A t \in Slots : t # s => run'[t] = run[t]
  BY <1>1, GotoKeeps
<1>3. letters \in Seq(Jobs)
  BY DEF TypeOK, LettersTypeOK
<1>4. CASE Job(s) = j
  <2>1. Live(s, j)
    BY <1>1, <1>4 DEF Live
  <2>2. /\ \A m \in Messages : ~Queued(m, j)'
        /\ \A t \in Slots : ~Live(t, j)'
        /\ hand' # j
    BY <1>1, <1>2, <2>1, LiveFits DEF Queued, Live, Job
  <2>3. \A i \in DOMAIN letters : letters[i] # j
    BY <2>1, LiveFits DEF InLetters
  <2>4. \A i, k \in DOMAIN letters' : letters'[i] = j /\ letters'[k] = j => i = k
    <3>1. CASE letters' = letters
      BY <2>3, <3>1
    <3>2. CASE letters' = Append(letters, Job(s))
      <4>1. \A i \in DOMAIN letters' : letters'[i] = j => i = Len(letters) + 1
        BY <1>3, <2>3, <3>2
      <4> QED
        BY <4>1
    <3> QED
      BY <1>1, <3>1, <3>2
  <2>5. failures'[j] = failures[j] + 1
    BY <1>1, <1>4 DEF TypeOK
  <2>6. /\ failures'[j] = requeued'[j] + 1
        /\ attempts'[j] = Rounds(requeued'[j] + 1)
        /\ Rounds(requeued'[j] + 1) \in Nat
    BY <1>1, <2>1, <2>5, LiveFits
  <2>7. Rounds(failures'[j]) <= attempts'[j] /\ attempts'[j] <= Rounds(requeued'[j] + 1)
    BY <2>6
  <2> QED
    BY <2>2, <2>4, <2>6, <2>7, Settled
<1>5. CASE Job(s) # j
  <2>1. SameCounts(j)
    BY <1>1, <1>5 DEF SameCounts, TypeOK
  <2> QED
    BY <1>1, <1>2, <1>5, <2>1, OtherRunSteps
<1> QED
  BY <1>4, <1>5

\* A run that stops and decides nothing: acknowledged, or killed with its message
\* back in the queue.
LEMMA StopFits ==
    ASSUME TypeOK, NEW j \in Jobs, InOnePlace(j), TriesFit(j), NEW s \in Slots,
           Acknowledge(s) \/ Kill(s), j \notin killed'
    PROVE  InOnePlace(j)' /\ TriesFit(j)'
<1>1. /\ run[s] # Idle /\ run' = [run EXCEPT ![s] = Idle]
      /\ UNCHANGED <<attempts, failures, requeued, letters, hand>>
  BY DEF Acknowledge, Kill, At, deadLetters, history
<1>2. /\ run'[s] = Idle /\ \A t \in Slots : t # s => run'[t] = run[t]
      /\ run[s].msg \in Messages
  BY <1>1, StopKeeps
<1>3. ~Live(s, j)
  BY DEF Acknowledge, Kill, At, Live
<1>4. ~Live(s, j)'
  BY <1>2 DEF Live
<1>5. \A m \in Messages : m.job = j => queue'[m] = queue[m]
  <2>1. CASE Acknowledge(s)
    BY <2>1 DEF Acknowledge
  <2>2. CASE Kill(s)
    <3>1. run[s].msg.job # j
      BY <2>2 DEF Kill, Job
    <3> QED
      BY <1>2, <2>2, <3>1, SendIsOneMore DEF Kill
  <2> QED
    BY <2>1, <2>2
<1> QED
  BY <1>1, <1>2, <1>3, <1>4, <1>5, OthersStay DEF SameCounts

\* Popping a letter and putting it back keep a job's one letter.
LEMMA LettersFit ==
    ASSUME TypeOK, NEW j \in Jobs, InOnePlace(j), TriesFit(j), Pop \/ SendLetterFails
    PROVE  InOnePlace(j)' /\ TriesFit(j)'
<1>1. UNCHANGED <<queue, run, attempts, failures, requeued>>
  BY DEF Pop, SendLetterFails, history
<1>2. letters \in Seq(Jobs) /\ hand \in Jobs \cup {NoLetter}
  BY DEF TypeOK, LettersTypeOK
<1>3. /\ \A i, k \in DOMAIN letters' : letters'[i] = j /\ letters'[k] = j => i = k
      /\ hand' = j => ~InLetters(j)'
      /\ Lettered(j)' => Lettered(j)
  <2>1. CASE Pop
    <3>1. /\ hand = NoLetter /\ letters # <<>>
          /\ hand' = letters[1] /\ letters' = Tail(letters)
      BY <1>2, <2>1 DEF Pop, PopLetter
    <3>2. \A i \in DOMAIN letters' :
            i \in Nat \ {0} /\ i + 1 \in DOMAIN letters /\ letters'[i] = letters[i + 1]
      BY <1>2, <3>1
    <3>3. 1 \in DOMAIN letters
      BY <1>2, <3>1
    <3>4. \A i, k \in DOMAIN letters : letters[i] = j /\ letters[k] = j => i = k
      BY DEF InOnePlace
    <3>5. \A i, k \in DOMAIN letters' : letters'[i] = j /\ letters'[k] = j => i = k
      <4> SUFFICES ASSUME NEW i \in DOMAIN letters', NEW k \in DOMAIN letters',
                          letters'[i] = j, letters'[k] = j
                   PROVE  i = k
        OBVIOUS
      <4>1. i + 1 = k + 1
        BY <3>2, <3>4
      <4> QED
        BY <3>2, <4>1
    <3>6. hand' = j => ~InLetters(j)'
      <4> SUFFICES ASSUME hand' = j, NEW i \in DOMAIN letters', letters'[i] = j PROVE FALSE
        BY DEF InLetters
      <4>1. i + 1 = 1
        BY <3>1, <3>2, <3>3, <3>4
      <4> QED
        BY <3>2, <4>1
    <3>7. Lettered(j)' => Lettered(j)
      BY <3>1, <3>2, <3>3 DEF Lettered
    <3> QED
      BY <3>5, <3>6, <3>7
  <2>2. CASE SendLetterFails
    <3>1. hand \in Jobs /\ letters' = <<hand>> \o letters /\ hand' = NoLetter
      BY <1>2, <2>2 DEF SendLetterFails, PutBack
    <3>2. \A i \in DOMAIN letters' :
            /\ i \in Nat
            /\ \/ i = 1 /\ letters'[i] = hand
               \/ i - 1 \in DOMAIN letters /\ letters'[i] = letters[i - 1]
      BY <1>2, <3>1
    <3>3. /\ \A i, k \in DOMAIN letters : letters[i] = j /\ letters[k] = j => i = k
          /\ hand = j => \A i \in DOMAIN letters : letters[i] # j
      BY DEF InOnePlace, InLetters
    <3>4. \A i, k \in DOMAIN letters' : letters'[i] = j /\ letters'[k] = j => i = k
      <4> SUFFICES ASSUME NEW i \in DOMAIN letters', NEW k \in DOMAIN letters',
                          letters'[i] = j, letters'[k] = j
                   PROVE  i = k
        OBVIOUS
      <4>1. (i = 1 /\ k = 1) \/ i - 1 = k - 1
        BY <3>2, <3>3
      <4> QED
        BY <3>2, <4>1
    <3>5. hand' # j
      BY <3>1
    <3>6. Lettered(j)' => Lettered(j)
      BY <3>2, <3>5 DEF Lettered
    <3> QED
      BY <3>4, <3>5, <3>6
  <2> QED
    BY <2>1, <2>2
<1>4. /\ \A m \in Messages : Queued(m, j)' <=> Queued(m, j)
      /\ \A t \in Slots : Live(t, j)' <=> Live(t, j)
  BY <1>1 DEF Queued, Live, Job
<1>5. InOnePlace(j)'
  BY <1>1, <1>3, <1>4 DEF InOnePlace
<1>6. TriesFit(j)'
  BY <1>1, <1>3, <1>4 DEF TriesFit
<1> QED
  BY <1>5, <1>6

\* A letter that is sent starts a round; one that is lost ends its job.
LEMMA HandFits ==
    ASSUME TypeOK, NEW j \in Jobs, InOnePlace(j), TriesFit(j), SendLetter \/ LoseLetter
    PROVE  InOnePlace(j)' /\ TriesFit(j)'
<1>1. /\ hand \in Jobs /\ hand' = NoLetter
      /\ UNCHANGED <<run, attempts, failures, letters>>
  BY DEF SendLetter, LoseLetter, HandEmptied, TypeOK, LettersTypeOK, history
<1>2. /\ \A t \in Slots : Live(t, j)' <=> Live(t, j)
      /\ InLetters(j)' <=> InLetters(j)
      /\ hand' # j
  BY <1>1 DEF Live, Job, InLetters
<1>3. \A i, k \in DOMAIN letters' : letters'[i] = j /\ letters'[k] = j => i = k
  BY <1>1 DEF InOnePlace
<1>4. CASE hand = j
  <2>1. Lettered(j) /\ ~InLetters(j)
    BY <1>4 DEF Lettered, InOnePlace
  <2>2. /\ \A m \in Messages : ~Queued(m, j)
        /\ \A t \in Slots : ~Live(t, j)
    BY <2>1 DEF InOnePlace
  <2>3. ~Lettered(j)'
    BY <1>2, <2>1 DEF Lettered, InLetters
  <2>4. /\ failures[j] = requeued[j] + 1
        /\ attempts[j] = Rounds(requeued[j] + 1)
        /\ requeued[j] \in Nat
    BY <2>1 DEF TriesFit, TypeOK
  <2>5. Rounds(requeued[j] + 1) \in Nat
    BY <2>4, RoundsGrow
  <2>6. CASE SendLetter
    <3> DEFINE first == [job |-> j, tries |-> 0]
    <3>1. first \in Messages /\ first.tries = 0 /\ first.job = j /\ Send(first)
      BY <1>4, <2>6 DEF SendLetter, Messages
    <3> HIDE DEF first
    <3>2. /\ queue'[first] = queue[first] + 1
          /\ \A n \in Messages : n # first => queue'[n] = queue[n]
      BY <3>1, SendIsOneMore
    <3>3. queue'[first] = 1
      <4>1. queue[first] \in Nat
        BY <3>1 DEF TypeOK
      <4> QED
        BY <2>2, <3>1, <3>2, <4>1 DEF Queued
    <3>4. \A m \in Messages : Queued(m, j)' => m = first
      BY <2>2, <3>2 DEF Queued
    <3>5. requeued'[j] = requeued[j] + 1
      BY <1>4, <2>6 DEF SendLetter, TypeOK
    <3>6. /\ requeued'[j] \in Nat /\ failures'[j] = requeued'[j]
          /\ attempts'[j] = Rounds(requeued'[j]) + first.tries
      BY <1>1, <2>4, <2>5, <3>1, <3>5
    <3>7. first.tries \in 0 .. MaxRetries
      BY <3>1
    <3>8. \A t \in Slots : ~Live(t, j)'
      BY <1>2, <2>2
    <3> QED
      BY <2>3, <3>1, <3>3, <3>4, <3>6, <3>7, <3>8, OnlyQueued
  <2>7. CASE LoseLetter
    <3>1. UNCHANGED <<queue, requeued>>
      BY <2>7 DEF LoseLetter, history
    <3>2. \A m \in Messages : ~Queued(m, j)'
      BY <2>2, <3>1 DEF Queued
    <3>3. Rounds(failures'[j]) <= attempts'[j] /\ attempts'[j] <= Rounds(requeued'[j] + 1)
      BY <1>1, <2>4, <2>5, <3>1
    <3>4. \A t \in Slots : ~Live(t, j)'
      BY <1>2, <2>2
    <3> QED
      BY <1>2, <1>3, <2>3, <3>2, <3>3, <3>4, Settled
  <2> QED
    BY <2>6, <2>7
<1>5. CASE hand # j
  <2>1. \A m \in Messages : m.job = j => queue'[m] = queue[m]
    <3>1. CASE SendLetter
      <4>1. [job |-> hand, tries |-> 0] \in Messages
        BY <1>1 DEF Messages
      <4> QED
        BY <1>5, <3>1, <4>1, SendIsOneMore DEF SendLetter
    <3>2. CASE LoseLetter
      BY <3>2 DEF LoseLetter
    <3> QED
      BY <3>1, <3>2
  <2>2. requeued'[j] = requeued[j]
    BY <1>1, <1>5 DEF SendLetter, LoseLetter, TypeOK, history
  <2>3. Lettered(j)' <=> Lettered(j)
    BY <1>2, <1>5 DEF Lettered, InLetters
  <2>4. \A m \in Messages : /\ Queued(m, j)' <=> Queued(m, j)
                            /\ Queued(m, j) => queue'[m] = queue[m]
    BY <2>1 DEF Queued
  <2>5. InOnePlace(j)'
    BY <1>2, <1>3, <2>3, <2>4 DEF InOnePlace
  <2>6. TriesFit(j)'
    BY <1>1, <1>2, <2>2, <2>3, <2>4 DEF TriesFit
  <2> QED
    BY <2>5, <2>6
<1> QED
  BY <1>4, <1>5

\* Every step keeps the count.
LEMMA RoundsStep == TypeOK /\ RoundsFit /\ [Next]_vars => RoundsFit'
<1> SUFFICES ASSUME TypeOK, RoundsFit, [Next]_vars, NEW j \in Jobs, j \notin killed'
             PROVE  InOnePlace(j)' /\ TriesFit(j)'
  BY DEF RoundsFit
<1>1. killed \subseteq killed'
  BY DEF Next, ProcessStep, Deliver, Execute, AcquireFails, BodyEnds, Retry, OnTaskFailure,
         Acknowledge, Kill, LockExpires, Pop, Requeue, SendLetter, SendLetterFails,
         LoseLetter, history, vars
<1>2. InOnePlace(j) /\ TriesFit(j)
  BY <1>1 DEF RoundsFit
<1>3. ASSUME NEW s \in Slots, ProcessStep(s) PROVE InOnePlace(j)' /\ TriesFit(j)'
  BY <1>2, <1>3, DeliverFits, ExecuteFits, BodyEndsFits, RetryFits, FailureFits, StopFits
  DEF ProcessStep
<1>4. ASSUME NEW s \in Slots, Kill(s) PROVE InOnePlace(j)' /\ TriesFit(j)'
  BY <1>2, <1>4, StopFits
<1>5. CASE Pop \/ Requeue
  BY <1>2, <1>5, LettersFit, HandFits DEF Requeue
<1>6. CASE LockExpires \/ UNCHANGED vars
  <2>1. UNCHANGED <<queue, run, letters, hand, attempts, failures, requeued>>
    BY <1>6 DEF LockExpires, vars, history, deadLetters
  <2>2. InOnePlace(j)'
    BY <1>2, <2>1 DEF InOnePlace, Queued, Live, Job, Lettered, InLetters
  <2>3. TriesFit(j)'
    BY <1>2, <2>1 DEF TriesFit, Queued, Live, Job, Lettered
  <2> QED
    BY <2>2, <2>3
<1> QED
  BY <1>3, <1>4, <1>5, <1>6 DEF Next

\* No round is given up before its retries, and none has more tries than they
\* allow, unless a run was killed.
THEOREM RoundsAreWhole == Spec => [](\A j \in Jobs : AllTriesUsed(j))
<1>1. RoundsFit => \A j \in Jobs : AllTriesUsed(j)
  BY DEF RoundsFit, TriesFit, AllTriesUsed, Rounds
<1> QED
  BY <1>1, InitRoundsFit, RoundsStep, TypeCorrectness, PTL DEF Spec
=============================================================================
