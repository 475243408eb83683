---------------------------- MODULE DeadLetters ----------------------------
(***************************************************************************)
(* worker/deadletter.py: the Redis list of tasks that ran out of retries,  *)
(* and requeue_dead_letters, which takes them out one by one.              *)
(*                                                                         *)
(* Operators on the list; Worker makes actions of them.  A letter is the   *)
(* job it would send again.                                                *)
(***************************************************************************)
EXTENDS Integers, Sequences

CONSTANTS
    Jobs,       \* task messages, by what they ask for
    NoLetter    \* no letter

ASSUME LettersAssumption == NoLetter \notin Jobs

VARIABLES
    letters,    \* WORKER__DEAD_LETTER_KEY, oldest first
    hand        \* the letter a running requeue_dead_letters has popped

deadLetters == <<letters, hand>>

LettersTypeOK ==
    /\ letters \in Seq(Jobs)
    /\ hand \in Jobs \cup {NoLetter}

LettersInit ==
    /\ letters = <<>>
    /\ hand = NoLetter

\* rpush of a dead_letter_entry.
PushLetter(job) ==
    /\ letters' = Append(letters, job)
    /\ UNCHANGED hand

\* LPOP, by the only requeue that runs.
PopLetter ==
    /\ hand = NoLetter
    /\ letters # <<>>
    /\ hand' = Head(letters)
    /\ letters' = Tail(letters)

\* send_task raised: LPUSH.
PutBack ==
    /\ hand # NoLetter
    /\ letters' = <<hand>> \o letters
    /\ hand' = NoLetter

\* The letter was sent, or is lost with its requeuer.
HandEmptied ==
    /\ hand # NoLetter
    /\ hand' = NoLetter
    /\ UNCHANGED letters

Lettered(job) ==
    \/ \E i \in DOMAIN letters : letters[i] = job
    \/ hand = job
=============================================================================
