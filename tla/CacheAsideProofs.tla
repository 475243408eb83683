-------------------------- MODULE CacheAsideProofs --------------------------
(***************************************************************************)
(* Theorems about CacheAside, for any readers and writers, with or without *)
(* stampede protection, and whatever Redis, leases and factories do.       *)
(***************************************************************************)
EXTENDS CacheAside, FiniteSetTheorems, TLAPS

USE RolesAssumption, ParametersAssumption DEF Callers, ErrorKinds, Steps, Hit

\* The parts of the state the theorems are about.
Shape ==
    /\ entry \in Nat \cup {NoEntry, Junk}
    /\ source \in Nat
    /\ pc \in [Callers -> Steps]
    /\ val \in [Readers -> Nat]
    /\ got \in [Callers -> Nat \cup {NoEntry, Junk}]
    /\ result \in [Callers -> {"pending", "value"} \cup ErrorKinds]

\* Until a race, what factories have just read is the current version, and only
\* a writer about to delete it leaves an older entry behind.
FreshInv ==
    ~raced => /\ \A c \in Readers : pc[c] = "store" => val[c] = source
              /\ Hit /\ entry # source => \E w \in Writers : pc[w] = "delete"

\* What a reader was given is a version.
GotInv == \A c \in Readers : result[c] = "value" => got[c] \in Nat

IInv == Shape /\ FreshInv /\ GotInv

\* Every step preserves the invariant.
LEMMA IInvStep == IInv /\ [Next]_vars => IInv'
<1> SUFFICES ASSUME IInv, [Next]_vars PROVE IInv'
  OBVIOUS
<1> USE DEF IInv, Shape, FreshInv, GotInv, Goto, Finish
<1>1. ASSUME NEW c \in Readers, FirstLookup(c) PROVE IInv'
  BY <1>1 DEF FirstLookup, Lookup
<1>2. ASSUME NEW c \in Readers, EnterLock(c) PROVE IInv'
  BY <1>2 DEF EnterLock
<1>3. ASSUME NEW c \in Readers, GiveUpLock(c) \/ LockFails(c) PROVE IInv'
  BY <1>3 DEF GiveUpLock, LockFails
<1>4. ASSUME NEW c \in Readers, SecondLookup(c) PROVE IInv'
  BY <1>4 DEF SecondLookup, Lookup
<1>5. ASSUME NEW c \in Readers, FactoryReturns(c) PROVE IInv'
  BY <1>5 DEF FactoryReturns
<1>6. ASSUME NEW c \in Readers, FactoryRaises(c) PROVE IInv'
  BY <1>6 DEF FactoryRaises
<1>7. ASSUME NEW c \in Readers, Store(c) PROVE IInv'
  BY <1>7 DEF Store
<1>8. ASSUME NEW c \in Readers, Unlock(c) PROVE IInv'
  BY <1>8 DEF Unlock
<1>9. ASSUME NEW c \in Readers, LeaseRunsOut(c) \/ StrayRequest(c) PROVE IInv'
  BY <1>9 DEF LeaseRunsOut, StrayRequest, reader
<1>10. ASSUME NEW c \in Readers, CancelReader(c) PROVE IInv'
  BY <1>10 DEF CancelReader
<1>11. ASSUME NEW c \in Writers, Write(c) PROVE IInv'
  <2>1. source' = source + 1 /\ pc'[c] = "delete" /\ UNCHANGED <<entry, val>>
    BY <1>11 DEF Write
  <2>2. ~raced' => ~raced /\ \A r \in Readers : pc'[r] # "store"
    BY <1>11 DEF Write
  <2>3. FreshInv'
    BY <2>1, <2>2
  <2> QED
    BY <1>11, <2>3 DEF Write
<1>12. ASSUME NEW c \in Writers, Delete(c) PROVE IInv'
  BY <1>12 DEF Delete
<1>13. CASE EntryExpires
  BY <1>13 DEF EntryExpires, reader
<1>14. CASE UNCHANGED vars
  BY <1>14 DEF vars
<1> QED
  BY <1>1, <1>2, <1>3, <1>4, <1>5, <1>6, <1>7, <1>8, <1>9, <1>10, <1>11, <1>12,
     <1>13, <1>14
  DEF Next, ReaderStep

\* The invariant holds in every reachable state.
LEMMA IInvariance == Spec => []IInv
<1>1. Init => IInv
  BY DEF Init, IInv, Shape, FreshInv, GotInv
<1>2. IInv /\ [Next]_vars => IInv'
  BY IInvStep
<1> QED
  BY <1>1, <1>2, PTL DEF Spec

\* A cached entry is stale only after a write fell between a factory's read and
\* its SET, or after a delete was lost: no order of lookups, locks and expiries
\* makes it so by itself.
THEOREM StaleOnlyByRace == Spec => []FreshUnlessRaced
<1>1. IInv => FreshUnlessRaced
  BY DEF IInv, FreshInv, FreshUnlessRaced
<1> QED
  BY <1>1, IInvariance, PTL

\* _lookup turns an entry that does not decode into a miss: get_or_set never
\* hands one on.
THEOREM NoJunkForReaders == Spec => []ReadersGetValues
<1>1. IInv => ReadersGetValues
  BY DEF IInv, GotInv, ReadersGetValues
<1> QED
  BY <1>1, IInvariance, PTL
-----------------------------------------------------------------------------
(* Factories that raise no LockAcquireError of their own.                  *)

\* A reader on its way to its factory has not run it, and no exception sends it
\* there again.
RunsInv ==
    \A c \in Readers :
        /\ runs[c] \in {0, 1}
        /\ pc[c] \in {"start", "wait", "locked", "factory"} => runs[c] = 0
        /\ result[c] # "LockAcquireError"

\* Every step preserves it.
LEMMA RunsStep ==
    ASSUME "LockAcquireError" \notin FactoryErrors
    PROVE  Shape /\ runs \in [Readers -> Nat] /\ RunsInv /\ [Next]_vars
           => runs' \in [Readers -> Nat] /\ RunsInv'
<1> DEFINE Runs == runs \in [Readers -> Nat] /\ RunsInv
<1> SUFFICES ASSUME Shape, Runs, [Next]_vars PROVE Runs'
  OBVIOUS
<1> USE DEF Shape, RunsInv, Goto, Finish
<1>1. ASSUME NEW c \in Readers, FirstLookup(c) \/ SecondLookup(c) PROVE Runs'
  BY <1>1 DEF FirstLookup, SecondLookup, Lookup
<1>2. ASSUME NEW c \in Readers, EnterLock(c) \/ GiveUpLock(c) \/ LockFails(c)
      PROVE  Runs'
  BY <1>2 DEF EnterLock, GiveUpLock, LockFails
<1>3. ASSUME NEW c \in Readers, FactoryReturns(c) PROVE Runs'
  BY <1>3 DEF FactoryReturns
<1>4. ASSUME NEW c \in Readers, FactoryRaises(c) PROVE Runs'
  BY <1>4 DEF FactoryRaises
<1>5. ASSUME NEW c \in Readers, Store(c) PROVE Runs'
  BY <1>5 DEF Store
<1>6. ASSUME NEW c \in Readers, Unlock(c) PROVE Runs'
  BY <1>6 DEF Unlock
<1>7. ASSUME NEW c \in Readers, CancelReader(c) PROVE Runs'
  BY <1>7 DEF CancelReader
<1>8. ASSUME NEW c \in Readers, LeaseRunsOut(c) \/ StrayRequest(c) PROVE Runs'
  BY <1>8 DEF LeaseRunsOut, StrayRequest, reader
<1>9. ASSUME NEW w \in Writers, Write(w) \/ Delete(w) PROVE Runs'
  BY <1>9 DEF Write, Delete
<1>10. CASE EntryExpires
  BY <1>10 DEF EntryExpires, reader
<1>11. CASE UNCHANGED vars
  BY <1>11 DEF vars
<1> QED
  BY <1>1, <1>2, <1>3, <1>4, <1>5, <1>6, <1>7, <1>8, <1>9, <1>10, <1>11
  DEF Next, ReaderStep

\* A factory that raises, is cancelled, or loses its lock or Redis is not run a
\* second time for the same caller: only a LockAcquireError of its own does that.
THEOREM FactoriesRunOnce ==
    ASSUME "LockAcquireError" \notin FactoryErrors
    PROVE  Spec => []FactoryRunsOnce
<1> DEFINE Runs == runs \in [Readers -> Nat] /\ RunsInv
<1>1. Init => Runs
  BY DEF Init, RunsInv
<1>2. IInv /\ Runs /\ [Next]_vars => Runs'
  BY RunsStep DEF IInv
<1>3. Runs => FactoryRunsOnce
  BY DEF RunsInv, FactoryRunsOnce
<1> QED
  BY <1>1, <1>2, <1>3, IInvariance, PTL DEF Spec
-----------------------------------------------------------------------------
(* Stampede protection                                                     *)

\* A protected reader between its second lookup and the end of its SET.
Computing(c) == c \in Protected /\ pc[c] \in {"locked", "factory", "store"}

\* At most one session holds the lease.
OneHolder ==
    /\ lease \in [Readers -> {"new", "waiting", "held", "over"}]
    /\ \A c, d \in Readers : lease[c] = "held" /\ lease[d] = "held" => c = d

\* Until a lapse, a reader that computes under the lock holds the lease, one that
\* asks for it waits, and no factory has raised.
LockFits ==
    ~lapsed => \A c \in Readers : /\ Computing(c) => lease[c] = "held"
                                  /\ lease[c] = "waiting" => pc[c] = "wait"
                                  /\ result[c] # "LockAcquireError"

\* Protected readers whose factory ran.
Ran == {c \in Protected : runs[c] > 0}

\* Until a lapse, each run but the last one's is paid for by a drop; the last one's
\* too while the entry is missing and nobody is about to store it, and while
\* a reader is about to run its factory.
RunsArePaid ==
    /\ runs \in [Readers -> Nat]
    /\ drops \in Nat
    /\ ~lapsed =>
         /\ IsFiniteSet(Ran)
         /\ Cardinality(Ran) <= drops + 1
         /\ ~Hit /\ (\A c \in Protected : pc[c] # "store") => Cardinality(Ran) <= drops
         /\ (\E c \in Protected : pc[c] = "factory") => Cardinality(Ran) <= drops

StampedeInv == OneHolder /\ LockFits /\ RunsArePaid

\* Whatever a step does to the leases, the abstract lock allows.
LEMMA LeaseStep == [Next]_vars => [Lock!Next]_lease
<1> SUFFICES ASSUME [Next]_vars PROVE [Lock!Next]_lease
  OBVIOUS
<1> USE DEF Lock!Next
<1>1. ASSUME NEW c \in Readers, ReaderStep(c) PROVE [Lock!Next]_lease
  BY <1>1
  DEF ReaderStep, FirstLookup, Lookup, EnterLock, GiveUpLock, LockFails, SecondLookup,
      FactoryReturns, FactoryRaises, Store, Unlock, CancelReader
<1>2. ASSUME NEW c \in Readers, LeaseRunsOut(c) \/ StrayRequest(c)
      PROVE  [Lock!Next]_lease
  BY <1>2 DEF LeaseRunsOut, StrayRequest
<1>3. ASSUME NEW w \in Writers, Write(w) \/ Delete(w) PROVE UNCHANGED lease
  BY <1>3 DEF Write, Delete
<1>4. CASE EntryExpires \/ UNCHANGED vars
  BY <1>4 DEF EntryExpires, vars
<1> QED
  BY <1>1, <1>2, <1>3, <1>4 DEF Next

\* The abstract lock never has two holders.
LEMMA OneHolderStep == OneHolder /\ [Lock!Next]_lease => OneHolder'
BY DEF OneHolder, Lock!Next, Lock!Request, Lock!Grant, Lock!Abandon, Lock!End, Lock!Move

\* Every step keeps readers and leases together.
LEMMA LockFitsStep ==
    Shape /\ OneHolder /\ LockFits /\ [Next]_vars => LockFits'
<1> SUFFICES ASSUME Shape, OneHolder, LockFits, [Next]_vars, ~lapsed' PROVE LockFits'
  BY DEF LockFits
<1> USE DEF Shape, OneHolder, LockFits, Computing, Goto, Lock!Request, Lock!Grant, Lock!Abandon,
            Lock!End, Lock!Move
<1>1. ASSUME NEW c \in Readers, FirstLookup(c) PROVE LockFits'
  <2>1. CASE Finish(c, "value") /\ UNCHANGED <<lease, lapsed>>
    <3>1. \/ pc' = [pc EXCEPT ![c] = "unlock"]
          \/ pc' = [pc EXCEPT ![c] = "over"]
      BY <2>1 DEF Finish
    <3>2. result' = [result EXCEPT ![c] = "value"]
      BY <2>1 DEF Finish
    <3>3. pc[c] = "start"
      BY <1>1 DEF FirstLookup
    <3> QED
      BY <2>1, <3>1, <3>2, <3>3
  <2>2. CASE c \in Protected /\ pc' = [pc EXCEPT ![c] = "wait"] /\ Lock!Request(c)
             /\ UNCHANGED result
    BY <1>1, <2>2 DEF FirstLookup, Lookup
  <2>3. CASE c \notin Protected /\ pc' = [pc EXCEPT ![c] = "factory"]
             /\ UNCHANGED <<lease, result>>
    BY <1>1, <2>3 DEF FirstLookup, Lookup
  <2> QED
    BY <1>1, <2>1, <2>2, <2>3 DEF FirstLookup, Lookup
<1>2. ASSUME NEW c \in Readers, EnterLock(c) PROVE LockFits'
  BY <1>2 DEF EnterLock
<1>3. ASSUME NEW c \in Readers, SecondLookup(c) PROVE LockFits'
  <2>1. /\ pc[c] = "locked" /\ UNCHANGED lease
        /\ UNCHANGED lapsed \/ lapsed' = (lapsed \/ Hit)
    BY <1>3 DEF SecondLookup, Lookup
  <2>2. \/ pc' = [pc EXCEPT ![c] = "unlock"]
        \/ pc' = [pc EXCEPT ![c] = "over"]
        \/ pc' = [pc EXCEPT ![c] = "factory"]
    BY <1>3 DEF SecondLookup, Lookup, Finish
  <2>3. result' = [result EXCEPT ![c] = "value"] \/ UNCHANGED result
    BY <1>3 DEF SecondLookup, Lookup, Finish
  <2>4. ~lapsed
    BY <2>1
  <2>5. Computing(c)' => lease[c] = "held"
    BY <2>1, <2>4
  <2>6. lease[c] # "waiting" /\ result'[c] # "LockAcquireError"
    BY <2>1, <2>3, <2>4
  <2>7. \A d \in Readers : d # c => pc'[d] = pc[d] /\ result'[d] = result[d]
    BY <2>2, <2>3
  <2> QED
    BY <2>1, <2>4, <2>5, <2>6, <2>7
<1>4. ASSUME NEW c \in Readers, FactoryReturns(c) PROVE LockFits'
  BY <1>4 DEF FactoryReturns
<1>5. ASSUME NEW c \in Readers, Store(c) PROVE LockFits'
  BY <1>5 DEF Store, Finish
<1>6. ASSUME NEW c \in Readers, Unlock(c) PROVE LockFits'
  BY <1>6 DEF Unlock
<1>7. ASSUME NEW c \in Readers, StrayRequest(c) PROVE LockFits'
  BY <1>7 DEF StrayRequest, reader
<1>8. ASSUME NEW c \in Readers, GiveUpLock(c) \/ LockFails(c) \/ FactoryRaises(c)
                                \/ CancelReader(c) \/ LeaseRunsOut(c)
      PROVE  LockFits'
  BY <1>8 DEF GiveUpLock, LockFails, FactoryRaises, CancelReader, LeaseRunsOut
<1>9. ASSUME NEW w \in Writers, Write(w) \/ Delete(w) PROVE LockFits'
  BY <1>9 DEF Write, Delete, Finish
<1>10. CASE EntryExpires
  BY <1>10 DEF EntryExpires, reader
<1>11. CASE UNCHANGED vars
  BY <1>11 DEF vars
<1> QED
  BY <1>1, <1>2, <1>3, <1>4, <1>5, <1>6, <1>7, <1>8, <1>9, <1>10, <1>11
  DEF Next, ReaderStep

\* Every step keeps the runs paid for.
LEMMA PaidStep ==
    Shape /\ OneHolder /\ LockFits /\ RunsArePaid /\ [Next]_vars => RunsArePaid'
<1> SUFFICES ASSUME Shape, OneHolder, LockFits, RunsArePaid, [Next]_vars
             PROVE  RunsArePaid'
  OBVIOUS
<1>1. ~lapsed => Cardinality(Ran) \in Nat
  BY FS_CardinalityType DEF RunsArePaid
<1>2. drops \in Nat /\ runs \in [Readers -> Nat] /\ Protected \subseteq Readers
  BY DEF RunsArePaid
<1>3. ASSUME UNCHANGED <<runs, drops>>, ~lapsed' => ~lapsed,
             ~lapsed' => \A c \in Protected : pc'[c] = "factory" => pc[c] = "factory",
             ~lapsed' => \/ Hit'
                         \/ \E c \in Protected : pc'[c] = "store"
                         \/ ~Hit /\ \A c \in Protected : pc[c] # "store"
      PROVE  RunsArePaid'
  BY <1>3, <1>1, <1>2 DEF RunsArePaid, Ran
<1> USE DEF Shape, Goto
<1>4. ASSUME NEW c \in Readers, FirstLookup(c) PROVE RunsArePaid'
  BY <1>3, <1>4 DEF FirstLookup, Lookup, Finish
<1>5. ASSUME NEW c \in Readers, EnterLock(c) PROVE RunsArePaid'
  BY <1>3, <1>5 DEF EnterLock
<1>6. ASSUME NEW c \in Readers, SecondLookup(c) PROVE RunsArePaid'
  <2>1. CASE pc'[c] = "factory" /\ c \in Protected /\ ~lapsed'
    <3>1. ~Hit /\ ~lapsed /\ UNCHANGED <<runs, drops, entry>>
      <4>1. ~(Finish(c, "value"))
        BY <1>6, <2>1 DEF Finish
      <4>2. lapsed' = (lapsed \/ Hit)
        BY <1>6, <4>1 DEF SecondLookup, Lookup
      <4> QED
        BY <1>6, <2>1, <4>2 DEF SecondLookup
    <3>2. \A d \in Protected : pc[d] # "store"
      BY <1>2, <1>6, <2>1, <3>1 DEF SecondLookup, OneHolder, LockFits, Computing
    <3>3. Cardinality(Ran) <= drops
      BY <3>1, <3>2 DEF RunsArePaid
    <3>4. Ran' = Ran
      BY <3>1 DEF Ran
    <3> QED
      BY <1>1, <1>2, <3>1, <3>3, <3>4 DEF RunsArePaid
  <2>2. CASE ~(pc'[c] = "factory" /\ c \in Protected /\ ~lapsed')
    BY <1>3, <1>6, <2>2 DEF SecondLookup, Lookup, Finish
  <2> QED
    BY <2>1, <2>2
<1>7. ASSUME NEW c \in Readers, FactoryReturns(c) PROVE RunsArePaid'
  <2>1. /\ runs' = [runs EXCEPT ![c] = @ + 1]
        /\ pc' = [pc EXCEPT ![c] = "store"] /\ pc[c] = "factory"
        /\ UNCHANGED <<entry, drops, lapsed>>
    BY <1>7 DEF FactoryReturns
  <2>2. CASE c \in Protected /\ ~lapsed
    <3>1. Ran' = Ran \cup {c}
      BY <1>2, <2>1, <2>2 DEF Ran
    <3>2. Cardinality(Ran) <= drops /\ IsFiniteSet(Ran)
      BY <2>1, <2>2 DEF RunsArePaid
    <3>3. /\ IsFiniteSet(Ran')
          /\ Cardinality(Ran') = Cardinality(Ran) \/ Cardinality(Ran') = Cardinality(Ran) + 1
      BY <3>1, <3>2, FS_AddElement
    <3>4. Cardinality(Ran') <= drops' + 1
      BY <1>1, <1>2, <2>1, <2>2, <3>2, <3>3
    <3>5. pc'[c] = "store"
      BY <2>1
    <3>6. \A d \in Protected : pc'[d] # "factory"
      BY <1>2, <2>1, <2>2 DEF OneHolder, LockFits, Computing
    <3> QED
      BY <1>2, <2>1, <2>2, <3>3, <3>4, <3>5, <3>6 DEF RunsArePaid
  <2>3. CASE c \notin Protected \/ lapsed
    <3>1. c \notin Protected => Ran' = Ran
      BY <1>2, <2>1 DEF Ran
    <3>2. ~lapsed' => \A d \in Protected : pc'[d] = pc[d]
      BY <1>2, <2>1, <2>3
    <3> QED
      BY <1>2, <2>1, <2>3, <3>1, <3>2 DEF RunsArePaid
  <2> QED
    BY <2>2, <2>3
<1>8. ASSUME NEW c \in Readers, Store(c) PROVE RunsArePaid'
  BY <1>3, <1>8 DEF Store, Finish
<1>9. ASSUME NEW c \in Readers, Unlock(c) PROVE RunsArePaid'
  BY <1>3, <1>9 DEF Unlock, LockFits
<1>10. ASSUME NEW c \in Readers,
              GiveUpLock(c) \/ LockFails(c) \/ CancelReader(c) \/ LeaseRunsOut(c)
       PROVE  RunsArePaid'
  BY <1>2, <1>10 DEF GiveUpLock, LockFails, CancelReader, LeaseRunsOut, reader, RunsArePaid
<1>11. ASSUME NEW c \in Readers, FactoryRaises(c) PROVE RunsArePaid'
  BY <1>2, <1>11 DEF FactoryRaises, RunsArePaid
<1>12. ASSUME NEW c \in Readers, StrayRequest(c) PROVE RunsArePaid'
  BY <1>3, <1>12 DEF StrayRequest, reader
<1>13. ASSUME NEW w \in Writers, Write(w) PROVE RunsArePaid'
  BY <1>3, <1>13 DEF Write
<1>14. ASSUME drops' = drops + 1, UNCHANGED <<runs, lapsed>> PROVE RunsArePaid'
  BY <1>1, <1>2, <1>14 DEF RunsArePaid, Ran
<1>15. ASSUME NEW w \in Writers, Delete(w) PROVE RunsArePaid'
  BY <1>14, <1>15 DEF Delete
<1>16. CASE EntryExpires
  BY <1>14, <1>16 DEF EntryExpires, reader
<1>17. CASE UNCHANGED vars
  BY <1>3, <1>17 DEF vars
<1> QED
  BY <1>4, <1>5, <1>6, <1>7, <1>8, <1>9, <1>10, <1>11, <1>12, <1>13, <1>15, <1>16, <1>17
  DEF Next, ReaderStep

\* Stampede protection: however many readers miss at once, the factory runs once
\* for each time the entry went away, until a lease, Redis or a factory fails.
THEOREM StampedesAreStopped == Spec => []OneRunPerMiss
<1>1. Init => StampedeInv
  <2> SUFFICES ASSUME Init PROVE StampedeInv
    OBVIOUS
  <2>1. Ran = {}
    BY DEF Init, Ran
  <2>2. IsFiniteSet(Ran) /\ Cardinality(Ran) = 0
    BY <2>1, FS_EmptySet
  <2> QED
    BY <2>2 DEF Init, Lock!Init, StampedeInv, OneHolder, LockFits, RunsArePaid, Computing
<1>2. IInv /\ StampedeInv /\ [Next]_vars => StampedeInv'
  BY LeaseStep, OneHolderStep, LockFitsStep, PaidStep DEF IInv, StampedeInv
<1>3. StampedeInv => OneRunPerMiss
  BY DEF StampedeInv, RunsArePaid, OneRunPerMiss, Ran
<1> QED
  BY <1>1, <1>2, <1>3, IInvariance, PTL DEF Spec
-----------------------------------------------------------------------------
(* Types                                                                   *)

\* Writers that have written the source.
Written == {w \in Writers : pc[w] # "start"}

\* The source has one version more for each of them.
WritesFit == source = Cardinality(Written)

\* A reader runs its factory at most twice, and a second time outside the lock.
TriesFit ==
    \A c \in Readers :
        /\ pc[c] \in {"start", "wait", "locked"} => runs[c] = 0
        /\ pc[c] = "factory" => runs[c] = 0 \/ (runs[c] = 1 /\ ~inside[c])
        /\ pc[c] = "unlock" => inside[c]
        /\ runs[c] = 2 => ~inside[c]

TypeInv == TypeOK /\ WritesFit /\ TriesFit

\* A finite set of writers has as many versions.
LEMMA VersionTypes ==
    /\ Cardinality(Writers) \in Nat
    /\ Versions \subseteq Nat
    /\ 0 \in Versions
BY FS_CardinalityType DEF Versions

\* What the lock is asked for, its sessions are ready for.
LEMMA LeaseTypes == Lock!TypeOK /\ [Lock!Next]_lease => Lock!TypeOK'
BY DEF Lock!TypeOK, Lock!Next, Lock!Request, Lock!Grant, Lock!Abandon, Lock!End, Lock!Move

\* Steps of readers write nothing.
LEMMA ReadersWriteNothing ==
    ASSUME TypeOK, WritesFit, NEW c \in Readers, NEW to \in Steps, source' = source,
           UNCHANGED pc \/ pc' = [pc EXCEPT ![c] = to]
    PROVE  WritesFit'
<1>1. Written' = Written
  BY DEF Written, TypeOK
<1> QED
  BY <1>1 DEF WritesFit

\* Every step keeps the source at the number of writes.
LEMMA WritesStep == TypeOK /\ WritesFit /\ [Next]_vars => WritesFit' /\ source' \in Versions
<1> SUFFICES ASSUME TypeOK, WritesFit, [Next]_vars PROVE WritesFit' /\ source' \in Versions
  OBVIOUS
<1>1. IsFiniteSet(Written') /\ Cardinality(Written') \in Versions
  <2>1. Written' \subseteq Writers
    BY DEF Written
  <2> QED
    BY <2>1, FS_Subset, FS_CardinalityType DEF Versions
<1>2. SUFFICES WritesFit'
  BY <1>1 DEF WritesFit
<1>3. ASSUME NEW c \in Readers, ReaderStep(c) PROVE WritesFit'
  <2>1. source' = source
    BY <1>3
    DEF ReaderStep, FirstLookup, Lookup, EnterLock, GiveUpLock, LockFails, SecondLookup,
        FactoryReturns, FactoryRaises, Store, Unlock, CancelReader
  <2>2. \E to \in Steps : pc' = [pc EXCEPT ![c] = to]
    BY <1>3
    DEF ReaderStep, FirstLookup, Lookup, EnterLock, GiveUpLock, LockFails, SecondLookup,
        FactoryReturns, FactoryRaises, Store, Unlock, CancelReader, Goto, Finish
  <2> QED
    BY <2>1, <2>2, ReadersWriteNothing
<1>4. ASSUME NEW c \in Readers, LeaseRunsOut(c) \/ StrayRequest(c) PROVE WritesFit'
  BY <1>4, ReadersWriteNothing DEF LeaseRunsOut, StrayRequest, reader
<1>5. ASSUME NEW w \in Writers, Write(w) PROVE WritesFit'
  <2>1. pc[w] = "start" /\ pc' = [pc EXCEPT ![w] = "delete"] /\ source' = source + 1
    BY <1>5 DEF Write, Goto
  <2>2. Written' = Written \cup {w} /\ w \notin Written
    BY <2>1 DEF Written, TypeOK
  <2>3. IsFiniteSet(Written)
    BY FS_Subset DEF Written
  <2>4. Cardinality(Written') = Cardinality(Written) + 1
    BY <2>2, <2>3, FS_AddElement
  <2> QED
    BY <2>1, <2>4 DEF WritesFit
<1>6. ASSUME NEW w \in Writers, Delete(w) PROVE WritesFit'
  <2>1. pc[w] = "delete" /\ source' = source /\ pc' = [pc EXCEPT ![w] = "over"]
    BY <1>6 DEF Delete, Finish, Goto
  <2>2. Written' = Written
    BY <2>1 DEF Written, TypeOK
  <2> QED
    BY <2>1, <2>2 DEF WritesFit
<1>7. CASE EntryExpires \/ UNCHANGED vars
  <2>1. source' = source /\ pc' = pc
    BY <1>7 DEF EntryExpires, reader, vars
  <2> QED
    BY <2>1 DEF WritesFit, Written
<1> QED
  BY <1>3, <1>4, <1>5, <1>6, <1>7 DEF Next

\* What the readers' own variables and the histories hold.
ReaderTypes ==
    /\ entry \in Versions \cup {NoEntry, Junk}
    /\ pc \in [Callers -> Steps]
    /\ inside \in [Readers -> BOOLEAN]
    /\ val \in [Readers -> Versions]
    /\ result \in [Callers -> {"pending", "value"} \cup ErrorKinds]
    /\ got \in [Callers -> Versions \cup {NoEntry, Junk}]
    /\ drops \in Nat
    /\ expiries \in 0 .. MaxExpiries
    /\ raced \in BOOLEAN
    /\ lapsed \in BOOLEAN

\* A lookup keeps them.
LEMMA LookupTypes ==
    ASSUME ReaderTypes, NEW c \in Readers, NEW next \in Steps, Lookup(c, next),
           UNCHANGED <<entry, inside, val, drops, expiries, raced>>
    PROVE  ReaderTypes'
<1> USE DEF ReaderTypes
<1>1. CASE Hit /\ got' = [got EXCEPT ![c] = entry] /\ Finish(c, "value") /\ UNCHANGED lapsed
  BY <1>1 DEF Finish, Goto
<1>2. CASE lapsed' = (lapsed \/ Hit) /\ Goto(c, next) /\ UNCHANGED <<got, result>>
  BY <1>2 DEF Goto
<1> QED
  BY <1>1, <1>2 DEF Lookup

\* Every step of one of the readers keeps them.
LEMMA ReaderTypesStep ==
    ASSUME ReaderTypes, source \in Versions, NEW c \in Readers, ReaderStep(c)
    PROVE  ReaderTypes'
<1>1. CASE FirstLookup(c)
  BY <1>1, LookupTypes DEF FirstLookup
<1>2. CASE SecondLookup(c)
  BY <1>2, LookupTypes DEF SecondLookup
<1> USE DEF ReaderTypes, Goto, Finish
<1>3. CASE EnterLock(c)
  BY <1>3 DEF EnterLock
<1>4. CASE GiveUpLock(c) \/ LockFails(c)
  BY <1>4 DEF GiveUpLock, LockFails
<1>5. CASE FactoryReturns(c)
  BY <1>5 DEF FactoryReturns
<1>6. CASE FactoryRaises(c)
  BY <1>6 DEF FactoryRaises
<1>7. CASE Store(c)
  <2>1. /\ entry' \in {entry, val[c]} /\ lapsed' \in {lapsed, TRUE}
        /\ result' = [result EXCEPT ![c] = "value"]
        /\ got' = [got EXCEPT ![c] = val[c]]
        /\ UNCHANGED <<inside, val, drops, expiries, raced>>
    BY <1>7 DEF Store
  <2>2. pc' \in [Callers -> Steps]
    BY <1>7 DEF Store
  <2>3. result' \in [Callers -> {"pending", "value"} \cup ErrorKinds]
    BY <2>1
  <2>4. got' \in [Callers -> Versions \cup {NoEntry, Junk}]
    BY <2>1
  <2>5. entry' \in Versions \cup {NoEntry, Junk}
    BY <2>1
  <2>6. lapsed' \in BOOLEAN /\ raced' \in BOOLEAN
    BY <2>1
  <2> HIDE DEF Finish, Goto
  <2> QED
    BY <2>1, <2>2, <2>3, <2>4, <2>5, <2>6
<1>8. CASE Unlock(c)
  BY <1>8 DEF Unlock
<1>9. CASE CancelReader(c)
  BY <1>9 DEF CancelReader
<1> QED
  BY <1>1, <1>2, <1>3, <1>4, <1>5, <1>6, <1>7, <1>8, <1>9 DEF ReaderStep

\* A reader that did not run its factory and does not now goes anywhere.
LEMMA TriesMove ==
    ASSUME ReaderTypes, runs \in [Readers -> 0 .. 2], TriesFit, NEW c \in Readers, NEW to,
           UNCHANGED <<runs, inside>>, pc' = [pc EXCEPT ![c] = to],
           runs[c] = 0, to = "unlock" => inside[c]
    PROVE  runs' \in [Readers -> 0 .. 2] /\ TriesFit'
<1>1. pc'[c] = to /\ \A d \in Readers : d # c => pc'[d] = pc[d]
  BY DEF ReaderTypes
<1>2. runs' = runs /\ inside' = inside
  OBVIOUS
<1> QED
  BY <1>1, <1>2 DEF TriesFit

\* Every step of one of the readers keeps the number of runs.
LEMMA TriesStep ==
    ASSUME ReaderTypes, runs \in [Readers -> 0 .. 2], TriesFit,
           NEW c \in Readers, ReaderStep(c)
    PROVE  runs' \in [Readers -> 0 .. 2] /\ TriesFit'
<1> USE DEF ReaderTypes, TriesFit, Goto, Finish
<1>1. CASE FirstLookup(c) \/ SecondLookup(c)
  <2>1. runs[c] = 0 /\ UNCHANGED <<runs, inside>>
    BY <1>1 DEF FirstLookup, SecondLookup
  <2>2. \E to \in Steps : pc' = [pc EXCEPT ![c] = to] /\ (to = "unlock" => inside[c])
    BY <1>1 DEF FirstLookup, SecondLookup, Lookup
  <2> QED
    BY <2>1, <2>2, TriesMove
<1>2. CASE EnterLock(c)
  BY <1>2 DEF EnterLock
<1>3. CASE GiveUpLock(c) \/ LockFails(c)
  <2>1. /\ runs[c] = 0 /\ UNCHANGED <<runs, inside>>
        /\ pc' = [pc EXCEPT ![c] = "factory"]
    BY <1>3 DEF GiveUpLock, LockFails
  <2> QED
    BY <2>1, TriesMove
<1>5. CASE FactoryReturns(c)
  BY <1>5 DEF FactoryReturns
<1>6. CASE FactoryRaises(c)
  BY <1>6 DEF FactoryRaises
<1>7. CASE Store(c)
  BY <1>7 DEF Store
<1>8. CASE Unlock(c)
  BY <1>8 DEF Unlock
<1>9. CASE CancelReader(c)
  BY <1>9 DEF CancelReader
<1> QED
  BY <1>1, <1>2, <1>3, <1>5, <1>6, <1>7, <1>8, <1>9 DEF ReaderStep

\* Every step keeps the types.
LEMMA TypeStep == TypeInv /\ [Next]_vars => TypeInv'
<1> SUFFICES ASSUME TypeInv, [Next]_vars PROVE TypeInv'
  OBVIOUS
<1>1. WritesFit' /\ source' \in Versions
  BY WritesStep DEF TypeInv
<1>2. Lock!TypeOK'
  BY LeaseStep, LeaseTypes DEF TypeInv, TypeOK
<1>3. ASSUME NEW c \in Readers, ReaderStep(c) PROVE TypeInv'
  <2>1. ReaderTypes /\ runs \in [Readers -> 0 .. 2] /\ TriesFit /\ source \in Versions
    BY DEF TypeInv, TypeOK, ReaderTypes
  <2>2. ReaderTypes' /\ runs' \in [Readers -> 0 .. 2] /\ TriesFit'
    BY <1>3, <2>1, ReaderTypesStep, TriesStep
  <2> QED
    BY <1>1, <1>2, <2>2 DEF TypeInv, TypeOK, ReaderTypes
<1>4. ASSUME NEW c \in Readers, LeaseRunsOut(c) \/ StrayRequest(c) PROVE TypeInv'
  <2>1. UNCHANGED <<entry, pc, inside, val, result, got, runs, drops, expiries, raced>>
    BY <1>4 DEF LeaseRunsOut, StrayRequest, reader
  <2>2. lapsed' \in BOOLEAN
    BY <1>4 DEF LeaseRunsOut, StrayRequest, TypeInv, TypeOK
  <2>3. TriesFit'
    BY <2>1 DEF TypeInv, TriesFit
  <2> QED
    BY <1>1, <1>2, <2>1, <2>2, <2>3 DEF TypeInv, TypeOK
<1>5. ASSUME NEW w \in Writers, Write(w) PROVE TypeInv'
  BY <1>1, <1>2, <1>5 DEF Write, Goto, TypeInv, TypeOK, TriesFit
<1>6. ASSUME NEW w \in Writers, Delete(w) PROVE TypeInv'
  <2> USE DEF TypeInv, TypeOK
  <2>1. /\ entry' \in {entry, NoEntry} /\ raced' \in {raced, TRUE}
        /\ drops' = drops + 1
        /\ result' = [result EXCEPT ![w] = "value"]
        /\ pc' = [pc EXCEPT ![w] = "over"]
        /\ UNCHANGED <<inside, val, got, runs, expiries, lapsed>>
    BY <1>6 DEF Delete, Finish, Goto
  <2>2. result' \in [Callers -> {"pending", "value"} \cup ErrorKinds]
    BY <2>1
  <2>3. pc' \in [Callers -> Steps] /\ \A c \in Readers : pc'[c] = pc[c]
    BY <2>1
  <2>4. TriesFit'
    BY <2>1, <2>3 DEF TriesFit
  <2>5. entry' \in Versions \cup {NoEntry, Junk} /\ drops' \in Nat
    BY <2>1
  <2>6. raced' \in BOOLEAN /\ lapsed' \in BOOLEAN /\ inside' \in [Readers -> BOOLEAN]
    BY <2>1
  <2> QED
    BY <1>1, <1>2, <2>1, <2>2, <2>3, <2>4, <2>5, <2>6
<1>7. CASE EntryExpires
  BY <1>1, <1>2, <1>7 DEF EntryExpires, reader, TypeInv, TypeOK, TriesFit
<1>8. CASE UNCHANGED vars
  BY <1>1, <1>2, <1>8 DEF vars, TypeInv, TypeOK, TriesFit
<1> QED
  BY <1>3, <1>4, <1>5, <1>6, <1>7, <1>8 DEF Next

\* Entries, versions and histories stay in their ranges: the source has one
\* version more for each writer, and get_or_set runs a factory at most twice.
THEOREM TypeCorrectness == Spec => []TypeOK
<1>1. Init => TypeInv
  <2> SUFFICES ASSUME Init PROVE TypeInv
    OBVIOUS
  <2>1. Written = {}
    BY DEF Init, Written
  <2>2. WritesFit
    BY <2>1, FS_EmptySet DEF Init, WritesFit
  <2> QED
    <3>1. TypeOK
      <4>1. /\ entry \in Versions \cup {NoEntry, Junk}
            /\ Lock!TypeOK
            /\ source \in Versions
            /\ pc \in [Callers -> Steps]
            /\ val \in [Readers -> Versions]
        BY VersionTypes DEF Init, Lock!Init, Lock!TypeOK
      <4>2. /\ result \in [Callers -> {"pending", "value"} \cup ErrorKinds]
            /\ got \in [Callers -> Versions \cup {NoEntry, Junk}]
            /\ runs \in [Readers -> 0 .. 2]
            /\ drops \in Nat
            /\ expiries \in 0 .. MaxExpiries
        BY DEF Init
      <4>3. inside \in [Readers -> BOOLEAN] /\ raced \in BOOLEAN /\ lapsed \in BOOLEAN
        BY DEF Init
      <4> QED
        BY <4>1, <4>2, <4>3 DEF TypeOK
    <3>2. TriesFit
      BY DEF Init, TriesFit
    <3> QED
      BY <2>2, <3>1, <3>2 DEF TypeInv
<1>2. TypeInv => TypeOK
  BY DEF TypeInv
<1> QED
  BY <1>1, <1>2, TypeStep, PTL DEF Spec
=============================================================================
