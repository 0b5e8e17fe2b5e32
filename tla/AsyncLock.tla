------------------------------ MODULE AsyncLock ------------------------------
(***************************************************************************)
(* Common/AsyncLock.{h,cpp}: a flag with two condition variables, by which *)
(* one side waits for the other.  FtpServer hands each ServerThread its    *)
(* messages through one lock per thread (module FtpServer).  All           *)
(* ServerThreads share one more, ioLock, around their file operations; it  *)
(* does not exclude them from each other (see module Rename).              *)
(*                                                                         *)
(* The finalize functions change the flag and notify without holding the   *)
(* mutex of the waiting side.  A waiter that has found the flag against it *)
(* may therefore go to sleep after the notification that was meant for it. *)
(*                                                                         *)
(* The module gives the steps of the four functions; the module that uses  *)
(* a lock says where each of its threads stands between them.              *)
(***************************************************************************)
EXTENDS FiniteSets

CONSTANTS
  Locks,   \* the locks
  Users    \* the threads that may wait on one

VARIABLES
  isConsumptionState,  \* lock -> its flag
  tested,              \* users that found the flag against them and are
                       \* about to go to sleep
  readOperation,       \* lock -> users asleep in waitForConsumption
  writeOperation       \* lock -> users asleep in waitForSignalling

lockVars == <<isConsumptionState, tested, readOperation, writeOperation>>

LockInit(l0) ==
  /\ isConsumptionState = [l \in Locks |-> l0]
  /\ tested = {}
  /\ readOperation = [l \in Locks |-> {}]
  /\ writeOperation = [l \in Locks |-> {}]

LockTypeOK ==
  /\ isConsumptionState \in [Locks -> BOOLEAN]
  /\ tested \in SUBSET Users
  /\ readOperation \in [Locks -> SUBSET Users]
  /\ writeOperation \in [Locks -> SUBSET Users]

Asleep(u) == \E l \in Locks : u \in readOperation[l] \union writeOperation[l]
Awake(u)  == u \notin tested /\ ~Asleep(u)

(* Mutant of PassesConsumption and PassesSignalling: a wait without its    *)
(* predicate.                                                              *)
Passes(l, u) == Awake(u)

(* waitForConsumption and waitForSignalling return to u.                   *)
PassesConsumption(l, u) == Awake(u) /\ isConsumptionState[l]
PassesSignalling(l, u)  == Awake(u) /\ ~isConsumptionState[l]

(* The predicate of the wait is false: u first finds it so ...             *)
Test(u) ==
  /\ tested' = tested \union {u}
  /\ UNCHANGED <<isConsumptionState, readOperation, writeOperation>>

(* ... and then sleeps, whatever has become of the flag meanwhile.         *)
SleepForConsumption(l, u) ==
  /\ u \in tested
  /\ tested' = tested \ {u}
  /\ readOperation' = [readOperation EXCEPT ![l] = @ \union {u}]
  /\ UNCHANGED <<isConsumptionState, writeOperation>>

SleepForSignalling(l, u) ==
  /\ u \in tested
  /\ tested' = tested \ {u}
  /\ writeOperation' = [writeOperation EXCEPT ![l] = @ \union {u}]
  /\ UNCHANGED <<isConsumptionState, readOperation>>

BlocksForConsumption(l, u) ==
  \/ Awake(u) /\ ~isConsumptionState[l] /\ Test(u)
  \/ SleepForConsumption(l, u)

BlocksForSignalling(l, u) ==
  \/ Awake(u) /\ isConsumptionState[l] /\ Test(u)
  \/ SleepForSignalling(l, u)

(* First half of finalizeConsumption and finalizeSignalling.               *)
SetConsumptionState(l, b) ==
  /\ isConsumptionState' = [isConsumptionState EXCEPT ![l] = b]
  /\ UNCHANGED <<tested, readOperation, writeOperation>>

(* notify_one on a condition variable with the given sleepers.             *)
Notified(sleepers) ==
  IF sleepers = {} THEN {{}} ELSE {sleepers \ {u} : u \in sleepers}

(* Second half of finalizeConsumption and finalizeSignalling.              *)
NotifyWriter(l) ==
  /\ \E s \in Notified(writeOperation[l]) :
       writeOperation' = [writeOperation EXCEPT ![l] = s]
  /\ UNCHANGED <<isConsumptionState, tested, readOperation>>

NotifyReader(l) ==
  /\ \E s \in Notified(readOperation[l]) :
       readOperation' = [readOperation EXCEPT ![l] = s]
  /\ UNCHANGED <<isConsumptionState, tested, writeOperation>>

(* A condition variable may wake a sleeper that nobody notified.           *)
WakeSpuriously(u) ==
  /\ Asleep(u)
  /\ readOperation' = [l \in Locks |-> readOperation[l] \ {u}]
  /\ writeOperation' = [l \in Locks |-> writeOperation[l] \ {u}]
  /\ UNCHANGED <<isConsumptionState, tested>>

=============================================================================
