------------------------------ MODULE FtpServer ------------------------------
(***************************************************************************)
(* UdpServer/FtpServer.cpp and the loop of ServerThread::run: how the main *)
(* thread creates server threads, hands each its messages through a        *)
(* mailbox, and retires it.                                                *)
(*                                                                         *)
(* The mailbox of a thread is the Msg that messages[id] holds, guarded by  *)
(* an AsyncLock.  The main thread waits until the thread has consumed the  *)
(* previous message, whichever client the next one is from.                *)
(*                                                                         *)
(* What a thread does with a message is left to other modules; here it     *)
(* matters only that the first one is taken as the handshake, and that     *)
(* handling takes time.  Messages are numbered in order of arrival.        *)
(***************************************************************************)
EXTENDS AsyncLock, ServerIds, Sequences

CONSTANTS
  Threads,      \* bound: ServerThreads ever created, 1, 2, ...
  MaxMessages   \* bound: messages the server receives

Main == 0

ASSUME FtpServerAssumption ==
  /\ Threads \subseteq Nat \ {Main}
  /\ ClientIds # {}
  /\ Locks = Threads
  /\ Users = Threads \union {Main}
  /\ MaxMessages \in Nat

VARIABLES
  areServerIdsReused,  \* the operator's answer when the server starts
  isThreadActive,  \* server id -> "absent", "active" or "stopped"
  threadLocks,     \* server id -> the thread whose lock it is, Main if none
  request,         \* main: the message being dispatched, and its number
  addressee,       \* main: the thread it is dispatched to
  mainPc,
  threadPc,
  serverId,        \* thread -> its id
  messages,        \* thread -> number of the message in its mailbox
  currentState,
  dispatched,      \* history: thread -> messages put into its mailbox
  handled          \* history: thread -> messages it handled

mainVars   == <<isThreadActive, threadLocks, request, addressee, mainPc>>
threadVars == <<threadPc, serverId, currentState, handled>>
vars == <<lockVars, idVars, mainVars, threadVars, messages, dispatched,
          areServerIdsReused>>

NoRequest ==
  [number  |-> 0,
   message |-> [type |-> "REQUEST", clientId |-> CHOOSE c \in ClientIds : TRUE,
                serverId |-> NULL_SERVER_ID]]

Init ==
  /\ LockInit(TRUE)
  /\ IdsInit
  /\ areServerIdsReused \in BOOLEAN
  /\ isThreadActive = [i \in ServerIds |-> "absent"]
  /\ threadLocks = [i \in ServerIds |-> Main]
  /\ request = NoRequest
  /\ addressee = Main
  /\ mainPc = "getMessage"
  /\ threadPc = [t \in Threads |-> "none"]
  /\ serverId = [t \in Threads |-> NULL_SERVER_ID]
  /\ messages = [t \in Threads |-> 0]
  /\ currentState = [t \in Threads |-> "INITIALIZING"]
  /\ dispatched = [t \in Threads |-> <<>>]
  /\ handled = [t \in Threads |-> <<>>]

ThreadOf(id) == threadLocks[id]

-----------------------------------------------------------------------------
(* The main thread.                                                        *)

(* Clients know the ids of threads that answered them.  NULL_SERVER_ID is  *)
(* also what a client's data packets and their ACKs carry.                 *)
KnownIds == {serverId[t] : t \in {u \in Threads : handled[u] # <<>>}}

Receive(m) ==
  /\ mainPc = "getMessage"
  /\ request.number < MaxMessages
  /\ m.serverId \in KnownIds \union {NULL_SERVER_ID}
  /\ request' = [number |-> request.number + 1, message |-> m]

UnchangedByMain == <<lockVars, threadVars, messages, dispatched>>

(* getServerId of a client without a thread: one is created.               *)
GetFirstMessage(m) ==
  /\ Receive(m)
  /\ ~Known(m.clientId)
  /\ mainPc' = "create"
  /\ UNCHANGED <<UnchangedByMain, idVars, isThreadActive, threadLocks, addressee>>

(* getServerId of a HANDSHAKE with the current id: the thread is told to   *)
(* stop, and woken by dispatching the message to it.                       *)
GetHandshake(m) ==
  /\ Receive(m)
  /\ Retires(m)
  /\ RememberId(m)
  /\ isThreadActive' = [isThreadActive EXCEPT ![m.serverId] = "stopped"]
  /\ addressee' = ThreadOf(m.serverId)
  /\ mainPc' = "retire"
  /\ UNCHANGED <<UnchangedByMain, clientIds, threadLocks>>

(* getServerId of any other message: dispatched or discarded.              *)
GetMessage(m) ==
  /\ Receive(m)
  /\ ~NeedsThread(m)
  /\ IF Resolved(m) = NULL_SERVER_ID
     THEN UNCHANGED <<mainPc, addressee>>
     ELSE mainPc' = "dispatch" /\ addressee' = ThreadOf(Resolved(m))
  /\ UNCHANGED <<UnchangedByMain, idVars, isThreadActive, threadLocks>>

(* Mutant of Inserted: a new entry is inserted as false.                   *)
InsertedInactive(id) ==
  IF isThreadActive[id] = "absent" THEN "stopped" ELSE isThreadActive[id]

(* isThreadActive.insert(make_pair(id, true)) has no effect on an entry    *)
(* that is already there.                                                  *)
Inserted(id) ==
  IF isThreadActive[id] = "absent" THEN "active" ELSE isThreadActive[id]

(* createServerThread, and the rest of getServerId after it.  The loop for *)
(* an id not in threadLocks never ends when there is none.                 *)
CreateServerThread(id, t) ==
  /\ mainPc = "create"
  /\ threadLocks[id] = Main
  /\ threadPc[t] = "none"
  /\ \A u \in Threads : u < t => threadPc[u] # "none"
  /\ EnterId(request.message.clientId, id)
  /\ isThreadActive' = [isThreadActive EXCEPT ![id] = Inserted(id)]
  /\ threadLocks' = [threadLocks EXCEPT ![id] = t]
  /\ serverId' = [serverId EXCEPT ![t] = id]
  /\ threadPc' = [threadPc EXCEPT ![t] = "handle"]
  /\ IF ResolvedByCreator(request.message, id) = NULL_SERVER_ID
     THEN mainPc' = "getMessage" /\ UNCHANGED addressee
     ELSE mainPc' = "dispatch" /\ addressee' = t
  /\ UNCHANGED <<lockVars, request, currentState, handled, messages, dispatched>>

(* dispatchMessage: wait, copy, signal.  "retire" is the call made for a   *)
(* thread that is being replaced.                                          *)
Dispatching == mainPc \in {"dispatch", "retire"}

UnchangedByDispatch ==
  <<idVars, isThreadActive, threadLocks, request, addressee, threadVars>>

MainSleeps ==
  /\ Dispatching \/ mainPc = "erase"
  /\ BlocksForSignalling(addressee, Main)
  /\ UNCHANGED <<idVars, mainVars, threadVars, messages, dispatched>>

Copy ==
  /\ Dispatching
  /\ PassesSignalling(addressee, Main)
  /\ messages' = [messages EXCEPT ![addressee] = request.number]
  /\ dispatched' = [dispatched EXCEPT ![addressee] = Append(@, request.number)]
  /\ mainPc' = IF mainPc = "retire" THEN "signalRetire" ELSE "signal"
  /\ UNCHANGED <<lockVars, UnchangedByDispatch>>

Signal ==
  /\ mainPc \in {"signal", "signalRetire"}
  /\ SetConsumptionState(addressee, TRUE)
  /\ mainPc' = IF mainPc = "signalRetire" THEN "notifyRetire" ELSE "notify"
  /\ UNCHANGED <<UnchangedByDispatch, messages, dispatched>>

(* Mutant of Notify: a retired thread is not replaced.                     *)
NotifyOnly ==
  /\ mainPc \in {"notify", "notifyRetire", "notifyErase"}
  /\ NotifyReader(addressee)
  /\ mainPc' = "getMessage"
  /\ UNCHANGED <<UnchangedByDispatch, messages, dispatched>>

Notify ==
  /\ mainPc \in {"notify", "notifyRetire", "notifyErase"}
  /\ NotifyReader(addressee)
  /\ mainPc' = IF mainPc = "notify" THEN "getMessage"
               ELSE IF mainPc = "notifyRetire" /\ areServerIdsReused THEN "erase"
               ELSE "create"
  /\ UNCHANGED <<UnchangedByDispatch, messages, dispatched>>

(* With ids reused: once the retired thread has consumed its last message, *)
(* its mailbox and its lock are erased.  Its isThreadActive entry is not.  *)
(* The lock is signalled once more before it is deleted.                   *)
Erase ==
  /\ mainPc = "erase"
  /\ PassesSignalling(addressee, Main)
  /\ threadLocks' = [threadLocks EXCEPT ![serverId[addressee]] = Main]
  /\ SetConsumptionState(addressee, TRUE)
  /\ mainPc' = "notifyErase"
  /\ UNCHANGED <<idVars, isThreadActive, request, addressee, threadVars, messages,
                 dispatched>>

-----------------------------------------------------------------------------
(* ServerThread::run.                                                      *)
UnchangedByThread == <<idVars, mainVars, messages, dispatched>>

Goto(t, from, to) ==
  /\ threadPc[t] = from
  /\ threadPc' = [threadPc EXCEPT ![t] = to]

Initialize(t) ==
  /\ Goto(t, "handle", "finalize")
  /\ currentState[t] = "INITIALIZING"
  /\ currentState' = [currentState EXCEPT ![t] = "STARTING_HANDSHAKE"]
  /\ UNCHANGED <<lockVars, UnchangedByThread, serverId, handled>>

(* Mutant of Handle: INITIALIZING falls through to the handshake.          *)
HandleAtOnce(t) ==
  /\ Goto(t, "handle", "finalize")
  /\ currentState' = [currentState EXCEPT ![t] = "READY"]
  /\ handled' = [handled EXCEPT ![t] = Append(@, messages[t])]
  /\ UNCHANGED <<lockVars, UnchangedByThread, serverId>>

(* The first message creates the thread's Sender and Receiver and is       *)
(* answered; READY stands for the states after that.                       *)
Handle(t) ==
  /\ Goto(t, "handle", "finalize")
  /\ currentState[t] # "INITIALIZING"
  /\ currentState' = [currentState EXCEPT ![t] = "READY"]
  /\ handled' = [handled EXCEPT ![t] = Append(@, messages[t])]
  /\ UNCHANGED <<lockVars, UnchangedByThread, serverId>>

FinalizeConsumption(t) ==
  /\ Goto(t, "finalize", "notify") \/ Goto(t, "exitFinalize", "exitNotify")
  /\ SetConsumptionState(t, FALSE)
  /\ UNCHANGED <<UnchangedByThread, serverId, currentState, handled>>

NotifyMain(t) ==
  /\ Goto(t, "notify", "wait") \/ Goto(t, "exitNotify", "deleted")
  /\ NotifyWriter(t)
  /\ UNCHANGED <<UnchangedByThread, serverId, currentState, handled>>

ThreadSleeps(t) ==
  /\ threadPc[t] = "wait"
  /\ BlocksForConsumption(t, t)
  /\ UNCHANGED <<UnchangedByThread, threadVars>>

WaitForConsumption(t) ==
  /\ PassesConsumption(t, t)
  /\ Goto(t, "wait", "test")
  /\ UNCHANGED <<lockVars, UnchangedByThread, serverId, currentState, handled>>

TestActive(t) ==
  /\ Goto(t, "test", IF isThreadActive[serverId[t]] = "stopped"
                     THEN "terminate" ELSE "handle")
  /\ UNCHANGED <<lockVars, UnchangedByThread, serverId, currentState, handled>>

Terminate(t) ==
  /\ currentState[t] = "READY"
  /\ Goto(t, "terminate", "exitFinalize")
  /\ UNCHANGED <<lockVars, UnchangedByThread, serverId, currentState, handled>>

(* sender and receiver were never assigned: the calls may go unnoticed or  *)
(* bring the server down.                                                  *)
TerminateUninitialized(t) ==
  /\ currentState[t] # "READY"
  /\ \/ Goto(t, "terminate", "exitFinalize") /\ UNCHANGED mainPc
     \/ Goto(t, "terminate", "deleted") /\ mainPc' = "crashed"
  /\ UNCHANGED <<lockVars, idVars, isThreadActive, threadLocks, request, addressee,
                 serverId, currentState, handled, messages, dispatched>>

Spurious(u) ==
  /\ WakeSpuriously(u)
  /\ UNCHANGED <<idVars, mainVars, threadVars, messages, dispatched,
                 areServerIdsReused>>

-----------------------------------------------------------------------------
MainStep ==
  /\ mainPc # "crashed"
  /\ \/ \E id \in ServerIds, t \in Threads : CreateServerThread(id, t)
     \/ MainSleeps
     \/ Copy
     \/ Signal
     \/ Notify
     \/ Erase
  /\ UNCHANGED areServerIdsReused

ThreadStep(t) ==
  /\ mainPc # "crashed"
  /\ \/ Initialize(t)
     \/ Handle(t)
     \/ FinalizeConsumption(t)
     \/ NotifyMain(t)
     \/ ThreadSleeps(t)
     \/ WaitForConsumption(t)
     \/ TestActive(t)
     \/ Terminate(t)
     \/ TerminateUninitialized(t)
  /\ UNCHANGED areServerIdsReused

Arrival ==
  /\ \E m \in Requests : GetFirstMessage(m) \/ GetHandshake(m) \/ GetMessage(m)
  /\ UNCHANGED areServerIdsReused

Next ==
  \/ Arrival
  \/ MainStep
  \/ \E t \in Threads : ThreadStep(t)
  \/ \E u \in Users : Spurious(u)

Spec == Init /\ [][Next]_vars

(* Threads are scheduled; condition variables need not wake spuriously.    *)
FairSpec == Spec /\ WF_vars(MainStep) /\ \A t \in Threads : WF_vars(ThreadStep(t))

-----------------------------------------------------------------------------
(* Types of the server's tables, threads and locks.                        *)
TypeOK ==
  /\ LockTypeOK
  /\ IdsTypeOK
  /\ areServerIdsReused \in BOOLEAN
  /\ isThreadActive \in [ServerIds -> {"absent", "active", "stopped"}]
  /\ threadLocks \in [ServerIds -> Threads \union {Main}]
  /\ request \in [number : 0 .. MaxMessages, message : Requests]
  /\ addressee \in Threads \union {Main}
  /\ mainPc \in {"getMessage", "create", "dispatch", "retire", "signal",
                 "signalRetire", "notify", "notifyRetire", "erase", "notifyErase",
                 "crashed"}
  /\ threadPc \in [Threads -> {"none", "handle", "finalize", "notify", "wait", "test",
                               "terminate", "exitFinalize", "exitNotify", "deleted"}]
  /\ serverId \in [Threads -> ServerIds \union {NULL_SERVER_ID}]
  /\ messages \in [Threads -> 0 .. MaxMessages]
  /\ currentState \in [Threads -> {"INITIALIZING", "STARTING_HANDSHAKE", "READY"}]
  /\ dispatched \in [Threads -> Seq(1 .. MaxMessages)]
  /\ handled \in [Threads -> Seq(1 .. MaxMessages)]

(* A thread handles the messages put into its mailbox one by one, in order,*)
(* none of them twice and none overwritten by the next.                    *)
HandledInOrder ==
  \A t \in Threads :
    /\ Len(handled[t]) <= Len(dispatched[t])
    /\ handled[t] = SubSeq(dispatched[t], 1, Len(handled[t]))

(* The main thread writes a mailbox only while its thread cannot be        *)
(* reading it.                                                             *)
MailboxExclusive ==
  mainPc \in {"signal", "signalRetire"} =>
    threadPc[addressee] \in {"notify", "wait", "exitNotify", "deleted"}

(* As long as ids are not reused, the thread that a client's messages go   *)
(* to has not been told to stop, except while the main thread replaces it. *)
CurrentThreadServes ==
  \A c \in ClientIds :
    /\ ~areServerIdsReused
    /\ Known(c)
    /\ isThreadActive[clientIds[c]] = "stopped"
    => /\ mainPc \in {"retire", "signalRetire", "notifyRetire", "create"}
       /\ request.message.clientId = c

(* A thread that ends has answered its client's handshake before, so the   *)
(* sender and receiver that it terminates exist.                           *)
EndsAfterServing ==
  \A t \in Threads :
    threadPc[t] \in {"terminate", "exitFinalize", "exitNotify", "deleted"}
      => handled[t] # <<>> /\ currentState[t] = "READY"

UniqueIdsServe == ~areServerIdsReused => EndsAfterServing

(* FtpServer.cpp:20: it is when ids are not reused that the number of      *)
(* operations is limited.  So a thread under a reused id serves its client *)
(* like any other.                                                         *)
ReusedIdsServe == areServerIdsReused => EndsAfterServing

(* FtpServer.cpp:88, "Run forever": the main thread always comes back to   *)
(* receive the next message.                                               *)
RunsForever == []<>(mainPc = "getMessage")

=============================================================================
