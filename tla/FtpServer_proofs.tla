-------------------------- MODULE FtpServer_proofs --------------------------
(***************************************************************************)
(* Proofs about FtpServer: the mailboxes between the main thread and the   *)
(* server threads, and the tables by which the main thread finds them, for *)
(* every number of clients, server ids, threads and messages.              *)
(*                                                                         *)
(* The argument for the mailboxes: the flag of a thread's lock is FALSE    *)
(* only while the thread is between finalizeConsumption and the return of  *)
(* waitForConsumption, and the main thread writes only while it is FALSE.  *)
(* Neither fact depends on who sleeps or is notified.                      *)
(***************************************************************************)
EXTENDS FtpServer, SequenceTheorems, TLAPS

flag == isConsumptionState

Outside   == {"notify", "wait", "exitNotify", "deleted"}
Ending    == {"terminate", "exitFinalize", "exitNotify", "deleted"}
Signalling == mainPc \in {"signal", "signalRetire"}
Retiring   == mainPc \in {"retire", "signalRetire", "notifyRetire", "erase"}
Addressing == Retiring \/ mainPc \in {"dispatch", "signal", "notify"}

(* The mailbox of t holds a message that t has not handled.                *)
Pending(t) ==
  \/ Signalling /\ addressee = t
  \/ /\ flag[t]
     /\ \/ threadPc[t] \in {"notify", "wait", "test"}
        \/ threadPc[t] = "handle" /\ currentState[t] # "INITIALIZING"

(* The mailbox of t: who may use it, and what it holds.                    *)
MailboxInv(t) ==
  /\ ~flag[t] => threadPc[t] \in Outside
  /\ threadPc[t] = "none" => currentState[t] = "INITIALIZING"
  /\ threadPc[t] \notin {"none", "handle"} => currentState[t] # "INITIALIZING"
  /\ currentState[t] = "INITIALIZING" => handled[t] = <<>> /\ dispatched[t] = <<>>
  /\ handled[t] # <<>> => currentState[t] = "READY"
  /\ threadPc[t] \notin Ending =>
       dispatched[t] = IF Pending(t) THEN Append(handled[t], messages[t]) ELSE handled[t]

(* What was handled is the beginning of what was dispatched.               *)
Begins(h, d) == Len(h) <= Len(d) /\ \A i \in 1 .. Len(h) : h[i] = d[i]

(* The client's entry leads to a thread, except while it is replaced.      *)
Leads(c) ==
  Known(c) => \/ threadLocks[clientIds[c]] \in Threads
              \/ mainPc \in {"notifyErase", "create"} /\ request.message.clientId = c

TablesInv ==
  /\ Addressing => addressee \in Threads
  /\ mainPc # "getMessage" => request.number # 0
  /\ Retiring => /\ Known(request.message.clientId)
                 /\ addressee = threadLocks[clientIds[request.message.clientId]]
  /\ \A i \in ServerIds : threadLocks[i] # Main =>
       serverId[threadLocks[i]] = i /\ threadPc[threadLocks[i]] # "none"
  /\ \A c \in ClientIds : Leads(c)
  /\ \A c, d \in ClientIds : Known(c) /\ clientIds[c] = clientIds[d] => c = d

(* A thread that is being replaced was told to stop.  Once it was woken    *)
(* for that, it goes through its loop no more, and it has left it when the *)
(* main thread may pass.                                                   *)
Woken == mainPc \in {"notifyRetire", "erase"}
Leaves(pc, f) == pc \notin {"handle", "finalize"} /\ (~f => pc \in {"exitNotify", "deleted"})

RetireInv ==
  /\ Retiring => isThreadActive[serverId[addressee]] = "stopped"
  /\ Woken => Leaves(threadPc[addressee], flag[addressee])

(* What holds in addition while ids are not reused.                        *)
UniqueInv ==
  /\ mainPc \notin {"erase", "notifyErase", "crashed"}
  /\ \A i \in ServerIds : threadLocks[i] = Main => isThreadActive[i] = "absent"
  /\ \A t \in Threads :
       /\ threadPc[t] # "none" => serverId[t] \in ServerIds /\ threadLocks[serverId[t]] = t
       /\ threadPc[t] # "none" /\ isThreadActive[serverId[t]] = "stopped"
            => handled[t] # <<>>
       /\ threadPc[t] \in Ending => handled[t] # <<>>
  /\ \A c \in ClientIds :
       /\ Known(c)
       /\ isThreadActive[clientIds[c]] = "stopped"
       => /\ mainPc \in {"retire", "signalRetire", "notifyRetire", "create"}
          /\ request.message.clientId = c

ServerInv ==
  /\ TypeOK
  /\ \A t \in Threads : Begins(handled[t], dispatched[t])
  /\ mainPc # "crashed" =>
       /\ Signalling => ~flag[addressee]
       /\ \A t \in Threads : MailboxInv(t)
       /\ TablesInv
       /\ RetireInv
  /\ ~areServerIdsReused => UniqueInv

-----------------------------------------------------------------------------
LEMMA Constants ==
  /\ Main \notin Threads /\ Locks = Threads /\ Users = Threads \union {Main}
  /\ Main \in Users /\ MaxMessages \in Nat /\ NULL_SERVER_ID \notin ServerIds
BY FtpServerAssumption, ServerIdsAssumption

(* The locks keep their types, and only SetConsumptionState changes a flag.*)
LEMMA LockSteps ==
  ASSUME LockTypeOK, NEW l, NEW u \in Users,
         \/ BlocksForConsumption(l, u) \/ BlocksForSignalling(l, u)
         \/ NotifyReader(l) \/ NotifyWriter(l) \/ WakeSpuriously(u)
  PROVE  LockTypeOK' /\ UNCHANGED isConsumptionState
<1>. USE DEF LockTypeOK
<1>1. CASE Test(u) \/ SleepForConsumption(l, u) \/ SleepForSignalling(l, u)
  BY <1>1 DEF Test, SleepForConsumption, SleepForSignalling
<1>2. ASSUME NEW s \in [Locks -> SUBSET Users], NEW k, NEW r \in Notified(s[k])
      PROVE  [s EXCEPT ![k] = r] \in [Locks -> SUBSET Users]
  <2>1. k \in Locks => r \in SUBSET Users
    BY DEF Notified
  <2>. QED
    BY <2>1
<1>3. CASE NotifyReader(l)
  <2>1. PICK r \in Notified(readOperation[l]) :
          readOperation' = [readOperation EXCEPT ![l] = r]
    BY <1>3 DEF NotifyReader
  <2>2. readOperation' \in [Locks -> SUBSET Users]
    BY <1>2, <2>1
  <2>. QED
    BY <1>3, <2>2 DEF NotifyReader
<1>4. CASE NotifyWriter(l)
  <2>1. PICK r \in Notified(writeOperation[l]) :
          writeOperation' = [writeOperation EXCEPT ![l] = r]
    BY <1>4 DEF NotifyWriter
  <2>2. writeOperation' \in [Locks -> SUBSET Users]
    BY <1>2, <2>1
  <2>. QED
    BY <1>4, <2>2 DEF NotifyWriter
<1>5. CASE WakeSpuriously(u)
  BY <1>5 DEF WakeSpuriously
<1>. QED
  BY <1>1, <1>3, <1>4, <1>5 DEF BlocksForConsumption, BlocksForSignalling

LEMMA SetFlag ==
  ASSUME LockTypeOK, NEW l \in Locks, NEW b \in BOOLEAN, SetConsumptionState(l, b)
  PROVE  /\ LockTypeOK'
         /\ flag'[l] = b /\ \A k \in Locks : k # l => flag'[k] = flag[k]
BY DEF LockTypeOK, SetConsumptionState, flag

-----------------------------------------------------------------------------
LEMMA ServerInit == Init => ServerInv
<1>. SUFFICES ASSUME Init PROVE ServerInv
  OBVIOUS
<1>1. LockTypeOK /\ IdsTypeOK
  BY DEF Init, LockInit, IdsInit, LockTypeOK, IdsTypeOK
<1>2. NoRequest \in [number : 0 .. MaxMessages, message : Requests] /\ NoRequest.number = 0
  <2>. DEFINE first == CHOOSE c \in ClientIds : TRUE
  <2>1. first \in ClientIds
    BY FtpServerAssumption
  <2>. HIDE DEF first
  <2>2. [type |-> "REQUEST", clientId |-> first, serverId |-> NULL_SERVER_ID] \in Requests
    BY <2>1 DEF Requests
  <2>. QED
    BY <2>2, Constants DEF NoRequest, first
<1>3. /\ areServerIdsReused \in BOOLEAN
      /\ isThreadActive = [i \in ServerIds |-> "absent"]
      /\ threadLocks = [i \in ServerIds |-> Main]
      /\ request = NoRequest /\ addressee = Main /\ mainPc = "getMessage"
      /\ threadPc = [t \in Threads |-> "none"]
      /\ serverId = [t \in Threads |-> NULL_SERVER_ID]
      /\ messages = [t \in Threads |-> 0]
      /\ currentState = [t \in Threads |-> "INITIALIZING"]
      /\ dispatched = [t \in Threads |-> <<>>]
      /\ handled = [t \in Threads |-> <<>>]
      /\ \A c \in ClientIds : clientIds[c] = NULL_SERVER_ID
      /\ flag = [t \in Locks |-> TRUE]
  BY DEF Init, IdsInit, LockInit, flag
<1>4. <<>> \in Seq(1 .. MaxMessages) /\ Len(<<>>) = 0 /\ 0 \in 0 .. MaxMessages
  BY Constants
<1>5. TypeOK
  BY <1>1, <1>2, <1>3, <1>4 DEF TypeOK
<1>6. \A t \in Threads : Begins(handled[t], dispatched[t])
  BY <1>3, <1>4 DEF Begins
<1>7. \A t \in Threads : MailboxInv(t)
  BY <1>3, Constants DEF MailboxInv, Pending, Signalling, Ending
<1>8. TablesInv
  BY <1>3 DEF TablesInv, Addressing, Retiring, Leads, Known
<1>9. UniqueInv
  BY <1>3, Constants DEF UniqueInv, Ending, Known
<1>10. RetireInv
  BY <1>3 DEF RetireInv, Retiring, Woken
<1>. QED
  BY <1>3, <1>5, <1>6, <1>7, <1>8, <1>9, <1>10 DEF ServerInv, Signalling

(* A step of the locks that changes no flag.                               *)
LEMMA QuietStep ==
  ASSUME ServerInv, LockTypeOK', UNCHANGED isConsumptionState, UNCHANGED idVars,
         UNCHANGED mainVars, UNCHANGED threadVars, UNCHANGED messages, UNCHANGED dispatched,
         UNCHANGED areServerIdsReused
  PROVE  ServerInv'
<1>1. UNCHANGED <<isConsumptionState, clientIds, pastServerIds, isThreadActive, threadLocks,
                  request, addressee, mainPc, threadPc, serverId, currentState, handled,
                  messages, dispatched, areServerIdsReused>>
  BY DEF idVars, mainVars, threadVars
<1>2. TypeOK'
  BY <1>1 DEF ServerInv, TypeOK, IdsTypeOK
<1>3. /\ \A t \in Threads : Begins(handled[t], dispatched[t])'
      /\ UniqueInv' <=> UniqueInv
      /\ TablesInv' <=> TablesInv
      /\ RetireInv' <=> RetireInv
      /\ \A t \in Threads : MailboxInv(t)' <=> MailboxInv(t)
      /\ (Signalling => ~flag[addressee])' <=> (Signalling => ~flag[addressee])
  <2>1. \A t \in Threads : Begins(handled[t], dispatched[t])'
    BY <1>1 DEF ServerInv
  <2>2. UniqueInv' <=> UniqueInv
    BY <1>1 DEF UniqueInv, Known
  <2>3. TablesInv' <=> TablesInv
    BY <1>1 DEF TablesInv, Addressing, Retiring, Leads, Known
  <2>4. ASSUME NEW t \in Threads PROVE MailboxInv(t)' <=> MailboxInv(t)
    BY <1>1 DEF MailboxInv, Pending, Signalling, flag
  <2>5. (Signalling => ~flag[addressee])' <=> (Signalling => ~flag[addressee])
    BY <1>1 DEF Signalling, flag
  <2>6. RetireInv' <=> RetireInv
    BY <1>1 DEF RetireInv, Retiring, Woken, Leaves, flag
  <2>. QED
    BY <2>1, <2>2, <2>3, <2>4, <2>5, <2>6
<1>. QED
  BY <1>1, <1>2, <1>3 DEF ServerInv

-----------------------------------------------------------------------------
(* The server threads.                                                     *)
ThreadPcs == {"none", "handle", "finalize", "notify", "wait", "test", "terminate",
              "exitFinalize", "exitNotify", "deleted"}

(* A step of thread t keeps the invariant if it keeps what concerns t.     *)
LEMMA ThreadMoves ==
  ASSUME ServerInv, mainPc # "crashed", NEW t \in Threads, NEW to \in ThreadPcs \ {"none"},
         UNCHANGED <<idVars, mainVars, messages, dispatched, areServerIdsReused, serverId>>,
         LockTypeOK', threadPc' = [threadPc EXCEPT ![t] = to], threadPc[t] # "none",
         currentState' \in [Threads -> {"INITIALIZING", "STARTING_HANDSHAKE", "READY"}],
         handled' \in [Threads -> Seq(1 .. MaxMessages)],
         \A k \in Threads : k # t =>
           /\ flag'[k] = flag[k] /\ currentState'[k] = currentState[k]
           /\ handled'[k] = handled[k],
         Begins(handled'[t], dispatched[t]), MailboxInv(t)',
         Signalling => ~flag'[addressee],
         handled[t] # <<>> => handled'[t] # <<>>,
         ~areServerIdsReused /\ to \in Ending => handled'[t] # <<>>,
         Woken /\ addressee = t => Leaves(to, flag'[t])
  PROVE  ServerInv'
<1>1. UNCHANGED <<clientIds, pastServerIds, isThreadActive, threadLocks, request, addressee,
                  mainPc, messages, dispatched, areServerIdsReused, serverId>>
  BY DEF idVars, mainVars
<1>2. \A k \in Threads : threadPc'[k] = IF k = t THEN to ELSE threadPc[k]
  BY DEF ServerInv, TypeOK
<1>3. TypeOK'
  BY <1>1 DEF ServerInv, TypeOK, IdsTypeOK, ThreadPcs
<1>4. \A k \in Threads : Begins(handled[k], dispatched[k])'
  BY <1>1 DEF ServerInv
<1>5. (Signalling => ~flag[addressee])'
  BY <1>1 DEF Signalling
<1>6. ASSUME NEW k \in Threads PROVE MailboxInv(k)'
  <2>1. CASE k = t
    BY <2>1
  <2>2. CASE k # t
    <3>1. /\ flag'[k] = flag[k] /\ currentState'[k] = currentState[k]
          /\ handled'[k] = handled[k] /\ threadPc'[k] = threadPc[k]
      BY <1>2, <2>2
    <3>2. Pending(k)' <=> Pending(k)
      BY <1>1, <3>1 DEF Pending, Signalling
    <3>. QED
      BY <1>1, <3>1, <3>2 DEF ServerInv, MailboxInv
  <2>. QED
    BY <2>1, <2>2
<1>7. TablesInv'
  <2>1. \A k \in Threads : threadPc[k] # "none" => threadPc'[k] # "none"
    BY <1>2
  <2>2. TablesInv /\ threadLocks \in [ServerIds -> Threads \union {Main}]
    BY DEF ServerInv, TypeOK
  <2>3. \A i \in ServerIds : threadLocks[i] # Main => threadPc'[threadLocks[i]] # "none"
    BY <2>1, <2>2 DEF TablesInv
  <2>. QED
    BY <1>1, <2>2, <2>3 DEF TablesInv, Addressing, Retiring, Leads, Known
<1>8. ASSUME ~areServerIdsReused PROVE UniqueInv'
  <2>1. UniqueInv
    BY <1>8 DEF ServerInv
  <2>2. \A k \in Threads : (threadPc'[k] # "none" <=> threadPc[k] # "none")
                            /\ (handled[k] # <<>> => handled'[k] # <<>>)
    BY <1>2
  <2>3. \A k \in Threads : threadPc'[k] \in Ending => handled'[k] # <<>>
    BY <1>2, <1>8, <2>1 DEF UniqueInv
  <2>. QED
    BY <1>1, <2>1, <2>2, <2>3 DEF UniqueInv, Known
<1>9. RetireInv'
  <2>1. RetireInv /\ (Woken => addressee \in Threads)
    BY DEF ServerInv, TablesInv, Addressing, Retiring, Woken
  <2>2. Woken => Leaves(threadPc'[addressee], flag'[addressee])
    BY <1>2, <2>1 DEF RetireInv
  <2>. QED
    BY <1>1, <2>1, <2>2 DEF RetireInv, Retiring, Woken
<1>. QED
  BY <1>1, <1>3, <1>4, <1>5, <1>6, <1>7, <1>8, <1>9 DEF ServerInv

(* The typing facts a step of a thread starts from.                        *)
LEMMA ThreadFacts ==
  ASSUME ServerInv, mainPc # "crashed", NEW t \in Threads
  PROVE  /\ MailboxInv(t) /\ LockTypeOK /\ flag[t] \in BOOLEAN
         /\ Begins(handled[t], dispatched[t])
         /\ (Signalling => ~flag[addressee])
         /\ (Woken /\ addressee = t => Leaves(threadPc[t], flag[t]))
         /\ (Woken /\ addressee = t => isThreadActive[serverId[t]] = "stopped")
         /\ currentState \in [Threads -> {"INITIALIZING", "STARTING_HANDSHAKE", "READY"}]
         /\ handled \in [Threads -> Seq(1 .. MaxMessages)]
         /\ dispatched \in [Threads -> Seq(1 .. MaxMessages)]
         /\ threadPc \in [Threads -> ThreadPcs]
         /\ t \in Locks
<1>1. /\ (Woken /\ addressee = t => Leaves(threadPc[t], flag[t]))
      /\ (Woken /\ addressee = t => isThreadActive[serverId[t]] = "stopped")
  BY DEF ServerInv, RetireInv, Retiring, Woken
<1>. QED
  BY <1>1, Constants DEF ServerInv, TypeOK, LockTypeOK, flag, ThreadPcs

LEMMA InitializeStep ==
  ASSUME ServerInv, mainPc # "crashed", UNCHANGED areServerIdsReused, NEW t \in Threads,
         Initialize(t)
  PROVE  ServerInv'
<1>. USE ThreadFacts
<1>1. /\ threadPc[t] = "handle" /\ currentState[t] = "INITIALIZING"
      /\ threadPc' = [threadPc EXCEPT ![t] = "finalize"]
      /\ currentState' = [currentState EXCEPT ![t] = "STARTING_HANDSHAKE"]
      /\ UNCHANGED <<lockVars, idVars, mainVars, messages, dispatched, serverId, handled>>
  BY DEF Initialize, Goto, UnchangedByThread
<1>2. LockTypeOK' /\ flag' = flag
  BY <1>1 DEF lockVars, LockTypeOK, flag
<1>3. flag[t] /\ handled[t] = <<>> /\ dispatched[t] = <<>>
  BY <1>1 DEF MailboxInv, Outside
<1>4. threadPc'[t] = "finalize" /\ currentState'[t] = "STARTING_HANDSHAKE"
  BY <1>1
<1>5. ~(Signalling /\ addressee = t) /\ UNCHANGED <<mainPc, addressee>>
  BY <1>1, <1>3 DEF mainVars
<1>6. MailboxInv(t)'
  <2>1. ~Pending(t)'
    BY <1>4, <1>5 DEF Pending, Signalling
  <2>. QED
    BY <1>1, <1>2, <1>3, <1>4, <2>1 DEF MailboxInv, Ending
<1>7. currentState' \in [Threads -> {"INITIALIZING", "STARTING_HANDSHAKE", "READY"}]
      /\ \A k \in Threads : k # t => currentState'[k] = currentState[k]
  BY <1>1
<1>8. ~(Woken /\ addressee = t)
  BY <1>1 DEF Leaves
<1>. QED
  BY <1>1, <1>2, <1>6, <1>7, <1>8, ThreadMoves DEF ThreadPcs, Ending

LEMMA HandleStep ==
  ASSUME ServerInv, mainPc # "crashed", UNCHANGED areServerIdsReused, NEW t \in Threads,
         Handle(t)
  PROVE  ServerInv'
<1>. USE ThreadFacts
<1>1. /\ threadPc[t] = "handle" /\ currentState[t] # "INITIALIZING"
      /\ threadPc' = [threadPc EXCEPT ![t] = "finalize"]
      /\ currentState' = [currentState EXCEPT ![t] = "READY"]
      /\ handled' = [handled EXCEPT ![t] = Append(handled[t], messages[t])]
      /\ UNCHANGED <<lockVars, idVars, mainVars, messages, dispatched, serverId>>
  BY DEF Handle, Goto, UnchangedByThread
<1>2. LockTypeOK' /\ flag' = flag
  BY <1>1 DEF lockVars, LockTypeOK, flag
<1>3. flag[t] /\ Pending(t) /\ dispatched[t] = Append(handled[t], messages[t])
  BY <1>1 DEF MailboxInv, Outside, Pending, Ending
<1>4. threadPc'[t] = "finalize" /\ currentState'[t] = "READY" /\ handled'[t] = dispatched[t]
  BY <1>1, <1>3
<1>5. ~(Signalling /\ addressee = t) /\ UNCHANGED <<mainPc, addressee>>
  BY <1>1, <1>3 DEF mainVars
<1>6. MailboxInv(t)'
  <2>1. ~Pending(t)'
    BY <1>4, <1>5 DEF Pending, Signalling
  <2>. QED
    BY <1>1, <1>2, <1>3, <1>4, <2>1 DEF MailboxInv, Ending
<1>7. /\ currentState' \in [Threads -> {"INITIALIZING", "STARTING_HANDSHAKE", "READY"}]
      /\ \A k \in Threads : k # t => currentState'[k] = currentState[k]
                                      /\ handled'[k] = handled[k]
  BY <1>1
<1>8. handled' = [handled EXCEPT ![t] = dispatched[t]]
  BY <1>1, <1>3
<1>9. handled' \in [Threads -> Seq(1 .. MaxMessages)]
  BY <1>8
<1>10. Begins(handled'[t], dispatched[t])
  <2>1. Len(dispatched[t]) \in Nat
    BY LenProperties
  <2>. QED
    BY <1>4, <2>1 DEF Begins
<1>11. handled[t] # <<>> => handled'[t] # <<>>
  BY <1>4 DEF Begins
<1>12. ~(Woken /\ addressee = t)
  BY <1>1 DEF Leaves
<1>. QED
  BY <1>1, <1>2, <1>6, <1>7, <1>9, <1>10, <1>11, <1>12, ThreadMoves DEF ThreadPcs, Ending

(* finalizeConsumption: from here on the main thread may write.            *)
LEMMA FinalizeConsumptionStep ==
  ASSUME ServerInv, mainPc # "crashed", UNCHANGED areServerIdsReused, NEW t \in Threads,
         FinalizeConsumption(t)
  PROVE  ServerInv'
<1>. USE ThreadFacts
<1>1. PICK to \in {"notify", "exitNotify"} :
        /\ threadPc[t] = IF to = "notify" THEN "finalize" ELSE "exitFinalize"
        /\ threadPc' = [threadPc EXCEPT ![t] = to]
  BY DEF FinalizeConsumption, Goto
<1>2. /\ UNCHANGED <<idVars, mainVars, messages, dispatched, serverId, currentState, handled>>
      /\ SetConsumptionState(t, FALSE)
  BY DEF FinalizeConsumption, UnchangedByThread
<1>3. LockTypeOK' /\ ~flag'[t] /\ \A k \in Threads : k # t => flag'[k] = flag[k]
  BY <1>2, SetFlag, Constants
<1>4. flag[t] /\ threadPc'[t] = to /\ currentState[t] # "INITIALIZING"
  BY <1>1 DEF MailboxInv, Outside
<1>5. ~(Signalling /\ addressee = t) /\ UNCHANGED <<mainPc, addressee>>
  BY <1>2, <1>4 DEF mainVars
<1>6. MailboxInv(t)'
  <2>1. ~Pending(t)'
    BY <1>3, <1>5 DEF Pending, Signalling
  <2>2. to = "notify" => ~Pending(t) /\ dispatched[t] = handled[t]
    BY <1>1, <1>5 DEF MailboxInv, Pending, Ending
  <2>. QED
    BY <1>2, <1>3, <1>4, <2>1, <2>2 DEF MailboxInv, Ending, Outside
<1>7. Signalling => ~flag'[addressee]
  BY <1>3, <1>5 DEF ServerInv, TablesInv, Addressing, Retiring, Signalling
<1>8. ~areServerIdsReused /\ to \in Ending => handled'[t] # <<>>
  BY <1>1, <1>2 DEF ServerInv, UniqueInv, Ending
<1>9. to \in ThreadPcs \ {"none"} /\ threadPc[t] # "none"
  BY <1>1 DEF ThreadPcs
<1>10. Woken /\ addressee = t => Leaves(to, flag'[t])
  BY <1>1 DEF Leaves
<1>. QED
  BY <1>1, <1>2, <1>3, <1>6, <1>7, <1>8, <1>9, <1>10, ThreadMoves

LEMMA NotifyMainStep ==
  ASSUME ServerInv, mainPc # "crashed", UNCHANGED areServerIdsReused, NEW t \in Threads,
         NotifyMain(t)
  PROVE  ServerInv'
<1>. USE ThreadFacts
<1>1. PICK to \in {"wait", "deleted"} :
        /\ threadPc[t] = IF to = "wait" THEN "notify" ELSE "exitNotify"
        /\ threadPc' = [threadPc EXCEPT ![t] = to]
  BY DEF NotifyMain, Goto
<1>2. /\ UNCHANGED <<idVars, mainVars, messages, dispatched, serverId, currentState, handled>>
      /\ NotifyWriter(t)
  BY DEF NotifyMain, UnchangedByThread
<1>3. LockTypeOK' /\ flag' = flag
  BY <1>2, LockSteps, Constants DEF flag
<1>4. threadPc'[t] = to /\ UNCHANGED <<mainPc, addressee>>
  BY <1>1, <1>2 DEF mainVars
<1>5. MailboxInv(t)'
  <2>1. to = "wait" => (Pending(t)' <=> Pending(t))
    BY <1>1, <1>2, <1>3, <1>4 DEF Pending, Signalling
  <2>. QED
    BY <1>1, <1>2, <1>3, <1>4, <2>1 DEF MailboxInv, Ending, Outside
<1>6. ~areServerIdsReused /\ to \in Ending => handled'[t] # <<>>
  BY <1>1, <1>2 DEF ServerInv, UniqueInv, Ending
<1>7. to \in ThreadPcs \ {"none"} /\ threadPc[t] # "none"
  BY <1>1 DEF ThreadPcs
<1>8. Woken /\ addressee = t => Leaves(to, flag'[t])
  BY <1>1, <1>3 DEF Leaves
<1>. QED
  BY <1>1, <1>2, <1>3, <1>5, <1>6, <1>7, <1>8, ThreadMoves

(* waitForConsumption returns only when the flag is TRUE.                  *)
LEMMA WaitForConsumptionStep ==
  ASSUME ServerInv, mainPc # "crashed", UNCHANGED areServerIdsReused, NEW t \in Threads,
         WaitForConsumption(t)
  PROVE  ServerInv'
<1>. USE ThreadFacts
<1>1. /\ threadPc[t] = "wait" /\ threadPc' = [threadPc EXCEPT ![t] = "test"] /\ flag[t]
      /\ UNCHANGED <<lockVars, idVars, mainVars, messages, dispatched, serverId,
                     currentState, handled>>
  BY DEF WaitForConsumption, Goto, PassesConsumption, UnchangedByThread, flag
<1>2. LockTypeOK' /\ flag' = flag /\ UNCHANGED <<mainPc, addressee>> /\ threadPc'[t] = "test"
  BY <1>1 DEF lockVars, LockTypeOK, flag, mainVars
<1>3. MailboxInv(t)'
  <2>1. Pending(t)' <=> Pending(t)
    BY <1>1, <1>2 DEF Pending, Signalling
  <2>. QED
    BY <1>1, <1>2, <2>1 DEF MailboxInv, Ending, Outside
<1>4. Leaves("test", flag'[t])
  BY <1>1, <1>2 DEF Leaves
<1>. QED
  BY <1>1, <1>2, <1>3, <1>4, ThreadMoves DEF ThreadPcs, Ending

LEMMA TestActiveStep ==
  ASSUME ServerInv, mainPc # "crashed", UNCHANGED areServerIdsReused, NEW t \in Threads,
         TestActive(t)
  PROVE  ServerInv'
<1>. USE ThreadFacts
<1>1. PICK to \in {"terminate", "handle"} :
        /\ threadPc[t] = "test" /\ threadPc' = [threadPc EXCEPT ![t] = to]
        /\ to = "terminate" <=> isThreadActive[serverId[t]] = "stopped"
        /\ UNCHANGED <<lockVars, idVars, mainVars, messages, dispatched, serverId,
                       currentState, handled>>
  BY DEF TestActive, Goto, UnchangedByThread
<1>2. LockTypeOK' /\ flag' = flag /\ UNCHANGED <<mainPc, addressee>> /\ threadPc'[t] = to
  BY <1>1 DEF lockVars, LockTypeOK, flag, mainVars
<1>3. flag[t]
  BY <1>1 DEF MailboxInv, Outside
<1>4. MailboxInv(t)'
  <2>1. to = "handle" => (Pending(t)' <=> Pending(t))
    BY <1>1, <1>2 DEF Pending, Signalling, MailboxInv
  <2>. QED
    BY <1>1, <1>2, <1>3, <2>1 DEF MailboxInv, Ending, Outside
<1>5. ~areServerIdsReused /\ to \in Ending => handled'[t] # <<>>
  BY <1>1 DEF ServerInv, UniqueInv, Ending
<1>6. Woken /\ addressee = t => Leaves(to, flag'[t])
  BY <1>1, <1>2, <1>3 DEF Leaves
<1>. QED
  BY <1>1, <1>2, <1>4, <1>5, <1>6, ThreadMoves DEF ThreadPcs

(* A thread ends; whether its sender and receiver exist makes a difference *)
(* only to whether the server survives it.                                 *)
LEMMA TerminateStep ==
  ASSUME ServerInv, mainPc # "crashed", UNCHANGED areServerIdsReused, NEW t \in Threads,
         Terminate(t) \/ TerminateUninitialized(t)
  PROVE  ServerInv'
<1>. USE ThreadFacts
<1>1. /\ threadPc[t] = "terminate"
      /\ UNCHANGED <<lockVars, idVars, messages, dispatched, serverId, currentState, handled,
                     isThreadActive, threadLocks, request, addressee>>
  BY DEF Terminate, TerminateUninitialized, Goto, UnchangedByThread, mainVars
<1>2. LockTypeOK' /\ flag' = flag
  BY <1>1 DEF lockVars, LockTypeOK, flag
<1>3. CASE UNCHANGED mainPc /\ threadPc' = [threadPc EXCEPT ![t] = "exitFinalize"]
  <2>1. flag[t] /\ threadPc'[t] = "exitFinalize"
    BY <1>1, <1>3 DEF MailboxInv, Outside
  <2>2. MailboxInv(t)'
    BY <1>1, <1>2, <1>3, <2>1 DEF MailboxInv, Ending, Outside
  <2>3. ~areServerIdsReused => handled'[t] # <<>>
    BY <1>1 DEF ServerInv, UniqueInv, Ending
  <2>4. Leaves("exitFinalize", flag'[t])
    BY <1>2, <2>1 DEF Leaves
  <2>. QED
    BY <1>1, <1>2, <1>3, <2>2, <2>3, <2>4, ThreadMoves DEF ThreadPcs, mainVars
<1>4. CASE TerminateUninitialized(t) /\ mainPc' = "crashed"
           /\ threadPc' = [threadPc EXCEPT ![t] = "deleted"]
  <2>1. areServerIdsReused
    BY <1>1, <1>4 DEF ServerInv, UniqueInv, Ending, MailboxInv, TerminateUninitialized
  <2>2. TypeOK'
    BY <1>1, <1>2, <1>4 DEF ServerInv, TypeOK, IdsTypeOK, idVars
  <2>. QED
    BY <1>1, <1>4, <2>1, <2>2 DEF ServerInv
<1>. QED
  BY <1>3, <1>4 DEF Terminate, TerminateUninitialized, Goto, UnchangedByThread, mainVars

LEMMA ThreadStepKeeps ==
  ASSUME ServerInv, NEW t \in Threads, ThreadStep(t) PROVE ServerInv'
<1>1. mainPc # "crashed" /\ UNCHANGED areServerIdsReused
  BY DEF ThreadStep
<1>2. CASE ThreadSleeps(t)
  <2>1. LockTypeOK /\ t \in Users
    BY Constants DEF ServerInv, TypeOK
  <2>2. LockTypeOK' /\ UNCHANGED isConsumptionState
    BY <1>2, <2>1, LockSteps DEF ThreadSleeps
  <2>. QED
    BY <1>1, <1>2, <2>2, QuietStep DEF ThreadSleeps, UnchangedByThread
<1>. QED
  BY <1>1, <1>2, InitializeStep, HandleStep, FinalizeConsumptionStep, NotifyMainStep,
     WaitForConsumptionStep, TestActiveStep, TerminateStep DEF ThreadStep

-----------------------------------------------------------------------------
(* The main thread.                                                        *)

(* Away from a mailbox, the main thread leaves every mailbox as it is.     *)
LEMMA MailboxesKept ==
  ASSUME ServerInv, mainPc # "crashed", flag' = flag, UNCHANGED threadVars,
         UNCHANGED messages, UNCHANGED dispatched, ~Signalling, ~Signalling'
  PROVE  \A t \in Threads : Begins(handled[t], dispatched[t])' /\ MailboxInv(t)'
<1>. SUFFICES ASSUME NEW t \in Threads
              PROVE  Begins(handled[t], dispatched[t])' /\ MailboxInv(t)'
  OBVIOUS
<1>1. MailboxInv(t) /\ Begins(handled[t], dispatched[t])
  BY DEF ServerInv
<1>2. UNCHANGED <<threadPc, currentState, handled>>
  BY DEF threadVars
<1>3. Pending(t)' <=> Pending(t)
  BY <1>2 DEF Pending
<1>. QED
  BY <1>1, <1>2, <1>3 DEF MailboxInv

(* The main thread is idle: nobody's thread is stopped or erased.          *)
LEMMA IdleFacts ==
  ASSUME ServerInv, mainPc = "getMessage"
  PROVE  /\ TypeOK /\ TablesInv /\ ~Signalling
         /\ \A c \in ClientIds : Known(c) =>
              clientIds[c] \in ServerIds /\ threadLocks[clientIds[c]] \in Threads
         /\ ~areServerIdsReused =>
              /\ UniqueInv
              /\ \A c \in ClientIds : Known(c) => isThreadActive[clientIds[c]] # "stopped"
BY DEF ServerInv, TablesInv, Leads, Signalling, UniqueInv, TypeOK, IdsTypeOK, Known

LEMMA ReceiveFacts ==
  ASSUME ServerInv, NEW m \in Requests, Receive(m)
  PROVE  /\ mainPc = "getMessage"
         /\ request' \in [number : 0 .. MaxMessages, message : Requests]
         /\ request'.number # 0 /\ request'.message = m
         /\ m.clientId \in ClientIds
         /\ m.serverId \in ServerIds \union {NULL_SERVER_ID}
<1>1. request.number \in 0 .. MaxMessages /\ request.number < MaxMessages /\ MaxMessages \in Nat
  BY Constants DEF ServerInv, TypeOK, Receive
<1>2. request.number + 1 \in 0 .. MaxMessages /\ request.number + 1 # 0
  BY <1>1
<1>3. request' = [number |-> request.number + 1, message |-> m]
  BY DEF Receive
<1>. QED
  BY <1>2, <1>3 DEF Receive, Requests

LEMMA GetFirstMessageStep ==
  ASSUME ServerInv, UNCHANGED areServerIdsReused, NEW m \in Requests, GetFirstMessage(m)
  PROVE  ServerInv'
<1>1. Receive(m) /\ mainPc' = "create"
      /\ UNCHANGED <<lockVars, threadVars, messages, dispatched, idVars, isThreadActive,
                     threadLocks, addressee>>
  BY DEF GetFirstMessage, UnchangedByMain
<1>2. mainPc = "getMessage" /\ TypeOK /\ TablesInv /\ ~Signalling /\ ~Signalling'
      /\ flag' = flag
  BY <1>1, ReceiveFacts, IdleFacts DEF Signalling, lockVars, flag
<1>3. TypeOK'
  BY <1>1, <1>2, ReceiveFacts DEF TypeOK, LockTypeOK, IdsTypeOK, lockVars, threadVars, idVars
<1>4. \A t \in Threads : Begins(handled[t], dispatched[t])' /\ MailboxInv(t)'
  BY <1>1, <1>2, MailboxesKept
<1>5. TablesInv'
  BY <1>1, <1>2, ReceiveFacts, IdleFacts DEF TablesInv, Addressing, Retiring, Leads, Known,
     idVars, threadVars
<1>6. ~areServerIdsReused => UniqueInv'
  BY <1>1, <1>2, IdleFacts DEF UniqueInv, Known, idVars, threadVars
<1>7. RetireInv'
  BY <1>1 DEF RetireInv, Retiring, Woken
<1>. QED
  BY <1>2, <1>3, <1>4, <1>5, <1>6, <1>7 DEF ServerInv

(* The client's thread is told to stop: it has answered that client.       *)
LEMMA GetHandshakeStep ==
  ASSUME ServerInv, UNCHANGED areServerIdsReused, NEW m \in Requests, GetHandshake(m)
  PROVE  ServerInv'
<1>. DEFINE c == m.clientId
            i == m.serverId
<1>1. /\ Receive(m) /\ Retires(m) /\ RememberId(m) /\ mainPc' = "retire"
      /\ isThreadActive' = [isThreadActive EXCEPT ![i] = "stopped"]
      /\ addressee' = threadLocks[i]
      /\ UNCHANGED <<lockVars, threadVars, messages, dispatched, clientIds, threadLocks>>
  BY DEF GetHandshake, UnchangedByMain, ThreadOf
<1>2. mainPc = "getMessage" /\ TypeOK /\ TablesInv /\ ~Signalling /\ ~Signalling'
      /\ flag' = flag
  BY <1>1, ReceiveFacts, IdleFacts DEF Signalling, lockVars, flag
<1>3. /\ c \in ClientIds /\ Known(c) /\ i = clientIds[c] /\ i \in ServerIds
      /\ threadLocks[i] \in Threads
  BY <1>1, <1>2, ReceiveFacts, IdleFacts DEF Retires
<1>4. UNCHANGED <<threadPc, serverId, currentState, handled>>
  BY <1>1 DEF threadVars
<1>5. TypeOK'
  <2>1. pastServerIds' \in [ClientIds -> ServerIds \union {NULL_SERVER_ID}]
    BY <1>1, <1>2, <1>3 DEF RememberId, TypeOK, IdsTypeOK
  <2>2. isThreadActive' \in [ServerIds -> {"absent", "active", "stopped"}]
    BY <1>1, <1>2, <1>3 DEF TypeOK
  <2>. QED
    BY <1>1, <1>2, <1>3, <1>4, <2>1, <2>2, ReceiveFacts DEF TypeOK, LockTypeOK, IdsTypeOK, lockVars
<1>6. \A t \in Threads : Begins(handled[t], dispatched[t])' /\ MailboxInv(t)'
  BY <1>1, <1>2, MailboxesKept
<1>7. TablesInv'
  <2>1. request'.number # 0 /\ request'.message.clientId = c
    BY <1>1, ReceiveFacts
  <2>2. \A d \in ClientIds : Leads(d)'
    BY <1>1, <1>2, IdleFacts DEF Leads, Known
  <2>. QED
    BY <1>1, <1>2, <1>3, <1>4, <2>1, <2>2 DEF TablesInv, Addressing, Retiring, Known
<1>8. ASSUME ~areServerIdsReused PROVE UniqueInv'
  <2>1. UniqueInv /\ \A d \in ClientIds : Known(d) => isThreadActive[clientIds[d]] # "stopped"
    BY <1>2, <1>8, IdleFacts
  <2>2. PICK u \in Threads : handled[u] # <<>> /\ serverId[u] = i
    BY <1>1, <1>3, Constants DEF Receive, KnownIds
  <2>3. threadPc[u] # "none"
    BY <1>2, <2>2 DEF ServerInv, MailboxInv
  <2>4. \A t \in Threads : threadPc[t] # "none" /\ serverId[t] = i => t = u
    BY <2>1, <2>2, <2>3 DEF UniqueInv
  <2>5. isThreadActive \in [ServerIds -> {"absent", "active", "stopped"}]
    BY <1>2 DEF TypeOK
  <2>6. \A k \in ServerIds :
          isThreadActive'[k] = IF k = i THEN "stopped" ELSE isThreadActive[k]
    BY <1>1, <2>5
  <2>7. threadLocks[i] # Main /\ request'.message.clientId = c
    BY <1>1, <1>3, Constants, ReceiveFacts
  <2>8. \A t \in Threads :
          /\ threadPc'[t] # "none" => serverId'[t] \in ServerIds /\ threadLocks'[serverId'[t]] = t
          /\ threadPc'[t] # "none" /\ isThreadActive'[serverId'[t]] = "stopped"
               => handled'[t] # <<>>
          /\ threadPc'[t] \in Ending => handled'[t] # <<>>
    BY <1>1, <1>4, <2>1, <2>2, <2>4, <2>6 DEF UniqueInv
  <2>9. ASSUME NEW d \in ClientIds, Known(d)', isThreadActive'[clientIds'[d]] = "stopped"
        PROVE  d = c
    <3>1. Known(d) /\ clientIds'[d] = clientIds[d] /\ clientIds[d] \in ServerIds
      BY <1>1, <1>2, <2>9, IdleFacts DEF Known
    <3>2. clientIds[d] = i
      BY <2>1, <2>6, <2>9, <3>1
    <3>. QED
      BY <1>2, <1>3, <3>1, <3>2 DEF TablesInv
  <2>. QED
    BY <1>1, <2>1, <2>6, <2>7, <2>8, <2>9 DEF UniqueInv
<1>9. RetireInv'
  <2>1. serverId[threadLocks[i]] = i
    BY <1>2, <1>3, Constants DEF TablesInv
  <2>2. isThreadActive'[i] = "stopped"
    BY <1>1, <1>2, <1>3 DEF TypeOK
  <2>. QED
    BY <1>1, <1>4, <2>1, <2>2 DEF RetireInv, Woken
<1>. QED
  BY <1>2, <1>5, <1>6, <1>7, <1>8, <1>9 DEF ServerInv

LEMMA GetMessageStep ==
  ASSUME ServerInv, UNCHANGED areServerIdsReused, NEW m \in Requests, GetMessage(m)
  PROVE  ServerInv'
<1>1. /\ Receive(m) /\ ~NeedsThread(m)
      /\ \/ UNCHANGED <<mainPc, addressee>>
         \/ /\ Resolved(m) # NULL_SERVER_ID /\ mainPc' = "dispatch"
            /\ addressee' = threadLocks[Resolved(m)]
      /\ UNCHANGED <<lockVars, threadVars, messages, dispatched, idVars, isThreadActive,
                     threadLocks>>
  BY DEF GetMessage, UnchangedByMain, ThreadOf
<1>2. mainPc = "getMessage" /\ TypeOK /\ TablesInv /\ ~Signalling /\ flag' = flag
  BY <1>1, ReceiveFacts, IdleFacts DEF lockVars, flag
<1>3. ~Signalling' /\ mainPc' \in {"getMessage", "dispatch"}
  BY <1>1, <1>2 DEF Signalling
<1>4. mainPc' = "dispatch" => addressee' \in Threads
  BY <1>1, <1>2, ReceiveFacts, IdleFacts DEF NeedsThread, Resolved
<1>5. TypeOK'
  BY <1>1, <1>2, <1>3, <1>4, ReceiveFacts DEF TypeOK, LockTypeOK, IdsTypeOK, lockVars,
     threadVars, idVars
<1>6. \A t \in Threads : Begins(handled[t], dispatched[t])' /\ MailboxInv(t)'
  BY <1>1, <1>2, <1>3, MailboxesKept
<1>7. TablesInv'
  BY <1>1, <1>2, <1>3, <1>4, ReceiveFacts, IdleFacts DEF TablesInv, Addressing, Retiring, Leads,
     Known, idVars, threadVars
<1>8. ~areServerIdsReused => UniqueInv'
  BY <1>1, <1>2, <1>3, IdleFacts DEF UniqueInv, Known, idVars, threadVars
<1>9. RetireInv'
  BY <1>3 DEF RetireInv, Retiring, Woken
<1>. QED
  BY <1>3, <1>5, <1>6, <1>7, <1>8, <1>9 DEF ServerInv

(* A thread is created under an id that no client's entry names.           *)
LEMMA CreateServerThreadStep ==
  ASSUME ServerInv, mainPc # "crashed", UNCHANGED areServerIdsReused, NEW i \in ServerIds,
         NEW t \in Threads, CreateServerThread(i, t)
  PROVE  ServerInv'
<1>. DEFINE c == request.message.clientId
<1>1. /\ mainPc = "create" /\ threadLocks[i] = Main /\ threadPc[t] = "none"
      /\ EnterId(c, i)
      /\ isThreadActive' = [isThreadActive EXCEPT ![i] = Inserted(i)]
      /\ threadLocks' = [threadLocks EXCEPT ![i] = t]
      /\ serverId' = [serverId EXCEPT ![t] = i]
      /\ threadPc' = [threadPc EXCEPT ![t] = "handle"]
      /\ UNCHANGED <<lockVars, request, currentState, handled, messages, dispatched>>
      /\ \/ mainPc' = "getMessage" /\ UNCHANGED addressee
         \/ mainPc' = "dispatch" /\ addressee' = t
  BY DEF CreateServerThread
<1>2. TypeOK /\ TablesInv /\ \A k \in Threads : MailboxInv(k)
  BY DEF ServerInv
<1>3. c \in ClientIds /\ i # NULL_SERVER_ID /\ t # Main
  BY <1>2, Constants DEF TypeOK, Requests
<1>. HIDE DEF c
<1>4. /\ \A k \in Threads : threadPc'[k] = IF k = t THEN "handle" ELSE threadPc[k]
      /\ \A k \in Threads : serverId'[k] = IF k = t THEN i ELSE serverId[k]
      /\ \A j \in ServerIds : threadLocks'[j] = IF j = i THEN t ELSE threadLocks[j]
      /\ \A j \in ServerIds : isThreadActive'[j] = IF j = i THEN Inserted(i) ELSE isThreadActive[j]
  BY <1>1, <1>2 DEF TypeOK
<1>5. \A d \in ClientIds : clientIds'[d] = IF d = c THEN i ELSE clientIds[d]
  BY <1>1, <1>2 DEF EnterId, TypeOK, IdsTypeOK
<1>6. \A d \in ClientIds : d # c /\ Known(d) =>
        /\ clientIds[d] \in ServerIds /\ threadLocks[clientIds[d]] \in Threads
        /\ clientIds[d] # i
  BY <1>1, <1>2, <1>3, Constants DEF TablesInv, Leads, Known, TypeOK, IdsTypeOK, c
<1>7. \A d \in ClientIds : Known(d)' <=> d = c \/ Known(d)
  BY <1>3, <1>5 DEF Known
<1>8. TypeOK'
  <2>1. Inserted(i) \in {"absent", "active", "stopped"}
    BY <1>2 DEF Inserted, TypeOK
  <2>2. IdsTypeOK'
    BY <1>1, <1>2, <1>3 DEF EnterId, TypeOK, IdsTypeOK
  <2>3. isThreadActive' \in [ServerIds -> {"absent", "active", "stopped"}]
    BY <1>1, <1>2, <2>1 DEF TypeOK
  <2>4. mainPc' \in {"getMessage", "dispatch"} /\ addressee' \in Threads \union {Main}
    BY <1>1, <1>2 DEF TypeOK
  <2>. QED
    BY <1>1, <1>2, <2>2, <2>3, <2>4 DEF TypeOK, LockTypeOK, lockVars
<1>9. /\ \A k \in Threads : Begins(handled[k], dispatched[k])'
      /\ ~Signalling /\ ~Signalling' /\ flag' = flag /\ mainPc' # "crashed"
  BY <1>1 DEF ServerInv, Signalling, lockVars, flag
<1>10. ASSUME NEW k \in Threads PROVE MailboxInv(k)'
  <2>1. CASE k # t
    <3>1. threadPc'[k] = threadPc[k] /\ (Pending(k)' <=> Pending(k))
      BY <1>1, <1>4, <1>9, <2>1 DEF Pending
    <3>. QED
      BY <1>1, <1>2, <1>9, <3>1 DEF MailboxInv
  <2>2. CASE k = t
    <3>1. /\ flag[t] /\ currentState[t] = "INITIALIZING" /\ threadPc'[t] = "handle"
          /\ handled[t] = <<>> /\ dispatched[t] = <<>>
      BY <1>1, <1>2, <1>4 DEF MailboxInv, Outside
    <3>2. ~Pending(t)'
      BY <1>1, <1>9, <3>1 DEF Pending
    <3>. QED
      BY <1>1, <1>9, <2>2, <3>1, <3>2 DEF MailboxInv
  <2>. QED
    BY <2>1, <2>2
<1>11. TablesInv'
  <2>1. Addressing' => addressee' \in Threads
    BY <1>1 DEF Addressing, Retiring
  <2>2. ~Retiring' /\ request'.number # 0
    BY <1>1, <1>2 DEF Retiring, TablesInv
  <2>3. ASSUME NEW j \in ServerIds, threadLocks'[j] # Main
        PROVE  serverId'[threadLocks'[j]] = j /\ threadPc'[threadLocks'[j]] # "none"
    <3>1. CASE j = i
      BY <1>4, <3>1
    <3>2. CASE j # i
      <4>1. threadLocks[j] \in Threads /\ threadPc[threadLocks[j]] # "none"
            /\ serverId[threadLocks[j]] = j /\ threadLocks'[j] = threadLocks[j]
        BY <1>2, <1>4, <2>3, <3>2 DEF TablesInv, TypeOK
      <4>. QED
        BY <1>1, <1>4, <4>1
    <3>. QED
      BY <3>1, <3>2
  <2>4. ASSUME NEW d \in ClientIds PROVE Leads(d)'
    BY <1>4, <1>5, <1>6, <1>7 DEF Leads
  <2>5. ASSUME NEW d \in ClientIds, NEW e \in ClientIds, Known(d)', clientIds'[d] = clientIds'[e]
        PROVE  d = e
    <3>1. Known(d) /\ d # c => d = e \/ e = c
      BY <1>2, <1>5, <2>5 DEF TablesInv
    <3>2. d = c /\ e # c => Known(e)
      BY <1>3, <1>5, <2>5 DEF Known
    <3>. QED
      BY <1>5, <1>6, <1>7, <2>5, <3>1, <3>2
  <2>. QED
    BY <2>1, <2>2, <2>3, <2>4, <2>5 DEF TablesInv
<1>12. ASSUME ~areServerIdsReused PROVE UniqueInv'
  <2>1. UniqueInv
    BY <1>12 DEF ServerInv
  <2>2. isThreadActive'[i] = "active"
    BY <1>1, <1>4, <2>1 DEF UniqueInv, Inserted
  <2>3. \A j \in ServerIds : threadLocks'[j] = Main => isThreadActive'[j] = "absent"
    BY <1>3, <1>4, <2>1 DEF UniqueInv
  <2>4. \A k \in Threads : threadPc[k] # "none" => serverId[k] \in ServerIds /\ serverId[k] # i
    BY <1>1, <2>1, Constants DEF UniqueInv
  <2>5. ASSUME NEW k \in Threads
        PROVE  /\ threadPc'[k] # "none" => serverId'[k] \in ServerIds
                                           /\ threadLocks'[serverId'[k]] = k
               /\ threadPc'[k] # "none" /\ isThreadActive'[serverId'[k]] = "stopped"
                    => handled'[k] # <<>>
               /\ threadPc'[k] \in Ending => handled'[k] # <<>>
    <3>1. CASE k = t
      BY <1>4, <2>2, <3>1 DEF Ending
    <3>2. CASE k # t
      BY <1>1, <1>4, <2>1, <2>4, <3>2 DEF UniqueInv
    <3>. QED
      BY <3>1, <3>2
  <2>6. ASSUME NEW d \in ClientIds, Known(d)', isThreadActive'[clientIds'[d]] = "stopped"
        PROVE  FALSE
    <3>1. d # c
      BY <1>5, <2>2, <2>6
    <3>2. Known(d) /\ clientIds'[d] = clientIds[d] /\ isThreadActive[clientIds[d]] = "stopped"
      BY <1>4, <1>5, <1>6, <1>7, <2>6, <3>1
    <3>. QED
      BY <2>1, <3>1, <3>2 DEF UniqueInv, c
  <2>. QED
    BY <1>1, <2>3, <2>5, <2>6 DEF UniqueInv
<1>13. RetireInv'
  BY <1>1 DEF RetireInv, Retiring, Woken
<1>. QED
  BY <1>1, <1>8, <1>9, <1>10, <1>11, <1>12, <1>13 DEF ServerInv

(* dispatchMessage writes the mailbox: its thread has finished with it.    *)
LEMMA CopyStep ==
  ASSUME ServerInv, mainPc # "crashed", UNCHANGED areServerIdsReused, Copy
  PROVE  ServerInv'
<1>. DEFINE a == addressee
            n == request.number
<1>1. /\ mainPc \in {"dispatch", "retire"} /\ ~flag[a]
      /\ messages' = [messages EXCEPT ![a] = n]
      /\ dispatched' = [dispatched EXCEPT ![a] = Append(dispatched[a], n)]
      /\ mainPc' = IF mainPc = "retire" THEN "signalRetire" ELSE "signal"
      /\ UNCHANGED <<lockVars, idVars, isThreadActive, threadLocks, request, addressee, threadVars>>
  BY DEF Copy, Dispatching, PassesSignalling, UnchangedByDispatch, flag
<1>2. TypeOK /\ TablesInv /\ \A k \in Threads : MailboxInv(k) /\ Begins(handled[k], dispatched[k])
  BY DEF ServerInv
<1>3. a \in Threads /\ n \in 1 .. MaxMessages /\ n \in 0 .. MaxMessages
  BY <1>1, <1>2, Constants DEF TablesInv, Addressing, Retiring, TypeOK
<1>. HIDE DEF a, n
<1>4. /\ flag' = flag /\ ~Signalling /\ Signalling'
      /\ UNCHANGED <<threadPc, currentState, handled, serverId>>
  BY <1>1 DEF lockVars, flag, Signalling, threadVars
<1>5. dispatched[a] \in Seq(1 .. MaxMessages) /\ handled[a] \in Seq(1 .. MaxMessages)
  BY <1>2, <1>3 DEF TypeOK
<1>6. /\ Append(dispatched[a], n) \in Seq(1 .. MaxMessages)
      /\ Len(Append(dispatched[a], n)) = Len(dispatched[a]) + 1
      /\ \A j \in 1 .. Len(dispatched[a]) : Append(dispatched[a], n)[j] = dispatched[a][j]
      /\ Len(dispatched[a]) \in Nat /\ Len(handled[a]) \in Nat
  BY <1>3, <1>5, AppendProperties, LenProperties
<1>7. \A k \in Threads :
        /\ dispatched'[k] = IF k = a THEN Append(dispatched[a], n) ELSE dispatched[k]
        /\ messages'[k] = IF k = a THEN n ELSE messages[k]
  BY <1>1, <1>2 DEF TypeOK
<1>8. TypeOK'
  <2>1. /\ dispatched' \in [Threads -> Seq(1 .. MaxMessages)]
        /\ messages' \in [Threads -> 0 .. MaxMessages]
    BY <1>1, <1>2, <1>3, <1>6 DEF TypeOK
  <2>. QED
    BY <1>1, <1>2, <2>1 DEF TypeOK, LockTypeOK, IdsTypeOK, lockVars, idVars, threadVars
<1>9. ASSUME NEW k \in Threads PROVE Begins(handled[k], dispatched[k])'
  <2>1. CASE k = a
    <3>1. Len(handled[a]) <= Len(dispatched[a])
          /\ \A j \in 1 .. Len(handled[a]) : handled[a][j] = dispatched[a][j]
      BY <1>2, <1>3 DEF Begins
    <3>2. dispatched'[a] = Append(dispatched[a], n) /\ handled'[a] = handled[a]
      BY <1>3, <1>4, <1>7
    <3>3. \A j \in 1 .. Len(handled[a]) : j \in 1 .. Len(dispatched[a])
      BY <1>6, <3>1
    <3>4. Len(handled[a]) <= Len(dispatched'[a])
      BY <1>6, <3>1, <3>2
    <3>5. \A j \in 1 .. Len(handled[a]) : handled[a][j] = dispatched'[a][j]
      BY <1>6, <3>1, <3>2, <3>3
    <3>. QED
      BY <2>1, <3>2, <3>4, <3>5 DEF Begins
  <2>2. CASE k # a
    BY <1>2, <1>4, <1>7, <2>2
  <2>. QED
    BY <2>1, <2>2
<1>10. ASSUME NEW k \in Threads PROVE MailboxInv(k)'
  <2>1. CASE k = a
    <3>1. threadPc[a] \in Outside /\ currentState[a] # "INITIALIZING" /\ ~Pending(a)
      BY <1>1, <1>2, <1>3, <1>4 DEF MailboxInv, Outside, Pending, a
    <3>2. Pending(k)'
      BY <1>1, <1>4, <2>1 DEF Pending, a
    <3>3. threadPc[a] \notin Ending => dispatched[a] = handled[a]
      BY <1>2, <1>3, <3>1 DEF MailboxInv
    <3>4. threadPc'[a] \notin Ending => dispatched'[a] = Append(handled'[a], messages'[a])
      BY <1>3, <1>4, <1>7, <3>3
    <3>5. handled'[a] # <<>> => currentState'[a] = "READY"
      BY <1>2, <1>3, <1>4 DEF MailboxInv
    <3>6. threadPc'[a] \in Outside /\ currentState'[a] # "INITIALIZING"
      BY <1>4, <3>1
    <3>. QED
      BY <2>1, <3>2, <3>4, <3>5, <3>6 DEF MailboxInv, Outside
  <2>2. CASE k # a
    <3>1. Pending(k)' <=> Pending(k)
      BY <1>1, <1>4, <2>2 DEF Pending, a
    <3>. QED
      BY <1>2, <1>4, <1>7, <2>2, <3>1 DEF MailboxInv
  <2>. QED
    BY <2>1, <2>2
<1>11. TablesInv'
  BY <1>1, <1>2, <1>4 DEF TablesInv, Addressing, Retiring, Leads, Known, idVars
<1>12. ~areServerIdsReused => UniqueInv'
  BY <1>1, <1>4 DEF ServerInv, UniqueInv, Known, idVars
<1>13. RetireInv'
  BY <1>1, <1>4 DEF ServerInv, RetireInv, Retiring, Woken
<1>. QED
  BY <1>1, <1>4, <1>8, <1>9, <1>10, <1>11, <1>12, <1>13 DEF ServerInv, a

LEMMA SignalStep ==
  ASSUME ServerInv, mainPc # "crashed", UNCHANGED areServerIdsReused, Signal
  PROVE  ServerInv'
<1>. DEFINE a == addressee
<1>1. /\ mainPc \in {"signal", "signalRetire"} /\ SetConsumptionState(a, TRUE)
      /\ mainPc' = IF mainPc = "signalRetire" THEN "notifyRetire" ELSE "notify"
      /\ UNCHANGED <<idVars, isThreadActive, threadLocks, request, addressee, threadVars,
                     messages, dispatched>>
  BY DEF Signal, UnchangedByDispatch
<1>2. /\ TypeOK /\ TablesInv /\ Signalling /\ ~flag[a]
      /\ \A k \in Threads : MailboxInv(k) /\ Begins(handled[k], dispatched[k])
  BY <1>1 DEF ServerInv, Signalling
<1>3. a \in Threads /\ a \in Locks
  BY <1>1, <1>2, Constants DEF TablesInv, Addressing, Retiring
<1>. HIDE DEF a
<1>4. /\ LockTypeOK' /\ flag'[a] = TRUE /\ \A k \in Threads : k # a => flag'[k] = flag[k]
      /\ ~Signalling' /\ UNCHANGED <<threadPc, currentState, handled, serverId>>
  BY <1>1, <1>2, <1>3, SetFlag, Constants DEF TypeOK, Signalling, threadVars
<1>5. TypeOK'
  BY <1>1, <1>2, <1>4 DEF TypeOK, IdsTypeOK, idVars, threadVars
<1>6. ASSUME NEW k \in Threads PROVE MailboxInv(k)'
  <2>1. CASE k = a
    <3>1. threadPc[k] \in Outside /\ currentState[k] # "INITIALIZING" /\ Pending(k)
      BY <1>2, <1>3, <2>1 DEF MailboxInv, Outside, Pending, a
    <3>2. threadPc[k] \notin Ending => Pending(k)'
      BY <1>4, <2>1, <3>1 DEF Pending, Outside, Ending
    <3>. QED
      BY <1>1, <1>2, <1>4, <2>1, <3>1, <3>2 DEF MailboxInv, Outside
  <2>2. CASE k # a
    <3>1. Pending(k)' <=> Pending(k)
      BY <1>1, <1>4, <2>2 DEF Pending, a
    <3>. QED
      BY <1>1, <1>2, <1>4, <2>2, <3>1 DEF MailboxInv
  <2>. QED
    BY <2>1, <2>2
<1>7. TablesInv'
  BY <1>1, <1>2, <1>4 DEF TablesInv, Addressing, Retiring, Leads, Known, idVars
<1>8. ~areServerIdsReused => UniqueInv'
  BY <1>1, <1>4 DEF ServerInv, UniqueInv, Known, idVars
<1>9. \A k \in Threads : Begins(handled[k], dispatched[k])'
  BY <1>1, <1>2, <1>4
<1>10. RetireInv'
  <2>1. threadPc[a] \in Outside
    BY <1>2, <1>3 DEF MailboxInv
  <2>2. Leaves(threadPc'[a], flag'[a])
    BY <1>4, <2>1 DEF Leaves, Outside
  <2>3. Retiring' => Retiring
    BY <1>1 DEF Retiring
  <2>. QED
    BY <1>1, <1>4, <2>2, <2>3 DEF ServerInv, RetireInv, a
<1>. QED
  BY <1>1, <1>4, <1>5, <1>6, <1>7, <1>8, <1>9, <1>10 DEF ServerInv

LEMMA NotifyStep ==
  ASSUME ServerInv, mainPc # "crashed", UNCHANGED areServerIdsReused, Notify
  PROVE  ServerInv'
<1>1. /\ mainPc \in {"notify", "notifyRetire", "notifyErase"} /\ NotifyReader(addressee)
      /\ mainPc' = IF mainPc = "notify" THEN "getMessage"
                   ELSE IF mainPc = "notifyRetire" /\ areServerIdsReused THEN "erase"
                   ELSE "create"
      /\ UNCHANGED <<idVars, isThreadActive, threadLocks, request, addressee, threadVars,
                     messages, dispatched>>
  BY DEF Notify, UnchangedByDispatch
<1>2. TypeOK /\ TablesInv /\ ~Signalling /\ ~Signalling'
  BY <1>1 DEF ServerInv, Signalling
<1>3. LockTypeOK' /\ flag' = flag
  BY <1>1, <1>2, LockSteps, Constants DEF TypeOK, flag
<1>4. TypeOK'
  BY <1>1, <1>2, <1>3 DEF TypeOK, IdsTypeOK, idVars, threadVars
<1>5. \A t \in Threads : Begins(handled[t], dispatched[t])' /\ MailboxInv(t)'
  BY <1>1, <1>2, <1>3, MailboxesKept
<1>6. TablesInv'
  <2>1. \A c \in ClientIds : Leads(c)'
    BY <1>1, <1>2 DEF TablesInv, Leads, Known, idVars
  <2>. QED
    BY <1>1, <1>2, <2>1 DEF TablesInv, Addressing, Retiring, Known, idVars, threadVars
<1>7. ~areServerIdsReused => UniqueInv'
  BY <1>1 DEF ServerInv, UniqueInv, Known, idVars, threadVars
<1>8. RetireInv'
  BY <1>1, <1>3 DEF ServerInv, RetireInv, Retiring, Woken, threadVars
<1>. QED
  BY <1>1, <1>2, <1>4, <1>5, <1>6, <1>7, <1>8 DEF ServerInv

(* Ids are reused: the retired thread's entry is erased, before its client *)
(* gets another.                                                           *)
LEMMA EraseStep ==
  ASSUME ServerInv, mainPc # "crashed", UNCHANGED areServerIdsReused, Erase
  PROVE  ServerInv'
<1>. DEFINE c == request.message.clientId
            i == serverId[addressee]
<1>1. /\ mainPc = "erase" /\ mainPc' = "notifyErase" /\ ~flag[addressee]
      /\ threadLocks' = [threadLocks EXCEPT ![i] = Main]
      /\ SetConsumptionState(addressee, TRUE)
      /\ UNCHANGED <<idVars, isThreadActive, request, addressee, threadVars,
                     messages, dispatched>>
  BY DEF Erase, PassesSignalling, flag
<1>2. /\ TypeOK /\ TablesInv /\ RetireInv /\ ~Signalling /\ ~Signalling'
      /\ \A k \in Threads : MailboxInv(k) /\ Begins(handled[k], dispatched[k])
  BY <1>1 DEF ServerInv, Signalling
<1>3. areServerIdsReused'
  BY <1>1 DEF ServerInv, UniqueInv, TypeOK
<1>4. c \in ClientIds /\ Known(c) /\ clientIds[c] \in ServerIds /\ i = clientIds[c]
  <2>1. c \in ClientIds /\ Known(c) /\ addressee = threadLocks[clientIds[c]] /\ addressee \in Threads
    BY <1>1, <1>2 DEF TablesInv, Addressing, Retiring, TypeOK, Requests
  <2>2. clientIds[c] \in ServerIds
    BY <1>2, <2>1 DEF TypeOK, IdsTypeOK, Known
  <2>. QED
    BY <1>2, <2>1, <2>2, Constants DEF TablesInv
<1>5. \A j \in ServerIds : threadLocks'[j] = IF j = i THEN Main ELSE threadLocks[j]
  BY <1>1, <1>2 DEF TypeOK
<1>6. PICK a \in Threads : a = addressee
  BY <1>1, <1>2 DEF TablesInv, Addressing, Retiring
<1>7. /\ LockTypeOK' /\ flag'[a] = TRUE /\ \A k \in Threads : k # a => flag'[k] = flag[k]
      /\ UNCHANGED <<threadPc, currentState, handled, serverId>>
  BY <1>1, <1>2, <1>6, SetFlag, Constants DEF TypeOK, threadVars
<1>8. TypeOK'
  BY <1>1, <1>2, <1>7 DEF TypeOK, IdsTypeOK, idVars, threadVars
<1>9. ASSUME NEW k \in Threads
      PROVE  Begins(handled[k], dispatched[k])' /\ MailboxInv(k)'
  <2>1. CASE k = a
    <3>1. threadPc[k] \in {"exitNotify", "deleted"}
      BY <1>1, <1>2, <1>6, <2>1 DEF RetireInv, Woken, Leaves
    <3>2. /\ threadPc'[k] = threadPc[k] /\ currentState'[k] = currentState[k]
          /\ handled'[k] = handled[k] /\ dispatched'[k] = dispatched[k]
      BY <1>1, <1>7
    <3>3. flag'[k]
      BY <1>7, <2>1, Zenon
    <3>4. MailboxInv(k) /\ Begins(handled[k], dispatched[k])
      BY <1>2
    <3>5. threadPc[k] \in Ending /\ threadPc[k] \notin {"none", "handle"}
      BY <3>1 DEF Ending
    <3>6. MailboxInv(k)'
      BY <3>2, <3>3, <3>4, <3>5 DEF MailboxInv
    <3>. QED
      BY <3>2, <3>4, <3>6
  <2>2. CASE k # a
    <3>1. Pending(k)' <=> Pending(k)
      BY <1>2, <1>7, <2>2 DEF Pending
    <3>. QED
      BY <1>1, <1>2, <1>7, <2>2, <3>1 DEF MailboxInv
  <2>. QED
    BY <2>1, <2>2
<1>10. TablesInv'
  <2>1. ASSUME NEW d \in ClientIds PROVE Leads(d)'
    <3>1. CASE d = c
      BY <1>1, <3>1 DEF Leads
    <3>2. CASE d # c
      <4>1. Known(d) => threadLocks[clientIds[d]] \in Threads /\ clientIds[d] # i
                        /\ clientIds[d] \in ServerIds
        BY <1>1, <1>2, <1>4, <3>2 DEF TablesInv, Leads, TypeOK, IdsTypeOK, Known
      <4>2. Known(d)' <=> Known(d)
        BY <1>1 DEF Known, idVars
      <4>. QED
        BY <1>1, <1>5, <4>1, <4>2 DEF Leads, idVars
    <3>. QED
      BY <3>1, <3>2
  <2>2. \A j \in ServerIds : threadLocks'[j] # Main => threadLocks'[j] = threadLocks[j]
    BY <1>5
  <2>. QED
    BY <1>1, <1>2, <2>1, <2>2 DEF TablesInv, Addressing, Retiring, Known, idVars, threadVars
<1>11. RetireInv'
  BY <1>1 DEF RetireInv, Retiring, Woken
<1>. QED
  BY <1>1, <1>2, <1>3, <1>8, <1>9, <1>10, <1>11 DEF ServerInv

LEMMA MainStepKeeps == ASSUME ServerInv, MainStep PROVE ServerInv'
<1>1. mainPc # "crashed" /\ UNCHANGED areServerIdsReused
  BY DEF MainStep
<1>2. CASE MainSleeps
  <2>1. LockTypeOK' /\ UNCHANGED isConsumptionState
    BY <1>2, LockSteps, Constants DEF MainSleeps, ServerInv, TypeOK
  <2>. QED
    BY <1>1, <1>2, <2>1, QuietStep DEF MainSleeps
<1>. QED
  BY <1>1, <1>2, CreateServerThreadStep, CopyStep, SignalStep, NotifyStep, EraseStep DEF MainStep

LEMMA ServerStep == ServerInv /\ [Next]_vars => ServerInv'
<1>. SUFFICES ASSUME ServerInv, [Next]_vars PROVE ServerInv'
  OBVIOUS
<1>1. CASE UNCHANGED vars
  <2>1. LockTypeOK' /\ UNCHANGED isConsumptionState
    BY <1>1 DEF vars, lockVars, ServerInv, TypeOK, LockTypeOK
  <2>. QED
    BY <1>1, <2>1, QuietStep DEF vars
<1>2. ASSUME NEW u \in Users, Spurious(u) PROVE ServerInv'
  <2>1. LockTypeOK' /\ UNCHANGED isConsumptionState
    BY <1>2, LockSteps DEF Spurious, ServerInv, TypeOK
  <2>. QED
    BY <1>2, <2>1, QuietStep DEF Spurious
<1>3. CASE Arrival
  BY <1>3, GetFirstMessageStep, GetHandshakeStep, GetMessageStep DEF Arrival
<1>. QED
  BY <1>1, <1>2, <1>3, MainStepKeeps, ThreadStepKeeps DEF Next

LEMMA ServerInvariant == Spec => []ServerInv
BY ServerInit, ServerStep, PTL DEF Spec

-----------------------------------------------------------------------------
(* Types of the server's tables, mailboxes and threads.                    *)
THEOREM ServerTypeCorrect == Spec => []TypeOK
<1>1. ServerInv => TypeOK
  BY DEF ServerInv
<1>. QED
  BY <1>1, ServerInvariant, PTL

(* FtpServer::dispatchMessage (FtpServer.cpp:126-132) writes a thread's    *)
(* message only while that thread cannot be reading it.                    *)
THEOREM MailboxExclusiveTheorem == Spec => []MailboxExclusive
<1>1. ServerInv => MailboxExclusive
  BY DEF ServerInv, MailboxInv, TablesInv, Addressing, Retiring, Signalling, Outside,
         MailboxExclusive
<1>. QED
  BY <1>1, ServerInvariant, PTL

(* A thread handles what is dispatched to it one by one and in order.      *)
THEOREM HandledInOrderTheorem == Spec => []HandledInOrder
<1>1. ServerInv => HandledInOrder
  <2>. SUFFICES ASSUME ServerInv, NEW t \in Threads
                PROVE  /\ Len(handled[t]) <= Len(dispatched[t])
                       /\ handled[t] = SubSeq(dispatched[t], 1, Len(handled[t]))
    BY DEF HandledInOrder
  <2>. DEFINE h == handled[t]
              d == dispatched[t]
              S == 1 .. MaxMessages
  <2>1. h \in Seq(S) /\ d \in Seq(S) /\ Begins(h, d)
    BY DEF ServerInv, TypeOK
  <2>. HIDE DEF h, d, S
  <2>2. Len(h) \in Nat /\ Len(d) \in Nat /\ Len(h) <= Len(d)
    BY <2>1, LenProperties DEF Begins
  <2>3. /\ SubSeq(d, 1, Len(h)) \in Seq(S)
        /\ Len(SubSeq(d, 1, Len(h))) = Len(h)
        /\ \A j \in 1 .. Len(h) : SubSeq(d, 1, Len(h))[j] = d[j]
    BY <2>1, <2>2, SubSeqProperties
  <2>4. \A j \in 1 .. Len(h) : h[j] = SubSeq(d, 1, Len(h))[j]
    BY <2>1, <2>3 DEF Begins
  <2>5. h = SubSeq(d, 1, Len(h))
    BY <2>1, <2>3, <2>4, SeqEqual
  <2>. QED
    BY <2>2, <2>5 DEF h, d
<1>. QED
  BY <1>1, ServerInvariant, PTL

(* While ids are not reused, FtpServer::getServerId (FtpServer.cpp:134-179)*)
(* sends no client's messages to a thread that was told to stop.           *)
THEOREM CurrentThreadServesTheorem == Spec => []CurrentThreadServes
<1>1. ServerInv => CurrentThreadServes
  BY DEF ServerInv, UniqueInv, CurrentThreadServes
<1>. QED
  BY <1>1, ServerInvariant, PTL

(* While ids are not reused, a thread has answered its client, and so has  *)
(* the sender and receiver that it terminates, before it ends.             *)
THEOREM UniqueIdsServeTheorem == Spec => []UniqueIdsServe
<1>1. ServerInv => UniqueIdsServe
  BY DEF ServerInv, UniqueInv, MailboxInv, Ending, UniqueIdsServe, EndsAfterServing
<1>. QED
  BY <1>1, ServerInvariant, PTL

=============================================================================
