------------------------------- MODULE Sender -------------------------------
(***************************************************************************)
(* Common/Sender.{h,cpp}: the sending half of the selective-repeat         *)
(* transfer and its retransmission threads.                                *)
(*                                                                         *)
(* The owner of the Sender (FtpClient::performUpload, or a ServerThread    *)
(* that serves GET_FILE or GET_LIST) calls initializePayload and send, and *)
(* then processAck for every ACK.  Each outstanding packet has a           *)
(* SenderThread of its own, a loop that tests the flag it shares with the  *)
(* window, calls sendto and sleeps.  The test and the sendto are two       *)
(* steps: an acknowledgement may be processed between them.                *)
(*                                                                         *)
(* The module has no Next: modules that compose a Sender say what a sendto *)
(* does to the network and where acknowledgements come from.               *)
(***************************************************************************)
EXTENDS Common

VARIABLES
  currentWindowOrigin, \* oldest packet not known to be acknowledged
  windowState,         \* slot -> packet whose flag it points to, or NULL
  currentWindow,       \* slot -> packet whose thread it points to, or NULL
  isAcked,             \* packet -> the flag its SenderThread tests
  thread,              \* packet -> where its SenderThread is
  isPayloadSent        \* Sender::isComplete

senderVars == <<currentWindowOrigin, windowState, currentWindow, isAcked,
                thread, isPayloadSent>>

(* "idle": not created; "running": about to test *isAcked; "committed":    *)
(* found the flag false and is about to call sendto; "done": left the loop *)
(* and deleted itself; "failed": returned because sendto failed; "twice":  *)
(* given a second SenderThread, whatever the first one was doing.          *)
ThreadStates == {"idle", "running", "committed", "done", "failed", "twice"}

(* Window arrays w with the slots of the packets in S pointing to them.    *)
Launch(w, S) ==
  [s \in Slots |-> IF \E p \in S : Slot(p) = s
                   THEN CHOOSE p \in S : Slot(p) = s
                   ELSE w[s]]

(* Mutant of Missing: normalizeCurrentWindow without its test for NULL.    *)
MissingOrNot(w, origin) ==
  {p \in DataPackets : origin <= p /\ p < origin + WINDOW_SIZE}

(* Packets of the window at origin that normalizeCurrentWindow starts.     *)
Missing(w, origin) ==
  {p \in DataPackets : /\ origin <= p
                       /\ p < origin + WINDOW_SIZE
                       /\ w[Slot(p)] = NULL}

Started(S) ==
  [p \in Packets |-> IF p \notin S THEN thread[p]
                     ELSE IF thread[p] = "idle" THEN "running" ELSE "twice"]

(* A Sender that has no payload yet.                                       *)
SenderCreated ==
  /\ currentWindowOrigin = 0
  /\ windowState = EmptyWindow
  /\ currentWindow = EmptyWindow
  /\ isAcked = [p \in Packets |-> FALSE]
  /\ thread = [p \in Packets |-> "idle"]
  /\ isPayloadSent = FALSE

(* initializePayload followed by send, as both callers do.                 *)
SenderInit ==
  LET first == Missing(EmptyWindow, 0) IN
  /\ currentWindowOrigin = 0
  /\ windowState = Launch(EmptyWindow, first)
  /\ currentWindow = Launch(EmptyWindow, first)
  /\ isAcked = [p \in Packets |-> FALSE]
  /\ thread = [p \in Packets |-> IF p \in first THEN "running" ELSE "idle"]
  /\ isPayloadSent = FALSE

(* The same as a step: threads of an earlier payload are forgotten, one    *)
(* that is about to call sendto included.                                  *)
StartPayload ==
  LET first == Missing(EmptyWindow, 0) IN
  /\ currentWindowOrigin' = 0
  /\ windowState' = Launch(EmptyWindow, first)
  /\ currentWindow' = Launch(EmptyWindow, first)
  /\ isAcked' = [p \in Packets |-> FALSE]
  /\ thread' = [p \in Packets |-> IF p \in first THEN "running" ELSE "idle"]
  /\ isPayloadSent' = FALSE

(* Mutant of IsNextOrigin: processAck slides over unacknowledged packets.  *)
IsFarthestOrigin(w, origin) ==
  /\ origin \in currentWindowOrigin .. numberOfPackets
  /\ origin <= currentWindowOrigin + WINDOW_SIZE
  /\ origin = numberOfPackets \/ origin = currentWindowOrigin + WINDOW_SIZE

(* The loop of processAck stops at the first slot whose thread pointer is  *)
(* still set, at the end of the payload, or after WINDOW_SIZE packets.     *)
IsNextOrigin(w, origin) ==
  /\ origin \in currentWindowOrigin .. numberOfPackets
  /\ origin <= currentWindowOrigin + WINDOW_SIZE
  /\ \A p \in currentWindowOrigin .. (origin - 1) : w[Slot(p)] = NULL
  /\ \/ origin = numberOfPackets
     \/ origin = currentWindowOrigin + WINDOW_SIZE
     \/ w[Slot(origin)] # NULL

(* Mutant of RaiseFlag: processAck forgets *windowState[index] = true.     *)
KeepFlag(index) == UNCHANGED isAcked

(* The flag the acknowledged slot points to, if any, is raised.            *)
RaiseFlag(index) ==
  isAcked' = [p \in Packets |-> isAcked[p] \/ windowState[index] = p]

ClearedSlot(index) == [currentWindow EXCEPT ![index] = NULL]

(* Mutant of Passed: processAck does not reset windowState.                *)
NotPassed(origin) == windowState

(* windowState with the slots of the packets below origin set to NULL.     *)
Passed(origin) ==
  [s \in Slots |-> IF \E p \in currentWindowOrigin .. (origin - 1) : Slot(p) = s
                   THEN NULL ELSE windowState[s]]

(* processAck while data packets are outstanding: the window slides, and   *)
(* either new threads fill it or the EOF message is started.               *)
ProcessDataAck(index) ==
  /\ currentWindowOrigin # numberOfPackets
  /\ RaiseFlag(index)
  /\ \E origin \in Packets :
       LET new == IF origin = numberOfPackets THEN {Eof}
                  ELSE Missing(Passed(origin), origin)
       IN  /\ IsNextOrigin(ClearedSlot(index), origin)
           /\ currentWindowOrigin' = origin
           /\ windowState' = Launch(Passed(origin), new)
           /\ currentWindow' = Launch(ClearedSlot(index), new)
           /\ thread' = Started(new)
  /\ UNCHANGED isPayloadSent

(* Mutant of ProcessEofAck: any acknowledgement completes the payload.     *)
ProcessAnyEofAck(index) ==
  /\ currentWindowOrigin = numberOfPackets
  /\ RaiseFlag(index)
  /\ currentWindow' = ClearedSlot(index)
  /\ isPayloadSent' = TRUE
  /\ UNCHANGED <<currentWindowOrigin, windowState, thread>>

(* processAck once every data packet is acknowledged: only the sequence    *)
(* number of the EOF message completes the payload.                        *)
ProcessEofAck(index) ==
  /\ currentWindowOrigin = numberOfPackets
  /\ RaiseFlag(index)
  /\ currentWindow' = ClearedSlot(index)
  /\ isPayloadSent' = (index = Slot(Eof))
  /\ UNCHANGED <<currentWindowOrigin, windowState, thread>>

(* Neither owner calls processAck once isPayloadSent() is true.            *)
ProcessAck(index) ==
  /\ ~isPayloadSent
  /\ ProcessDataAck(index) \/ ProcessEofAck(index)

(* terminateCurrentTransmission raises the flags of the threads in the     *)
(* first WINDOW_SIZE slots, whichever the window is.                       *)
TerminateCurrentTransmission ==
  LET visited == {s \in Slots : s < WINDOW_SIZE /\ windowState[s] # NULL} IN
  /\ isPayloadSent' = TRUE
  /\ isAcked' = [p \in Packets |-> isAcked[p] \/ \E s \in visited : windowState[s] = p]
  /\ windowState' = [s \in Slots |-> IF s \in visited THEN NULL ELSE windowState[s]]
  /\ currentWindow' = [s \in Slots |-> IF s \in visited THEN NULL ELSE currentWindow[s]]
  /\ UNCHANGED <<currentWindowOrigin, thread>>

SenderFinalSequenceNumber ==
  (sequenceSeed + numberOfPackets + 1) % SEQUENCE_RANGE

-----------------------------------------------------------------------------
(* The iterations of SenderThread::run for packet p.                       *)
Transition(p, from, to) ==
  /\ thread[p] = from
  /\ thread' = [thread EXCEPT ![p] = to]
  /\ UNCHANGED <<currentWindowOrigin, windowState, currentWindow, isAcked,
                 isPayloadSent>>

ThreadExit(p)   == isAcked[p] /\ Transition(p, "running", "done")
ThreadCommit(p) == ~isAcked[p] /\ Transition(p, "running", "committed")

(* sendto succeeds: the caller puts packet p on the network.               *)
ThreadSend(p)   == Transition(p, "committed", "running")

(* sendto fails: run() returns and nothing retransmits packet p any more.  *)
ThreadFail(p)   == Transition(p, "committed", "failed")

=============================================================================
