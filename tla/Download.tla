----------------------------- MODULE Download -----------------------------
(***************************************************************************)
(* FtpClient::performGet and performList against ServerThread::sendFile,   *)
(* sendList and its state SENDING.  The client repeats its request until   *)
(* the first packet arrives; once it has the file it acknowledges repeated *)
(* EOFs until its socket stays empty for two timer delays.                 *)
(*                                                                         *)
(* The directory listing is a payload like any other.                      *)
(***************************************************************************)
EXTENDS Operation

(* Mutant of NsfNumber: the number is not reduced.                         *)
NsfNumberUnreduced == RequestNumber + 1

(* The RESP_ERR with text "NSF" and the number that follows the request's. *)
NSF == -3

NsfNumber == (RequestNumber + 1) % SEQUENCE_RANGE

DownloadInit ==
  /\ OperationInit
  /\ operation \in {"GET_FILE", "GET_LIST"}
  /\ fileExists \in BOOLEAN
  /\ operation = "GET_LIST" => fileExists

Downloading == operation \in {"GET_FILE", "GET_LIST"}

(* Mutant of RepeatGet: nothing raises the flag of the thread.             *)
RepeatGetOnAndOn ==
  /\ Downloading
  /\ requestThread \in {"committed", "done"}
  /\ phase \notin {"returned", "refused"}
  /\ requestThread' = "running"
  /\ Acknowledge(Request)
  /\ UNCHANGED <<senderVars, receiverVars, dataNetwork, operation, fileExists, phase,
                 serverState>>

(* The thread that repeats GET_FILE or GET_LIST.                           *)
RepeatGet ==
  /\ Downloading
  /\ RequestStep("committed", "running")
  /\ Acknowledge(Request)
  /\ UNCHANGED <<senderVars, receiverVars, dataNetwork>>

-----------------------------------------------------------------------------
(* The server thread.                                                      *)

(* sendFile and sendList, when the thread waits for a request.             *)
SendFile ==
  /\ serverState = "WAITING_FOR_REQUEST"
  /\ fileExists
  /\ StartPayload
  /\ serverState' = "SENDING"
  /\ UNCHANGED dataNetwork

NoSuchFile ==
  /\ serverState = "WAITING_FOR_REQUEST"
  /\ ~fileExists
  /\ Transmit(NSF)
  /\ UNCHANGED <<senderVars, serverState>>

(* Anything but an ACK in state SENDING, and an ACK in any other.          *)
Ignore ==
  /\ UNCHANGED <<senderVars, dataNetwork, serverState>>
  /\ \/ serverState = "retired"
     \/ serverState = "SENDING" /\ Head(ackLeaving) = Request
     \/ serverState = "WAITING_FOR_REQUEST" /\ Head(ackLeaving) # Request

AnswerGet == Head(ackLeaving) = Request /\ (SendFile \/ NoSuchFile)

DispatchToSender ==
  /\ serverState = "SENDING"
  /\ Head(ackLeaving) # Request
  /\ ProcessAck(Head(ackLeaving))
  /\ serverState' = IF isPayloadSent' THEN "WAITING_FOR_REQUEST" ELSE serverState
  /\ UNCHANGED dataNetwork

SendingServerReceives ==
  /\ Downloading
  /\ ackLeaving # <<>>
  /\ AnswerGet \/ DispatchToSender \/ Ignore
  /\ ackLeaving' = Tail(ackLeaving)
  /\ UNCHANGED <<receiverVars, ackHeld, operation, fileExists, requestThread, phase>>

(* The HANDSHAKE of the client's next operation ends the thread.           *)
Retire ==
  /\ Downloading
  /\ phase \in {"returned", "refused"}
  /\ serverState # "retired"
  /\ TerminateCurrentTransmission
  /\ serverState' = "retired"
  /\ UNCHANGED <<receiverVars, dataNetwork, ackNetwork, operation, fileExists,
                 requestThread, phase>>

-----------------------------------------------------------------------------
(* The client.                                                             *)

(* A RESP with the number of the request stops the request.                *)
PhaseAfterData(p) == IF Slot(p) = RequestNumber THEN "transferring" ELSE phase

(* handleMsg, while the payload is not complete.                           *)
ReceiveDownloaded(p) ==
  /\ phase \in {"requesting", "transferring"}
  /\ p # NSF
  /\ \/ ReceiveData(p) /\ phase' = PhaseAfterData(p)
     \/ ReceiveEof(p) /\ phase' = IF isPayloadComplete' THEN "finishing" ELSE phase

(* handleMsg and performGet compare the number with the one that follows.  *)
ReceiveNsf ==
  /\ phase \in {"requesting", "transferring"}
  /\ Head(dataLeaving) = NSF
  /\ NsfNumber = (RequestNumber + 1) % SEQUENCE_RANGE
  /\ Acknowledge(NsfNumber)
  /\ phase' = "refused"
  /\ UNCHANGED receiverVars

(* The loop around waitTimeOut: every EOF is acknowledged.                 *)
Finish(p) ==
  /\ phase = "finishing"
  /\ UNCHANGED <<receiverVars, phase>>
  /\ IF p = Eof THEN Acknowledge(Slot(Eof)) ELSE UNCHANGED ackNetwork

(* The next syncServer reads and drops what is left.                       *)
Drain ==
  /\ phase \in {"returned", "refused"}
  /\ UNCHANGED <<receiverVars, phase, ackNetwork>>

DownloaderReceives ==
  /\ Downloading
  /\ dataLeaving # <<>>
  /\ LET m == Head(dataLeaving) IN
       ReceiveDownloaded(m) \/ ReceiveNsf \/ Finish(m) \/ Drain
  /\ dataLeaving' = Tail(dataLeaving)
  /\ UNCHANGED <<senderVars, dataHeld, operation, fileExists, requestThread, serverState>>

(* waitTimeOut finds the socket empty.                                     *)
TimeOut ==
  /\ phase = "finishing"
  /\ dataLeaving = <<>>
  /\ phase' = "returned"
  /\ UNCHANGED <<vars, operation, fileExists, requestThread, serverState>>

DownloadNext ==
  RepeatGet \/ SendingServerReceives \/ Retire \/ DownloaderReceives \/ TimeOut

=============================================================================
