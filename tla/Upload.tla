------------------------------ MODULE Upload ------------------------------
(***************************************************************************)
(* FtpClient::performUpload against ServerThread::getFile and its state    *)
(* RECEIVING.  The client repeats its POST until an ACK with the POST's    *)
(* number arrives.  It then gives that number to packet 0, and every       *)
(* further ACK to the Sender, those of a repeated POST included.           *)
(***************************************************************************)
EXTENDS Operation

UploadInit ==
  /\ OperationInit
  /\ operation = "POST"
  /\ fileExists = TRUE

(* The thread that repeats the POST.                                       *)
RepeatPost ==
  /\ operation = "POST"
  /\ RequestStep("committed", "running")
  /\ Transmit(Request)
  /\ UNCHANGED <<senderVars, receiverVars, ackNetwork>>

(* getFile, when the thread waits for a request.                           *)
GetFile ==
  /\ serverState = "WAITING_FOR_REQUEST"
  /\ StartNewPayload
  /\ serverState' = "RECEIVING"

(* A POST that arrives in state RECEIVING is acknowledged, nothing else.   *)
AnswerPost ==
  \/ GetFile
  \/ serverState = "RECEIVING" /\ UNCHANGED <<receiverVars, serverState>>

ReceivePost ==
  /\ Head(dataLeaving) = Request
  /\ AnswerPost
  /\ Acknowledge(RequestNumber)

(* dispatchToReceiver.  A complete payload sends the thread back to wait   *)
(* for a request, where it goes on to acknowledge RESP and RESP_ERR.       *)
ReceiveUploaded(p) ==
  /\ p # Request
  /\ \/ serverState = "RECEIVING" /\ (ReceiveData(p) \/ ReceiveEof(p))
     \/ serverState = "WAITING_FOR_REQUEST" /\ ReAcknowledge(p)
  /\ serverState' = IF isPayloadComplete' THEN "WAITING_FOR_REQUEST" ELSE serverState

ServerReceives ==
  /\ operation = "POST"
  /\ dataLeaving # <<>>
  /\ ReceivePost \/ ReceiveUploaded(Head(dataLeaving))
  /\ dataLeaving' = Tail(dataLeaving)
  /\ UNCHANGED <<senderVars, dataHeld, operation, fileExists, requestThread, phase>>

(* The first ACK of the POST ends the request.                             *)
PostAcknowledged ==
  /\ phase = "requesting"
  /\ Head(ackLeaving) = RequestNumber
  /\ StartPayload
  /\ phase' = "transferring"

(* Every other ACK goes to the Sender, repeated ones of the POST included. *)
DispatchAck ==
  /\ phase = "transferring"
  /\ ProcessAck(Head(ackLeaving))
  /\ phase' = IF isPayloadSent' THEN "returned" ELSE phase

UploaderReceives ==
  /\ operation = "POST"
  /\ ackLeaving # <<>>
  /\ PostAcknowledged \/ DispatchAck
  /\ ackLeaving' = Tail(ackLeaving)
  /\ UNCHANGED <<receiverVars, dataNetwork, ackHeld, operation, fileExists,
                 requestThread, serverState>>

UploadNext == RepeatPost \/ ServerReceives \/ UploaderReceives

=============================================================================
