----------------------------- MODULE Transfers -----------------------------
(***************************************************************************)
(* Upload and Download over the emulated network, from the request to the  *)
(* return of the client's perform function.                                *)
(***************************************************************************)
EXTENDS Upload, Download

OperationsInit == UploadInit \/ DownloadInit

OperationsNext ==
  CommitRequest \/ ExitRequest \/ Background \/ UploadNext \/ DownloadNext

TransfersSpec == OperationsInit /\ [][OperationsNext]_allVars

(* The assumption about timing of PromptSpec, and about the request.       *)
PromptTransfers == OperationsInit /\ [][OperationsNext /\ OperationPrompt']_allVars

(* Both ends read their sockets, threads are scheduled, a silence is       *)
(* noticed.  Of a message sent again and again, some copy gets through.    *)
(* The user starts the next operation, which retires a thread, or not.     *)
Repeats(s) ==
  \E p \in Packets : Slot(p) = s /\ SendPacket(p) /\ Data!Pass(p) /\ UNCHANGED opVars

Acknowledges(s) ==
  /\ ServerReceives \/ DownloaderReceives
  /\ Head(dataLeaving) \in Packets
  /\ Slot(Head(dataLeaving)) = s
  /\ Acks!Pass(s)

TransfersFairness ==
  /\ WF_allVars(ServerReceives \/ DownloaderReceives)
  /\ WF_allVars(UploaderReceives \/ SendingServerReceives)
  /\ WF_allVars(TimeOut)
  /\ WF_allVars(CommitRequest)
  /\ \A p \in Packets : WF_allVars((ExitThread(p) \/ CommitThread(p)) /\ UNCHANGED opVars)
  /\ WF_allVars(ReleaseData /\ UNCHANGED opVars)
  /\ WF_allVars(ReleaseAck /\ UNCHANGED opVars)
  /\ SF_allVars(\/ RepeatPost /\ Data!Pass(Request)
                \/ RepeatGet /\ Acks!Pass(Request))
  /\ SF_allVars(/\ ServerReceives
                /\ Head(dataLeaving) = Request
                /\ Acks!Pass(RequestNumber))
  /\ SF_allVars(SendingServerReceives /\ Data!Pass(NSF))
  /\ \A s \in Slots : SF_allVars(Repeats(s)) /\ SF_allVars(Acknowledges(s))

TransfersFairSpec == PromptTransfers /\ TransfersFairness

-----------------------------------------------------------------------------
(* A POST that arrives twice is acknowledged twice, and the client takes   *)
(* the second ACK for that of packet 0, which has the same number.  Where  *)
(* the server has packet 0 by then, nothing is wrong.                      *)
ZeroHeld == isAcked[0] => Holds(0)

Returned == phase \in {"returned", "refused"}

(* Whatever the network loses, an operation on a file of at least one byte *)
(* ends: the client gets the file, or has sent it, or hears that there is  *)
(* none.  Excluded is what the code does not survive: the second ACK of a  *)
(* POST stops the thread of a packet 0 that has not arrived.               *)
OperationReturns == payloadSize > 0 => (<>~ZeroHeld \/ <>Returned)

(* No retransmission outlives a transfer that its Sender has ended itself. *)
SenderThreadsEnd ==
  isPayloadSent /\ serverState # "retired"
    ~> serverState = "retired" \/ \A p \in Packets : thread[p] \in {"idle", "done"}

-----------------------------------------------------------------------------
(* The inductive invariant behind OperationTypeOK and                      *)
(* ImplementsFileTransfer.  It is that of RoutedTransfer from the moment   *)
(* the Sender has its payload, with a request among the messages.          *)
Uploading == operation = "POST"

(* The messages that each direction carries.                               *)
DataMessages == Packets \union {IF Uploading THEN Request ELSE NSF}
AckMessages  == Slots \union (IF Uploading THEN {} ELSE {Request})

TransfersTypeOK ==
  /\ OperationTypeOK
  /\ EndsTypeOK
  /\ dataHeld \in Seq(DataMessages) /\ Len(dataHeld) <= 1
  /\ dataLeaving \in Seq(DataMessages)
  /\ ackHeld \in Seq(AckMessages) /\ Len(ackHeld) <= 1
  /\ ackLeaving \in Seq(AckMessages)
  /\ ~Delays => dataHeld = <<>> /\ ackHeld = <<>>

(* The Sender has no payload yet; it has one and its owner runs.           *)
Idle ==
  IF Uploading THEN phase = "requesting"
               ELSE serverState = "WAITING_FOR_REQUEST" /\ ~isPayloadSent

Live == ~Idle /\ serverState # "retired"

(* Where both ends are, by what their Sender and Receiver have.            *)
UploadPhases ==
  /\ fileExists
  /\ phase \in {"requesting", "transferring", "returned"}
  /\ isPayloadSent <=> phase = "returned"
  /\ serverState \in {"WAITING_FOR_REQUEST", "RECEIVING"}
  /\ ~Idle => (serverState = "WAITING_FOR_REQUEST" <=> isPayloadComplete)

DownloadPhases ==
  /\ serverState # "RECEIVING"
  /\ serverState = "SENDING" => ~isPayloadSent
  /\ serverState = "retired" => phase \in {"returned", "refused"} /\ isPayloadSent
  /\ isPayloadComplete <=> phase \in {"finishing", "returned"}
  /\ phase = "requesting" => ~Holds(0)
  /\ phase = "refused" => ~fileExists
  /\ Live => fileExists

PhaseInv == IF Uploading THEN UploadPhases ELSE DownloadPhases

(* Before the payload there are requests, and answers to them.             *)
UploadAwaited ==
  /\ dataHeld \in Seq({Request}) /\ dataLeaving \in Seq({Request})
  /\ ackHeld \in Seq({RequestNumber}) /\ ackLeaving \in Seq({RequestNumber})
  /\ serverState = "WAITING_FOR_REQUEST" => ackHeld = <<>> /\ ackLeaving = <<>>

DownloadAwaited ==
  IF fileExists
  THEN /\ phase = "requesting"
       /\ dataHeld = <<>> /\ dataLeaving = <<>>
       /\ ackHeld \in Seq({Request}) /\ ackLeaving \in Seq({Request})
  ELSE dataHeld \in Seq({NSF}) /\ dataLeaving \in Seq({NSF})

IdleInv ==
  /\ SenderCreated
  /\ ReceiverInit
  /\ IF Uploading THEN UploadAwaited ELSE DownloadAwaited

(* The packets that can be ahead of a request are too many with two of     *)
(* them: a POST was sent before any packet, a GET is no longer sent once   *)
(* packet 0 has been received.                                             *)
Late == {Request} \X (IF Uploading THEN Packets ELSE {0, Eof})

Ordered(P, held, leaving, E, F) ==
  /\ InOrder(Beyond, P, held, leaving, E, F)
  /\ InOrder(Late, P, held, leaving, Never, Once)

(* What an ACK network carries besides the ACKs of held packets: requests, *)
(* or further ACKs of the POST, which look like that of packet 0.          *)
Answerable == HeldPackets \union {IF Uploading THEN 0 ELSE Request}

LiveInv ==
  /\ SenderInv /\ ReceiverInv /\ Custody
  /\ isPayloadSent => isAcked[Eof]
  /\ dataHeld \in Seq(LaunchedPackets \union {Request})
  /\ dataLeaving \in Seq(LaunchedPackets \union {Request})
  /\ Ordered(HeldPackets, dataHeld, dataLeaving, Never, Once)
  /\ \E h \in Traces(Answerable, ackHeld) :
       \E l \in Traces(Answerable, ackLeaving) :
         Ordered(AckedPackets, h, l, Once, Twice)

TransfersInv ==
  /\ TransfersTypeOK
  /\ PhaseInv
  /\ Idle => IdleInv
  /\ Live => LiveInv

=============================================================================
