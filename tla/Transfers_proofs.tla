-------------------------- MODULE Transfers_proofs --------------------------
(***************************************************************************)
(* Proofs about Transfers: an upload, a download or a listing, from the    *)
(* request to the return of the client's perform function.                 *)
(*                                                                         *)
(* Types need no assumption.  The rest needs RangeSuffices, as in          *)
(* RoutedTransfer_proofs, whose lemmas on one packet or one ACK are used   *)
(* again, and behaviours in which OperationPrompt always holds.  An        *)
(* operation is Idle until the Sender has its payload; only requests and   *)
(* answers to them are on the network.  From then on it is Live, and the   *)
(* order in which packets and ACKs travel takes in the requests: one that  *)
(* has a packet ahead of it has no other (Late), so that none arrives at a *)
(* server thread that waits for the next request.                          *)
(***************************************************************************)
EXTENDS Transfers, RoutedTransfer_proofs

-----------------------------------------------------------------------------
(* The messages of the two directions.                                     *)

(* Requests and refusals are neither packets nor sequence numbers.         *)
LEMMA MessageKinds ==
  /\ Request \notin Packets /\ NSF \notin Packets /\ Request # NSF
  /\ Request \notin Slots /\ Request # Eof /\ Request \in Int
  /\ DataMessages \subseteq Int /\ AckMessages \subseteq Slots \union {Request}
  /\ RequestNumber \in Slots /\ RequestNumber = Slot(0)
<1>1. \A p \in Packets : p \in Nat
  BY PacketKinds
<1>2. Slots \subseteq Nat /\ sequenceSeed \in Slots /\ sequenceSeed \in Nat
  BY CommonAssumption DEF Slots
<1>3. Slot(0) = sequenceSeed
  BY <1>2, CommonAssumption DEF Slot, Slots
<1>4. DataMessages \subseteq Int
  BY <1>1 DEF DataMessages, Request, NSF
<1>5. AckMessages \subseteq Slots \union {Request}
  BY DEF AckMessages
<1>. QED
  BY <1>1, <1>2, <1>3, <1>4, <1>5, PacketKinds DEF Request, NSF, RequestNumber

(* What a sendto does to its direction.                                    *)
LEMMA TransmitSends ==
  ASSUME NEW m, Transmit(m)
  PROVE  Sends(m, dataHeld, dataLeaving, dataHeld', dataLeaving')
  BY DEF Sends, Transmit, Data!Lose, Data!dcVars, Data!Hold, Data!Pass

(* The same for what the other side sends.                                 *)
LEMMA AcknowledgeSends ==
  ASSUME NEW m, Acknowledge(m)
  PROVE  Sends(m, ackHeld, ackLeaving, ackHeld', ackLeaving')
  BY DEF Sends, Acknowledge, Acks!Lose, Acks!dcVars, Acks!Hold, Acks!Pass

(* Held and leaving messages H and L of a direction that carries M.        *)
Carries(M, H, L) ==
  /\ H \in Seq(M) /\ Len(H) <= 1 /\ L \in Seq(M)
  /\ ~Delays => H = <<>>

(* A direction goes on carrying what is sent,                              *)
LEMMA CarriesSent ==
  ASSUME NEW M, NEW m \in M, NEW H, NEW L, NEW K, NEW N,
         Carries(M, H, L), Sends(m, H, L, K, N)
  PROVE  Carries(M, K, N)
<1>1. K \in Seq(M) /\ N \in Seq(M) /\ Len(K) <= 1
  BY SendElements DEF Carries
<1>2. ~Delays => K = <<>>
  BY DEF Carries, Sends
<1>. QED
  BY <1>1, <1>2 DEF Carries

(* what is no longer held back,                                            *)
LEMMA CarriesReleased ==
  ASSUME NEW M, NEW H, NEW L, Carries(M, H, L)
  PROVE  Carries(M, <<>>, L \o H)
<1>1. <<>> \in Seq(M) /\ Len(<<>>) = 0
  OBVIOUS
<1>2. L \o H \in Seq(M)
  BY DEF Carries
<1>. QED
  BY <1>1, <1>2 DEF Carries

(* and what is left when the first message arrives.                        *)
LEMMA CarriesRest ==
  ASSUME NEW M, NEW H, NEW L, Carries(M, H, L), L # <<>>
  PROVE  Carries(M, H, Tail(L)) /\ Head(L) \in M
  BY TailType DEF Carries

-----------------------------------------------------------------------------
(* Type correctness.                                                       *)

(* The state that Operation adds, but for the networks.                    *)
PhasesTypeOK ==
  /\ operation \in {"POST", "GET_FILE", "GET_LIST"}
  /\ fileExists \in BOOLEAN
  /\ requestThread \in {"running", "committed", "done"}
  /\ phase \in Phases
  /\ serverState \in ServerStates

(* The parts of TransfersTypeOK.                                           *)
LEMMA TypeParts ==
  /\ TransfersTypeOK <=>
       /\ PhasesTypeOK /\ EndsTypeOK
       /\ Carries(DataMessages, dataHeld, dataLeaving)
       /\ Carries(AckMessages, ackHeld, ackLeaving)
  /\ TransfersTypeOK' <=>
       /\ PhasesTypeOK' /\ EndsTypeOK'
       /\ Carries(DataMessages', dataHeld', dataLeaving')
       /\ Carries(AckMessages', ackHeld', ackLeaving')
<1>1. AckMessages \subseteq Slots \union {Request} /\ AckMessages' \subseteq Slots \union {Request}
  BY DEF AckMessages
<1>2. /\ \A s \in Seq(AckMessages) : s \in Seq(Slots \union {Request})
      /\ \A s \in Seq(AckMessages') : s \in Seq(Slots \union {Request})
  BY <1>1, SubsetSequence
<1>. QED
  BY <1>2 DEF TransfersTypeOK, OperationTypeOK, PhasesTypeOK, Carries

(* The messages depend on the operation alone.                             *)
LEMMA SameMessages ==
  ASSUME operation' = operation
  PROVE  DataMessages' = DataMessages /\ AckMessages' = AckMessages
  BY DEF DataMessages, AckMessages, Uploading

(* The state of the ends by which a transfer begins.                       *)
LEMMA StartType ==
  /\ SenderCreated => SenderTypeOK
  /\ StartPayload => SenderTypeOK'
  /\ StartNewPayload => ReceiverTypeOK'
<1>1. SenderCreated => SenderTypeOK
  <2>1. 0 \in Packets /\ EmptyWindow \in [Slots -> Packets \union {NULL}]
    BY PacketCount DEF Packets, EmptyWindow
  <2>. QED
    BY <2>1 DEF SenderCreated, SenderTypeOK, ThreadStates
<1>2. StartPayload => SenderInit'
  BY DEF StartPayload, SenderInit
<1>3. SenderInit' => SenderTypeOK'
  BY SenderInitType, PTL
<1>4. StartNewPayload => ReceiverInit'
  BY DEF StartNewPayload, ReceiverInit
<1>5. ReceiverInit' => ReceiverTypeOK'
  BY ReceiverInitType, PTL
<1>. QED
  BY <1>1, <1>2, <1>3, <1>4, <1>5

(* The initial states of the three operations.                             *)
LEMMA TransfersInitType == OperationsInit => TransfersTypeOK
<1>. SUFFICES ASSUME OperationsInit PROVE TransfersTypeOK
  OBVIOUS
<1>1. /\ OperationInit
      /\ operation \in {"POST", "GET_FILE", "GET_LIST"} /\ fileExists \in BOOLEAN
  BY DEF OperationsInit, UploadInit, DownloadInit
<1>2. PhasesTypeOK
  BY <1>1 DEF OperationInit, PhasesTypeOK, Phases, ServerStates
<1>3. EndsTypeOK
  BY <1>1, StartType, ReceiverInitType DEF OperationInit, EndsTypeOK
<1>4. dataHeld = <<>> /\ dataLeaving = <<>> /\ ackHeld = <<>> /\ ackLeaving = <<>>
  BY <1>1 DEF OperationInit, Data!Init, Acks!Init
<1>5. \A M : Carries(M, <<>>, <<>>)
  <2>1. Len(<<>>) = 0 /\ \A M : <<>> \in Seq(M)
    OBVIOUS
  <2>. QED
    BY <2>1 DEF Carries
<1>. QED
  BY <1>2, <1>3, <1>4, <1>5, TypeParts

(* Threads end and send, the router lets go of what it holds back.         *)
LEMMA BackgroundType == TransfersTypeOK /\ Background => TransfersTypeOK'
<1>. SUFFICES ASSUME TransfersTypeOK, Background PROVE TransfersTypeOK'
  OBVIOUS
<1>1. /\ PhasesTypeOK /\ EndsTypeOK /\ SenderTypeOK
      /\ Carries(DataMessages, dataHeld, dataLeaving)
      /\ Carries(AckMessages, ackHeld, ackLeaving)
  BY TypeParts DEF EndsTypeOK
<1>2. PhasesTypeOK' /\ operation' = operation
  BY <1>1 DEF Background, opVars, PhasesTypeOK
<1>3. DataMessages' = DataMessages /\ AckMessages' = AckMessages
  BY <1>2, SameMessages
<1>4. ASSUME NEW p \in Packets, ExitThread(p) \/ CommitThread(p)
      PROVE  EndsTypeOK' /\ UNCHANGED <<dataHeld, dataLeaving, ackHeld, ackLeaving>>
  <2>1. /\ ThreadExit(p) \/ ThreadCommit(p)
        /\ UNCHANGED <<receiverVars, dataNetwork, ackNetwork>>
    BY <1>4 DEF ExitThread, CommitThread
  <2>2. SenderTypeOK'
    BY <1>1, <2>1, SameEndsType
  <2>3. ReceiverTypeOK'
    BY <1>1, <2>1 DEF EndsTypeOK, ReceiverTypeOK, receiverVars
  <2>. QED
    BY <2>1, <2>2, <2>3 DEF EndsTypeOK, dataNetwork, ackNetwork
<1>5. ASSUME NEW p \in Packets, SendPacket(p)
      PROVE  /\ EndsTypeOK' /\ UNCHANGED <<ackHeld, ackLeaving>>
             /\ Carries(DataMessages, dataHeld', dataLeaving')
  <2>1. ThreadSend(p) /\ Transmit(p) /\ UNCHANGED <<receiverVars, ackNetwork>>
    BY <1>5 DEF SendPacket
  <2>2. p \in DataMessages /\ Sends(p, dataHeld, dataLeaving, dataHeld', dataLeaving')
    BY <2>1, TransmitSends DEF DataMessages
  <2>3. SenderTypeOK' /\ ReceiverTypeOK'
    BY <1>1, <2>1, SameEndsType DEF EndsTypeOK, ReceiverTypeOK, receiverVars
  <2>. QED
    BY <1>1, <2>1, <2>2, <2>3, CarriesSent DEF ackNetwork, EndsTypeOK
<1>6. ASSUME ReleaseData
      PROVE  /\ EndsTypeOK' /\ UNCHANGED <<ackHeld, ackLeaving>>
             /\ Carries(DataMessages, dataHeld', dataLeaving')
  <2>1. /\ dataHeld' = <<>> /\ dataLeaving' = dataLeaving \o dataHeld
        /\ UNCHANGED <<senderVars, receiverVars, ackNetwork>>
    BY <1>6 DEF ReleaseData, Data!Release
  <2>. QED
    BY <1>1, <2>1, CarriesReleased, SameEndsType DEF ackNetwork
<1>7. ASSUME ReleaseAck
      PROVE  /\ EndsTypeOK' /\ UNCHANGED <<dataHeld, dataLeaving>>
             /\ Carries(AckMessages, ackHeld', ackLeaving')
  <2>1. /\ ackHeld' = <<>> /\ ackLeaving' = ackLeaving \o ackHeld
        /\ UNCHANGED <<senderVars, receiverVars, dataNetwork>>
    BY <1>7 DEF ReleaseAck, Acks!Release
  <2>. QED
    BY <1>1, <2>1, CarriesReleased, SameEndsType DEF dataNetwork
<1>8. /\ EndsTypeOK' /\ Carries(DataMessages, dataHeld', dataLeaving')
      /\ Carries(AckMessages, ackHeld', ackLeaving')
  BY <1>1, <1>4, <1>5, <1>6, <1>7 DEF Background
<1>. QED
  BY <1>2, <1>3, <1>8, TypeParts

(* The SenderThread of the request tests its flag.                         *)
LEMMA RequestThreadType ==
  TransfersTypeOK /\ (CommitRequest \/ ExitRequest) => TransfersTypeOK'
<1>. SUFFICES ASSUME TransfersTypeOK, CommitRequest \/ ExitRequest PROVE TransfersTypeOK'
  OBVIOUS
<1>1. /\ UNCHANGED <<senderVars, receiverVars, dataHeld, dataLeaving, ackHeld, ackLeaving>>
      /\ UNCHANGED <<operation, fileExists, phase, serverState>>
      /\ requestThread' \in {"committed", "done"}
  BY DEF CommitRequest, ExitRequest, RequestStep, vars, dataNetwork, ackNetwork
<1>2. PhasesTypeOK' /\ EndsTypeOK'
  BY <1>1, TypeParts, SameEndsType DEF PhasesTypeOK
<1>3. DataMessages' = DataMessages /\ AckMessages' = AckMessages
  BY <1>1, SameMessages
<1>. QED
  BY <1>1, <1>2, <1>3, TypeParts

(* A POST, its answers and the data of an upload.                          *)
LEMMA UploadType == TransfersTypeOK /\ UploadNext => TransfersTypeOK'
<1>. SUFFICES ASSUME TransfersTypeOK, UploadNext PROVE TransfersTypeOK'
  OBVIOUS
<1>1. /\ PhasesTypeOK /\ EndsTypeOK /\ SenderTypeOK /\ ReceiverTypeOK
      /\ Carries(DataMessages, dataHeld, dataLeaving)
      /\ Carries(AckMessages, ackHeld, ackLeaving)
  BY TypeParts DEF EndsTypeOK
<1>2. /\ operation = "POST" /\ operation' = operation
      /\ DataMessages = Packets \union {Request} /\ AckMessages = Slots
  BY DEF UploadNext, RepeatPost, RequestStep, ServerReceives, UploaderReceives,
         DataMessages, AckMessages, Uploading
<1>3. DataMessages' = DataMessages /\ AckMessages' = AckMessages
  BY <1>2, SameMessages
<1>4. ASSUME RepeatPost PROVE TransfersTypeOK'
  <2>1. /\ Transmit(Request) /\ requestThread' = "running"
        /\ UNCHANGED <<senderVars, receiverVars, ackNetwork>>
        /\ UNCHANGED <<operation, fileExists, phase, serverState>>
    BY <1>4 DEF RepeatPost, RequestStep
  <2>2. Carries(DataMessages, dataHeld', dataLeaving')
    BY <1>1, <1>2, <2>1, TransmitSends, CarriesSent
  <2>3. PhasesTypeOK' /\ EndsTypeOK' /\ UNCHANGED <<ackHeld, ackLeaving>>
    BY <1>1, <2>1, SameEndsType DEF PhasesTypeOK, ackNetwork
  <2>. QED
    BY <1>1, <1>3, <2>2, <2>3, TypeParts
<1>5. ASSUME ServerReceives PROVE TransfersTypeOK'
  <2>. DEFINE m == Head(dataLeaving)
  <2>1. /\ dataLeaving # <<>> /\ dataLeaving' = Tail(dataLeaving)
        /\ ReceivePost \/ ReceiveUploaded(m)
        /\ UNCHANGED <<senderVars, dataHeld, operation, fileExists, requestThread, phase>>
    BY <1>5 DEF ServerReceives
  <2>2. Carries(DataMessages, dataHeld', dataLeaving') /\ m \in DataMessages
    BY <1>1, <2>1, CarriesRest
  <2>3. PhasesTypeOK'
    BY <1>1, <2>1 DEF PhasesTypeOK, ReceivePost, AnswerPost, GetFile, ReceiveUploaded,
                      ServerStates
  <2>4. SenderTypeOK'
    BY <1>1, <2>1 DEF SenderTypeOK, senderVars
  <2>5. CASE ReceivePost
    <3>1. /\ Acknowledge(RequestNumber) /\ RequestNumber \in AckMessages
          /\ StartNewPayload \/ UNCHANGED receiverVars
      BY <1>2, <2>5, MessageKinds DEF ReceivePost, AnswerPost, GetFile
    <3>2. Carries(AckMessages, ackHeld', ackLeaving')
      BY <1>1, <3>1, AcknowledgeSends, CarriesSent
    <3>3. ReceiverTypeOK'
      BY <1>1, <3>1, StartType DEF ReceiverTypeOK, receiverVars
    <3>. QED
      BY <1>3, <2>2, <2>3, <2>4, <3>2, <3>3, TypeParts DEF EndsTypeOK
  <2>6. CASE ReceiveUploaded(m)
    <3>1. m \in Packets /\ (ReceiveData(m) \/ ReceiveEof(m) \/ ReAcknowledge(m))
      BY <1>2, <2>2, <2>6 DEF ReceiveUploaded
    <3>. HIDE DEF m
    <3>2. ReceiverTypeOK'
      BY <1>1, <3>1, HandleMsgType
    <3>3. Slot(m) \in AckMessages /\ Slot(Eof) \in AckMessages
      BY <1>2, <3>1, SlotType, PacketKinds
    <3>4. Carries(AckMessages, ackHeld', ackLeaving')
      <4>1. CASE UNCHANGED ackNetwork
        BY <1>1, <4>1 DEF ackNetwork
      <4>2. CASE Acknowledge(Slot(m)) \/ Acknowledge(Slot(Eof))
        BY <1>1, <3>3, <4>2, AcknowledgeSends, CarriesSent
      <4>. QED
        BY <3>1, <4>1, <4>2 DEF ReceiveData, ReceiveEof, ReAcknowledge
    <3>. QED
      BY <1>3, <2>2, <2>3, <2>4, <3>2, <3>4, TypeParts DEF EndsTypeOK
  <2>. QED
    BY <2>1, <2>5, <2>6
<1>6. ASSUME UploaderReceives PROVE TransfersTypeOK'
  <2>1. /\ ackLeaving # <<>> /\ ackLeaving' = Tail(ackLeaving)
        /\ PostAcknowledged \/ DispatchAck
        /\ UNCHANGED <<receiverVars, dataNetwork, ackHeld, operation, fileExists,
                       requestThread, serverState>>
    BY <1>6 DEF UploaderReceives
  <2>2. Carries(AckMessages, ackHeld', ackLeaving') /\ Head(ackLeaving) \in Slots
    BY <1>1, <1>2, <2>1, CarriesRest
  <2>3. PhasesTypeOK'
    BY <1>1, <2>1 DEF PhasesTypeOK, PostAcknowledged, DispatchAck, Phases
  <2>4. SenderTypeOK'
    <3>1. StartPayload \/ ProcessAck(Head(ackLeaving))
      BY <2>1 DEF PostAcknowledged, DispatchAck
    <3>. QED
      BY <1>1, <2>2, <3>1, StartType, ProcessAckType
  <2>5. ReceiverTypeOK' /\ UNCHANGED <<dataHeld, dataLeaving>>
    BY <1>1, <2>1 DEF ReceiverTypeOK, receiverVars, dataNetwork
  <2>. QED
    BY <1>1, <1>3, <2>2, <2>3, <2>4, <2>5, TypeParts DEF EndsTypeOK
<1>. QED
  BY <1>4, <1>5, <1>6 DEF UploadNext

(* A request, its answers and the data of a download.                      *)
LEMMA DownloadType == TransfersTypeOK /\ DownloadNext => TransfersTypeOK'
<1>. SUFFICES ASSUME TransfersTypeOK, DownloadNext PROVE TransfersTypeOK'
  OBVIOUS
<1>1. /\ PhasesTypeOK /\ EndsTypeOK /\ SenderTypeOK /\ ReceiverTypeOK
      /\ Carries(DataMessages, dataHeld, dataLeaving)
      /\ Carries(AckMessages, ackHeld, ackLeaving)
  BY TypeParts DEF EndsTypeOK
<1>2. operation' = operation
  BY DEF DownloadNext, RepeatGet, RequestStep, SendingServerReceives, Retire,
         DownloaderReceives, TimeOut
<1>3. DataMessages' = DataMessages /\ AckMessages' = AckMessages
  BY <1>2, SameMessages
<1>4. ASSUME Downloading
      PROVE  /\ DataMessages = Packets \union {NSF}
             /\ AckMessages = Slots \union {Request}
  BY <1>4 DEF DataMessages, AckMessages, Uploading, Downloading
<1>5. ASSUME RepeatGet PROVE TransfersTypeOK'
  <2>1. /\ Acknowledge(Request) /\ Downloading /\ requestThread' = "running"
        /\ UNCHANGED <<senderVars, receiverVars, dataNetwork>>
        /\ UNCHANGED <<operation, fileExists, phase, serverState>>
    BY <1>5 DEF RepeatGet, RequestStep
  <2>2. Carries(AckMessages, ackHeld', ackLeaving')
    BY <1>1, <1>4, <2>1, AcknowledgeSends, CarriesSent
  <2>3. PhasesTypeOK' /\ EndsTypeOK' /\ UNCHANGED <<dataHeld, dataLeaving>>
    BY <1>1, <2>1, SameEndsType DEF PhasesTypeOK, dataNetwork
  <2>. QED
    BY <1>1, <1>3, <2>2, <2>3, TypeParts
<1>6. ASSUME SendingServerReceives PROVE TransfersTypeOK'
  <2>. DEFINE m == Head(ackLeaving)
  <2>1. /\ Downloading /\ ackLeaving # <<>> /\ ackLeaving' = Tail(ackLeaving)
        /\ AnswerGet \/ DispatchToSender \/ Ignore
        /\ UNCHANGED <<receiverVars, ackHeld, operation, fileExists, requestThread, phase>>
    BY <1>6 DEF SendingServerReceives
  <2>2. Carries(AckMessages, ackHeld', ackLeaving') /\ m \in Slots \union {Request}
    BY <1>1, <1>4, <2>1, CarriesRest
  <2>3. ReceiverTypeOK'
    BY <1>1, <2>1 DEF ReceiverTypeOK, receiverVars
  <2>4. PhasesTypeOK'
    BY <1>1, <2>1 DEF PhasesTypeOK, AnswerGet, SendFile, NoSuchFile, DispatchToSender,
                      Ignore, ServerStates
  <2>5. SenderTypeOK'
    <3>1. \/ StartPayload \/ UNCHANGED senderVars
          \/ m # Request /\ ProcessAck(m)
      BY <2>1 DEF AnswerGet, SendFile, NoSuchFile, DispatchToSender, Ignore
    <3>2. UNCHANGED senderVars => SenderTypeOK'
      BY <1>1 DEF SenderTypeOK, senderVars
    <3>. QED
      BY <1>1, <2>2, <3>1, <3>2, StartType, ProcessAckType
  <2>6. Carries(DataMessages, dataHeld', dataLeaving')
    <3>1. Transmit(NSF) \/ UNCHANGED dataNetwork
      BY <2>1 DEF AnswerGet, SendFile, NoSuchFile, DispatchToSender, Ignore
    <3>2. NSF \in DataMessages
      BY <1>4, <2>1
    <3>. QED
      BY <1>1, <3>1, <3>2, TransmitSends, CarriesSent DEF dataNetwork
  <2>. QED
    BY <1>3, <2>2, <2>3, <2>4, <2>5, <2>6, TypeParts DEF EndsTypeOK
<1>7. ASSUME Retire PROVE TransfersTypeOK'
  <2>1. /\ TerminateCurrentTransmission /\ serverState' = "retired"
        /\ UNCHANGED <<receiverVars, dataNetwork, ackNetwork, operation, fileExists,
                       requestThread, phase>>
    BY <1>7 DEF Retire
  <2>2. SenderTypeOK'
    BY <1>1, <2>1 DEF TerminateCurrentTransmission, SenderTypeOK
  <2>3. PhasesTypeOK' /\ ReceiverTypeOK'
    BY <1>1, <2>1 DEF PhasesTypeOK, ServerStates, ReceiverTypeOK, receiverVars
  <2>4. UNCHANGED <<dataHeld, dataLeaving, ackHeld, ackLeaving>>
    BY <2>1 DEF dataNetwork, ackNetwork
  <2>. QED
    BY <1>1, <1>3, <2>2, <2>3, <2>4, TypeParts DEF EndsTypeOK
<1>8. ASSUME DownloaderReceives PROVE TransfersTypeOK'
  <2>. DEFINE m == Head(dataLeaving)
  <2>1. /\ Downloading /\ dataLeaving # <<>> /\ dataLeaving' = Tail(dataLeaving)
        /\ ReceiveDownloaded(m) \/ ReceiveNsf \/ Finish(m) \/ Drain
        /\ UNCHANGED <<senderVars, dataHeld, operation, fileExists, requestThread, serverState>>
    BY <1>8 DEF DownloaderReceives
  <2>2. Carries(DataMessages, dataHeld', dataLeaving') /\ m \in Packets \union {NSF}
    BY <1>1, <1>4, <2>1, CarriesRest
  <2>. HIDE DEF m
  <2>3. SenderTypeOK'
    BY <1>1, <2>1 DEF SenderTypeOK, senderVars
  <2>4. PhasesTypeOK'
    BY <1>1, <2>1 DEF PhasesTypeOK, ReceiveDownloaded, PhaseAfterData, ReceiveNsf, Finish,
                      Drain, Phases
  <2>5. /\ \/ m \in Packets /\ (ReceiveData(m) \/ ReceiveEof(m))
           \/ UNCHANGED receiverVars
        /\ \/ m \in Packets /\ Acknowledge(Slot(m))
           \/ Acknowledge(Slot(Eof)) \/ Acknowledge(NsfNumber)
           \/ UNCHANGED ackNetwork
    BY <2>1, <2>2 DEF ReceiveDownloaded, ReceiveNsf, Finish, Drain, ReceiveData, ReceiveEof
  <2>6. ReceiverTypeOK'
    <3>1. UNCHANGED receiverVars => ReceiverTypeOK'
      BY <1>1 DEF ReceiverTypeOK, receiverVars
    <3>. QED
      BY <1>1, <2>5, <3>1, HandleMsgType
  <2>7. Carries(AckMessages, ackHeld', ackLeaving')
    <3>1. \A p \in Packets : Slot(p) \in AckMessages
      BY <1>4, <2>1, SlotType, PacketKinds
    <3>2. Slot(Eof) \in AckMessages /\ NsfNumber \in AckMessages
      <4>1. NsfNumber \in Slots
        BY MessageKinds, CommonAssumption DEF NsfNumber, Slots
      <4>. QED
        BY <1>4, <2>1, <3>1, <4>1, PacketKinds
    <3>3. \A a \in AckMessages : Acknowledge(a) => Carries(AckMessages, ackHeld', ackLeaving')
      BY <1>1, AcknowledgeSends, CarriesSent
    <3>. QED
      BY <1>1, <2>5, <3>1, <3>2, <3>3 DEF ackNetwork
  <2>. QED
    BY <1>3, <2>2, <2>3, <2>4, <2>6, <2>7, TypeParts DEF EndsTypeOK
<1>9. ASSUME TimeOut PROVE TransfersTypeOK'
  <2>1. /\ phase' = "returned"
        /\ UNCHANGED <<vars, operation, fileExists, requestThread, serverState>>
    BY <1>9 DEF TimeOut
  <2>2. UNCHANGED <<senderVars, receiverVars, dataHeld, dataLeaving, ackHeld, ackLeaving>>
    BY <2>1 DEF vars, dataNetwork, ackNetwork
  <2>3. PhasesTypeOK' /\ EndsTypeOK'
    BY <1>1, <2>1, <2>2, SameEndsType DEF PhasesTypeOK, Phases
  <2>. QED
    BY <1>1, <1>3, <2>2, <2>3, TypeParts
<1>. QED
  BY <1>5, <1>6, <1>7, <1>8, <1>9 DEF DownloadNext

(* Every step keeps the types.                                             *)
LEMMA TransfersNextType ==
  TransfersTypeOK /\ [OperationsNext]_allVars => TransfersTypeOK'
<1>1. ASSUME TransfersTypeOK, UNCHANGED allVars PROVE TransfersTypeOK'
  <2>1. UNCHANGED <<senderVars, receiverVars, opVars,
                    dataHeld, dataLeaving, ackHeld, ackLeaving>>
    BY <1>1 DEF allVars, vars, dataNetwork, ackNetwork
  <2>2. PhasesTypeOK' /\ EndsTypeOK' /\ operation' = operation
    BY <1>1, <2>1, SameEndsType, TypeParts DEF PhasesTypeOK, opVars
  <2>3. DataMessages' = DataMessages /\ AckMessages' = AckMessages
    BY <2>2, SameMessages
  <2>. QED
    BY <1>1, <2>1, <2>2, <2>3, TypeParts
<1>. QED
  BY <1>1, RequestThreadType, BackgroundType, UploadType, DownloadType DEF OperationsNext

(* Whatever is lost, delayed or repeated, the two ends, their phases and   *)
(* the messages between them keep their types: an upload never finds the   *)
(* RESP_ERR of a download on its network, nor a Sender a request in place  *)
(* of a sequence number.                                                   *)
THEOREM TransfersTypeCorrect == TransfersSpec => []OperationTypeOK
<1>1. TransfersTypeOK => OperationTypeOK
  BY DEF TransfersTypeOK
<1>. QED
  BY <1>1, TransfersInitType, TransfersNextType, PTL DEF TransfersSpec

-----------------------------------------------------------------------------
(* The order that each direction keeps, requests included.                 *)

(* A request is ahead of nothing; only the first packet and the EOF make   *)
(* it late; and a packet is never late as a request is.                    *)
LEMMA LateAhead ==
  /\ \A p \in Packets : \A P : Ahead(Late, p, P) = {}
  /\ \A P : Ahead(Beyond, Request, P) = {}
  /\ \A R, m, P : Ahead(R, m, P \union {Request}) = Ahead(R, m, P)
  /\ {} \in Never /\ {} \in Once /\ {} \in Twice
<1>1. Request \notin Packets
  BY MessageKinds
<1>2. {} \in Never /\ {} \in Once
  BY DEF Never, Once
<1>3. {} \in Twice
  <2>1. {} = {} \union {}
    OBVIOUS
  <2>. QED
    BY <1>2, <2>1 DEF Twice
<1>4. \A p \in Packets : \A P : Ahead(Late, p, P) = {}
  BY <1>1 DEF Ahead, Late
<1>5. \A P : Ahead(Beyond, Request, P) = {}
  BY <1>1 DEF Ahead, Beyond
<1>6. \A R, m, P : Ahead(R, m, P \union {Request}) = Ahead(R, m, P)
  BY <1>1 DEF Ahead
<1>. QED
  BY <1>2, <1>3, <1>4, <1>5, <1>6

(* What an ACK network carries besides the ACKs of held packets.           *)
Extra == IF Uploading THEN 0 ELSE Request

(* Neither the first packet nor a request is ahead of anything else.       *)
LEMMA ExtraAhead ==
  ASSUME RangeSuffices, NEW x \in {0, Request}, NEW m, m \in Packets \/ x = Request, NEW P
  PROVE  /\ Ahead(Beyond, m, P \union {x}) = Ahead(Beyond, m, P)
         /\ Ahead(Late, m, P \union {x}) = Ahead(Late, m, P)
<1>1. CASE x = Request
  BY <1>1, LateAhead
<1>2. CASE x = 0 /\ m \in Packets
  <2>1. Ahead(Late, m, P \union {x}) = Ahead(Late, m, P)
    BY <1>2, LateAhead
  <2>2. m \in Nat /\ WINDOW_SIZE \in Nat \ {0} /\ Slack \in Nat
    BY <1>2, PacketKinds, CommonAssumption, RangeFacts
  <2>3. ~(m + WINDOW_SIZE + Slack <= 0)
    BY <2>2
  <2>4. <<m, 0>> \notin Beyond
    BY <2>3 DEF Beyond
  <2>. QED
    BY <1>2, <2>1, <2>4 DEF Ahead
<1>. QED
  BY <1>1, <1>2

(* A sendto keeps both orders when the message is not late.                *)
LEMMA OrderedSent ==
  ASSUME NEW P, NEW H \in Seq(Int), NEW L \in Seq(Int), NEW K, NEW M, NEW m \in Int,
         NEW E, NEW F, Closed(F), Widens(E, F), Len(H) <= 1, ~Delays => H = <<>>,
         Ordered(P, H, L, E, F), Sends(m, H, L, K, M), NEW Y,
         P \union Elements(L) \subseteq Y, Closed(E),
         Ahead(Beyond, m, Y) \in E, Ahead(Late, m, Y) \in Never
  PROVE  Ordered(P, K, M, E, F)
<1>. DEFINE X == P \union Elements(L)
<1>1. X \subseteq Y
  OBVIOUS
<1>. HIDE DEF X
<1>3. Ahead(Beyond, m, X) \in E
  BY <1>1, AheadSubset
<1>4. Ahead(Late, m, X) \in Never
  BY <1>1, AheadSubset, Widening
<1>. USE DEF X
<1>5. InOrder(Beyond, P, K, M, E, F)
  BY <1>3, SendInOrder DEF Ordered
<1>6. InOrder(Late, P, K, M, Never, Once)
  BY <1>4, SendInOrder, Widening DEF Ordered
<1>. QED
  BY <1>5, <1>6 DEF Ordered

(* So does the held message that leaves on its own.                        *)
LEMMA OrderedReleased ==
  ASSUME NEW P, NEW H \in Seq(Int), NEW L \in Seq(Int),
         NEW E, NEW F, Widens(E, F), Len(H) = 1, Ordered(P, H, L, E, F)
  PROVE  Ordered(P, <<>>, L \o H, E, F)
  BY ReleaseInOrder, Widening DEF Ordered

(* The arrival of the first message keeps both orders of the others.       *)
LEMMA OrderedRest ==
  ASSUME NEW P, NEW Q, NEW H \in Seq(Int), NEW L \in Seq(Int), L # <<>>,
         NEW E, NEW F, Closed(E), Closed(F), Ordered(P, H, L, E, F),
         Q \subseteq P \union {Head(L)}
  PROVE  /\ Ordered(Q, H, Tail(L), E, F)
         /\ Ahead(Beyond, Head(L), P) \in F /\ Ahead(Late, Head(L), P) \in Once
<1>1. InOrder(Beyond, Q, H, Tail(L), E, F)
  BY ArriveInOrder DEF Ordered
<1>2. InOrder(Late, Q, H, Tail(L), Never, Once)
  BY ArriveInOrder, Widening DEF Ordered
<1>3. Ahead(Beyond, Head(L), P) \in F /\ Ahead(Late, Head(L), P) \in Once
  BY FirstInOrder, Widening DEF Ordered
<1>. QED
  BY <1>1, <1>2, <1>3 DEF Ordered

(* Requests, and answers to them, are in order before anything else.       *)
LEMMA RequestsOrdered ==
  ASSUME RangeSuffices, NEW x \in {0, Request}, NEW H \in Seq({x}), NEW L \in Seq({x}),
         NEW E, NEW F, {} \in E, {} \in F
  PROVE  Ordered({}, H, L, E, F)
<1>1. /\ \A i \in 1 .. Len(H) : H[i] = x
      /\ \A i \in 1 .. Len(L) : L[i] = x
  OBVIOUS
<1>2. x \in Packets \/ x = Request
  BY PacketCount DEF Packets
<1>3. /\ Ahead(Beyond, x, {} \union {x}) = {} /\ Ahead(Late, x, {} \union {x}) = {}
      /\ \A R : Ahead(R, x, {}) = {}
  <2>1. \A R : Ahead(R, x, {}) = {}
    BY DEF Ahead
  <2>2. PICK P : P = {}
    OBVIOUS
  <2>3. /\ Ahead(Beyond, x, P \union {x}) = Ahead(Beyond, x, P)
        /\ Ahead(Late, x, P \union {x}) = Ahead(Late, x, P)
    BY <1>2, ExtraAhead
  <2>. QED
    BY <2>1, <2>2, <2>3
<1>4. ASSUME NEW n \in 0 .. Len(L)
      PROVE  /\ Ahead(Beyond, x, {} \union {L[j] : j \in 1 .. n}) = {}
             /\ Ahead(Late, x, {} \union {L[j] : j \in 1 .. n}) = {}
  <2>1. Len(L) \in Nat
    OBVIOUS
  <2>2. \A j \in 1 .. n : L[j] = x
    BY <1>1, <2>1
  <2>3. {L[j] : j \in 1 .. n} = {} \/ {L[j] : j \in 1 .. n} = {x}
    BY <2>2
  <2>4. {} \union {L[j] : j \in 1 .. n} = {} \/ {} \union {L[j] : j \in 1 .. n} = {} \union {x}
    BY <2>3
  <2>. QED
    BY <1>3, <2>4
<1>5. Len(L) \in 0 .. Len(L) /\ \A i \in 1 .. Len(L) : i - 1 \in 0 .. Len(L)
  OBVIOUS
<1>6. ASSUME NEW A, NEW B, {} \in A, {} \in B
      PROVE  InOrder(Beyond, {}, H, L, A, B) /\ InOrder(Late, {}, H, L, A, B)
  BY <1>1, <1>4, <1>5, <1>6 DEF InOrder
<1>. QED
  BY <1>6, LateAhead DEF Ordered

(* Messages H and L on the data network, of packets in S and requests,     *)
(* where the packets in P have arrived.                                    *)
DataTravels(S, H, L, P) ==
  /\ H \in Seq(S \union {Request}) /\ L \in Seq(S \union {Request})
  /\ Ordered(P, H, L, Never, Once)

(* Numbers H and L on the ACK network: those of packets in S that are      *)
(* acknowledged, and of message x, where the ACKs of P have arrived.       *)
AckTravels(S, x, H, L, P) ==
  \E h, l \in Seq(S \union {x}) :
    H = Numbers(h) /\ L = Numbers(l) /\ Ordered(P, h, l, Once, Twice)

(* What depends on the operation alone.                                    *)
LEMMA SameOperation ==
  /\ Extra \in {0, Request} /\ (Uploading => Extra = 0) /\ (~Uploading => Extra = Request)
  /\ operation' = operation =>
       /\ Extra' = Extra /\ Late' = Late /\ (Uploading <=> Uploading')
       /\ \A P, H, L, E, F : Ordered(P, H, L, E, F)
            <=> InOrder(Beyond, P, H, L, E, F) /\ InOrder(Late', P, H, L, Never, Once)
<1>1. Extra \in {0, Request} /\ (Uploading => Extra = 0) /\ (~Uploading => Extra = Request)
  BY DEF Extra
<1>2. ASSUME operation' = operation PROVE Extra' = Extra /\ Late' = Late /\ (Uploading <=> Uploading')
  BY <1>2 DEF Extra, Late, Uploading
<1>3. ASSUME operation' = operation
      PROVE  \A P, H, L, E, F : Ordered(P, H, L, E, F)
            <=> InOrder(Beyond, P, H, L, E, F) /\ InOrder(Late', P, H, L, Never, Once)
  <2>1. Late' = Late
    BY <1>2, <1>3
  <2>. QED
    BY <2>1 DEF Ordered
<1>. QED
  BY <1>1, <1>2, <1>3

(* The parts of LiveInv.                                                   *)
LEMMA LiveParts ==
  /\ TransfersTypeOK =>
       (LiveInv <=>
          /\ SenderInv /\ ReceiverInv /\ Custody /\ (isPayloadSent => isAcked[Eof])
          /\ DataTravels(LaunchedPackets, dataHeld, dataLeaving, HeldPackets)
          /\ AckTravels(HeldPackets, Extra, ackHeld, ackLeaving, AckedPackets))
  /\ TransfersTypeOK' /\ operation' = operation =>
       (LiveInv' <=>
          /\ SenderInv' /\ ReceiverInv' /\ Custody' /\ (isPayloadSent' => isAcked'[Eof])
          /\ DataTravels(LaunchedPackets', dataHeld', dataLeaving', HeldPackets')
          /\ AckTravels(HeldPackets', Extra, ackHeld', ackLeaving', AckedPackets'))
<1>1. ASSUME NEW S \in SUBSET Int, NEW x \in {0, Request}, NEW P,
             NEW H \in Seq(Slots \union {Request}), NEW L \in Seq(Slots \union {Request})
      PROVE  AckTravels(S, x, H, L, P)
             <=> \E h \in Traces(S \union {x}, H) :
                   \E l \in Traces(S \union {x}, L) : Ordered(P, h, l, Once, Twice)
  <2>1. Slots \union {Request} \subseteq Int /\ S \union {x} \in SUBSET Int
    BY MessageKinds, CommonAssumption DEF Slots
  <2>2. H \in Seq(Int) /\ L \in Seq(Int)
    BY <2>1, SubsetSequence
  <2>3. /\ Traces(S \union {x}, H) = {t \in Seq(S \union {x}) : H = Numbers(t)}
        /\ Traces(S \union {x}, L) = {t \in Seq(S \union {x}) : L = Numbers(t)}
    BY <2>1, <2>2, TracesSequences
  <2>. QED
    BY <2>3 DEF AckTravels
<1>2. HeldPackets \in SUBSET Int /\ HeldPackets' \in SUBSET Int /\ Extra \in {0, Request}
  BY PacketKinds, SameOperation DEF HeldPackets
<1>3. TransfersTypeOK => /\ ackHeld \in Seq(Slots \union {Request})
                         /\ ackLeaving \in Seq(Slots \union {Request})
  BY DEF TransfersTypeOK, OperationTypeOK
<1>4. TransfersTypeOK' => /\ ackHeld' \in Seq(Slots \union {Request})
                          /\ ackLeaving' \in Seq(Slots \union {Request})
  BY DEF TransfersTypeOK, OperationTypeOK
<1>5. TransfersTypeOK =>
        (AckTravels(HeldPackets, Extra, ackHeld, ackLeaving, AckedPackets)
         <=> \E h \in Traces(HeldPackets \union {Extra}, ackHeld) :
               \E l \in Traces(HeldPackets \union {Extra}, ackLeaving) :
                 Ordered(AckedPackets, h, l, Once, Twice))
  BY <1>1, <1>2, <1>3
<1>6. TransfersTypeOK' =>
        (AckTravels(HeldPackets', Extra, ackHeld', ackLeaving', AckedPackets')
         <=> \E h \in Traces(HeldPackets' \union {Extra}, ackHeld') :
               \E l \in Traces(HeldPackets' \union {Extra}, ackLeaving') :
                 Ordered(AckedPackets', h, l, Once, Twice))
  BY <1>1, <1>2, <1>4
<1>7. Answerable = HeldPackets \union {Extra} /\ Answerable' = HeldPackets' \union {Extra'}
  BY DEF Answerable, Extra
<1>8. ASSUME operation' = operation
      PROVE  LiveInv' <=>
          /\ SenderInv' /\ ReceiverInv' /\ Custody' /\ (isPayloadSent' => isAcked'[Eof])
          /\ DataTravels(LaunchedPackets', dataHeld', dataLeaving', HeldPackets')
          /\ \E h \in Traces(HeldPackets' \union {Extra}, ackHeld') :
               \E l \in Traces(HeldPackets' \union {Extra}, ackLeaving') :
                 Ordered(AckedPackets', h, l, Once, Twice)
  <2>1. /\ Extra' = Extra
        /\ \A P, H, L, E, F : Ordered(P, H, L, E, F)
            <=> InOrder(Beyond, P, H, L, E, F) /\ InOrder(Late', P, H, L, Never, Once)
    BY <1>8, SameOperation
  <2>2. LiveInv' <=>
          /\ SenderInv' /\ ReceiverInv' /\ Custody' /\ (isPayloadSent' => isAcked'[Eof])
          /\ dataHeld' \in Seq(LaunchedPackets' \union {Request})
          /\ dataLeaving' \in Seq(LaunchedPackets' \union {Request})
          /\ InOrder(Beyond, HeldPackets', dataHeld', dataLeaving', Never, Once)
          /\ InOrder(Late', HeldPackets', dataHeld', dataLeaving', Never, Once)
          /\ \E h \in Traces(Answerable', ackHeld') :
               \E l \in Traces(Answerable', ackLeaving') :
                  /\ InOrder(Beyond, AckedPackets', h, l, Once, Twice)
                  /\ InOrder(Late', AckedPackets', h, l, Never, Once)
    BY DEF LiveInv, Ordered
  <2>. QED
    BY <1>7, <2>1, <2>2 DEF DataTravels
<1>. QED
  BY <1>5, <1>6, <1>7, <1>8 DEF LiveInv, DataTravels

(* Numbers of no messages.                                                 *)
LEMMA NumbersShape ==
  ASSUME NEW s \in Seq(Int)
  PROVE  Len(Numbers(s)) = Len(s) /\ (Numbers(s) = <<>> <=> s = <<>>)
<1>1. Len(Numbers(s)) = Len(s)
  BY NumbersType
<1>2. Numbers(<<>>) = <<>>
  BY DEF Numbers
<1>3. ASSUME Numbers(s) = <<>> PROVE s = <<>>
  <2>1. Len(s) = 0
    BY <1>1, <1>3
  <2>. QED
    BY <2>1
<1>. QED
  BY <1>1, <1>2, <1>3

(* An ACK, or a request, is sent.                                          *)
LEMMA AckSent ==
  ASSUME RangeSuffices, NEW x \in {0, Request},
         NEW S \in SUBSET Packets, NEW T \in SUBSET Packets, S \subseteq T,
         NEW P \in SUBSET S, NEW m \in T \union {x}, NEW H, NEW L, NEW K, NEW M,
         Len(H) <= 1, ~Delays => H = <<>>, AckTravels(S, x, H, L, P),
         Sends(Number(m), H, L, K, M),
         m \in Packets \/ x = Request,
         Ahead(Beyond, m, S) \in Once, Ahead(Late, m, S) \in Never
  PROVE  AckTravels(T, x, K, M, P)
<1>1. PICK h \in Seq(S \union {x}), l \in Seq(S \union {x}) :
        H = Numbers(h) /\ L = Numbers(l) /\ Ordered(P, h, l, Once, Twice)
  BY DEF AckTravels
<1>2. /\ S \union {x} \subseteq Int /\ T \union {x} \subseteq Int
      /\ S \union {x} \subseteq T \union {x}
  BY PacketKinds, MessageKinds
<1>3. /\ h \in Seq(Int) /\ l \in Seq(Int) /\ m \in Int
      /\ h \in Seq(T \union {x}) /\ l \in Seq(T \union {x})
  BY <1>2, SubsetSequence
<1>4. Len(h) <= 1 /\ (~Delays => h = <<>>)
  BY <1>1, <1>3, NumbersShape
<1>5. PICK k \in Seq(Int), n \in Seq(Int) :
        K = Numbers(k) /\ M = Numbers(n) /\ Sends(m, h, l, k, n)
  BY <1>1, <1>3, <1>4, SendNumbers
<1>6. k \in Seq(T \union {x}) /\ n \in Seq(T \union {x})
  BY <1>3, <1>4, <1>5, SendElements
<1>7. P \union Elements(l) \subseteq S \union {x}
  <2>1. Elements(l) \subseteq S \union {x}
    BY DEF Elements
  <2>. QED
    BY <2>1
<1>8. PICK Y : Y = S \union {x}
  OBVIOUS
<1>9. /\ Ahead(Beyond, m, Y) \in Once /\ Ahead(Late, m, Y) \in Never
      /\ P \union Elements(l) \subseteq Y
  BY <1>7, <1>8, ExtraAhead
<1>10. Ordered(P, k, n, Once, Twice)
  BY <1>1, <1>3, <1>4, <1>5, <1>9, Widening, OrderedSent
<1>. QED
  BY <1>5, <1>6, <1>10 DEF AckTravels

(* The held ACK leaves on its own.                                         *)
LEMMA AckReleased ==
  ASSUME NEW x \in {0, Request}, NEW S \in SUBSET Packets, NEW P, NEW H, NEW L, Len(H) = 1, AckTravels(S, x, H, L, P)
  PROVE  AckTravels(S, x, <<>>, L \o H, P)
<1>1. PICK h \in Seq(S \union {x}), l \in Seq(S \union {x}) :
        H = Numbers(h) /\ L = Numbers(l) /\ Ordered(P, h, l, Once, Twice)
  BY DEF AckTravels
<1>2. S \union {x} \subseteq Int
  BY PacketKinds, MessageKinds
<1>3. h \in Seq(Int) /\ l \in Seq(Int)
  BY <1>2, SubsetSequence
<1>4. Len(h) = 1
  BY <1>1, <1>3, NumbersShape
<1>5. <<>> = Numbers(<<>>) /\ L \o H = Numbers(l \o h)
  BY <1>1, <1>3, <1>4, NumbersRelease
<1>6. Ordered(P, <<>>, l \o h, Once, Twice)
  BY <1>1, <1>3, <1>4, Widening, OrderedReleased
<1>7. <<>> \in Seq(S \union {x}) /\ l \o h \in Seq(S \union {x})
  OBVIOUS
<1>. QED
  BY <1>5, <1>6, <1>7 DEF AckTravels

(* The first ACK, or request, arrives.                                     *)
LEMMA AckRest ==
  ASSUME NEW x \in {0, Request}, NEW S \in SUBSET Packets, NEW P, NEW H, NEW L, L # <<>>,
         AckTravels(S, x, H, L, P)
  PROVE  \E a \in S \union {x} :
           /\ Head(L) = Number(a)
           /\ Ahead(Beyond, a, P) \in Twice /\ Ahead(Late, a, P) \in Once
           /\ \A Q : Q \subseteq P \union {a} => AckTravels(S, x, H, Tail(L), Q)
<1>1. PICK h \in Seq(S \union {x}), l \in Seq(S \union {x}) :
        H = Numbers(h) /\ L = Numbers(l) /\ Ordered(P, h, l, Once, Twice)
  BY DEF AckTravels
<1>2. S \union {x} \subseteq Int
  BY PacketKinds, MessageKinds
<1>3. h \in Seq(Int) /\ l \in Seq(Int)
  BY <1>2, SubsetSequence
<1>4. l # <<>>
  BY <1>1, <1>3, NumbersShape
<1>5. PICK a : a = Head(l)
  OBVIOUS
<1>6. a \in S \union {x} /\ Tail(l) \in Seq(S \union {x})
  BY <1>4, <1>5, TailType
<1>7. Head(L) = Number(a) /\ Tail(L) = Numbers(Tail(l))
  BY <1>1, <1>3, <1>4, <1>5, NumbersTail
<1>8. Ahead(Beyond, a, P) \in Twice /\ Ahead(Late, a, P) \in Once
  <2>1. P \subseteq P \union {Head(l)}
    OBVIOUS
  <2>. QED
    BY <1>1, <1>3, <1>4, <1>5, <2>1, Widening, OrderedRest
<1>9. ASSUME NEW Q, Q \subseteq P \union {a} PROVE AckTravels(S, x, H, Tail(L), Q)
  <2>1. Ordered(Q, h, Tail(l), Once, Twice)
    BY <1>1, <1>3, <1>4, <1>5, <1>9, Widening, OrderedRest
  <2>. QED
    BY <1>1, <1>6, <1>7, <2>1 DEF AckTravels
<1>. QED
  BY <1>6, <1>7, <1>8, <1>9

(* A packet, or a request, is sent.                                        *)
LEMMA DataSent ==
  ASSUME NEW S \in SUBSET Packets, NEW P \in SUBSET S, NEW m \in S \union {Request},
         NEW H, NEW L, NEW K, NEW M, Len(H) <= 1, ~Delays => H = <<>>,
         DataTravels(S, H, L, P), Sends(m, H, L, K, M),
         Ahead(Beyond, m, S) \in Never, Ahead(Late, m, S) \in Never
  PROVE  DataTravels(S, K, M, P)
<1>1. /\ H \in Seq(S \union {Request}) /\ L \in Seq(S \union {Request})
      /\ Ordered(P, H, L, Never, Once)
  BY DEF DataTravels
<1>2. S \union {Request} \subseteq Int
  BY PacketKinds, MessageKinds
<1>3. H \in Seq(Int) /\ L \in Seq(Int) /\ m \in Int
  BY <1>1, <1>2, SubsetSequence
<1>4. K \in Seq(S \union {Request}) /\ M \in Seq(S \union {Request})
  BY <1>1, SendElements
<1>5. P \union Elements(L) \subseteq S \union {Request}
  <2>1. Elements(L) \subseteq S \union {Request}
    BY <1>1 DEF Elements
  <2>. QED
    BY <2>1
<1>6. PICK Y : Y = S \union {Request}
  OBVIOUS
<1>7. /\ Ahead(Beyond, m, Y) \in Never /\ Ahead(Late, m, Y) \in Never
      /\ P \union Elements(L) \subseteq Y
  BY <1>5, <1>6, LateAhead
<1>8. Ordered(P, K, M, Never, Once)
  BY <1>1, <1>3, <1>7, Widening, OrderedSent
<1>. QED
  BY <1>4, <1>8 DEF DataTravels

(* The held packet, or request, leaves on its own.                         *)
LEMMA DataReleased ==
  ASSUME NEW S \in SUBSET Packets, NEW P, NEW H, NEW L, Len(H) = 1, DataTravels(S, H, L, P)
  PROVE  DataTravels(S, <<>>, L \o H, P)
<1>1. /\ H \in Seq(S \union {Request}) /\ L \in Seq(S \union {Request})
      /\ Ordered(P, H, L, Never, Once)
  BY DEF DataTravels
<1>2. S \union {Request} \subseteq Int
  BY PacketKinds, MessageKinds
<1>3. H \in Seq(Int) /\ L \in Seq(Int)
  BY <1>1, <1>2, SubsetSequence
<1>4. Ordered(P, <<>>, L \o H, Never, Once)
  BY <1>1, <1>3, Widening, OrderedReleased
<1>5. <<>> \in Seq(S \union {Request}) /\ L \o H \in Seq(S \union {Request})
  BY <1>1
<1>. QED
  BY <1>4, <1>5 DEF DataTravels

(* The first packet, or request, arrives.                                  *)
LEMMA DataRest ==
  ASSUME NEW S \in SUBSET Packets, NEW P, NEW Q, NEW H, NEW L, L # <<>>,
         DataTravels(S, H, L, P), Q \subseteq P \union {Head(L)}
  PROVE  /\ DataTravels(S, H, Tail(L), Q) /\ Head(L) \in S \union {Request}
         /\ Ahead(Beyond, Head(L), P) \in Once /\ Ahead(Late, Head(L), P) \in Once
<1>1. /\ H \in Seq(S \union {Request}) /\ L \in Seq(S \union {Request})
      /\ Ordered(P, H, L, Never, Once)
  BY DEF DataTravels
<1>2. S \union {Request} \subseteq Int
  BY PacketKinds, MessageKinds
<1>3. H \in Seq(Int) /\ L \in Seq(Int)
  BY <1>1, <1>2, SubsetSequence
<1>4. /\ Ordered(Q, H, Tail(L), Never, Once)
      /\ Ahead(Beyond, Head(L), P) \in Once /\ Ahead(Late, Head(L), P) \in Once
  BY <1>1, <1>3, Widening, OrderedRest
<1>5. Head(L) \in S \union {Request} /\ Tail(L) \in Seq(S \union {Request})
  BY <1>1, TailType
<1>. QED
  BY <1>1, <1>4, <1>5 DEF DataTravels

(* A file that is not empty has a packet.                                  *)
LEMMA SomePacket == ASSUME payloadSize > 0 PROVE numberOfPackets \in Nat /\ numberOfPackets > 0
<1>. DEFINE q == payloadSize \div BUFFER_LENGTH
            r == payloadSize % BUFFER_LENGTH
<1>1. /\ q \in Nat /\ r \in 0 .. (BUFFER_LENGTH - 1) /\ BUFFER_LENGTH \in Nat
      /\ payloadSize = q * BUFFER_LENGTH + r
  BY CommonAssumption
<1>2. numberOfPackets = q + (IF r > 0 THEN 1 ELSE 0)
  BY DEF numberOfPackets
<1>. HIDE DEF q, r
<1>3. CASE q = 0
  BY <1>1, <1>2, <1>3
<1>4. CASE q > 0
  BY <1>1, <1>2, <1>4
<1>. QED
  BY <1>1, <1>3, <1>4

-----------------------------------------------------------------------------
(* The steps of a transfer that has begun.                                 *)

(* The receiver has only what was launched, the sender knows only of that. *)
LEMMA LiveSets ==
  ASSUME Custody
  PROVE  /\ HeldPackets \in SUBSET LaunchedPackets /\ LaunchedPackets \in SUBSET Packets
         /\ AckedPackets \in SUBSET HeldPackets /\ HeldPackets \in SUBSET Packets
  BY DEF Custody, HeldPackets, LaunchedPackets, AckedPackets

(* The first ACK that arrives is that of a message which is not late.      *)
LEMMA FirstLiveAck ==
  ASSUME Custody, AckTravels(HeldPackets, Extra, ackHeld, ackLeaving, AckedPackets),
         ackLeaving # <<>>
  PROVE  \E a \in HeldPackets \union {Extra} :
           /\ Head(ackLeaving) = Number(a)
           /\ Ahead(Beyond, a, AckedPackets) \in Twice
           /\ Ahead(Late, a, AckedPackets) \in Once
           /\ \A Q : Q \subseteq AckedPackets \union {a} =>
                AckTravels(HeldPackets, Extra, ackHeld, Tail(ackLeaving), Q)
<1>1. PICK x \in {0, Request} : x = Extra
  BY SameOperation
<1>2. PICK S \in SUBSET Packets : S = HeldPackets
  BY LiveSets
<1>3. PICK P, H, L : P = AckedPackets /\ H = ackHeld /\ L = ackLeaving
  OBVIOUS
<1>4. L # <<>> /\ AckTravels(S, x, H, L, P)
  BY <1>1, <1>2, <1>3
<1>5. \E a \in S \union {x} :
        /\ Head(L) = Number(a)
        /\ Ahead(Beyond, a, P) \in Twice /\ Ahead(Late, a, P) \in Once
        /\ \A Q : Q \subseteq P \union {a} => AckTravels(S, x, H, Tail(L), Q)
  BY <1>4, AckRest, Zenon
<1>. QED
  BY <1>1, <1>2, <1>3, <1>5, Zenon

(* Both ends and both directions stay the same.                            *)
LEMMA SameLive ==
  ASSUME TransfersTypeOK, TransfersTypeOK', operation' = operation, LiveInv, UNCHANGED vars
  PROVE  LiveInv'
<1>1. /\ UNCHANGED <<senderVars, receiverVars>>
      /\ UNCHANGED <<dataHeld, dataLeaving, ackHeld, ackLeaving>>
  BY DEF vars, dataNetwork, ackNetwork
<1>2. /\ SenderInv' /\ ReceiverInv' /\ Custody'
      /\ HeldPackets' = HeldPackets /\ AckedPackets' = AckedPackets
      /\ \A p : Launched(p) <=> Launched(p)'
  BY <1>1, SameSender, SameReceiver, SameEnds DEF LiveInv
<1>3. LaunchedPackets' = LaunchedPackets
  BY <1>2 DEF LaunchedPackets
<1>4. isPayloadSent' => isAcked'[Eof]
  BY <1>1 DEF LiveInv, senderVars
<1>5. /\ DataTravels(LaunchedPackets, dataHeld, dataLeaving, HeldPackets)
      /\ AckTravels(HeldPackets, Extra, ackHeld, ackLeaving, AckedPackets)
  BY LiveParts
<1>. QED
  BY <1>1, <1>2, <1>3, <1>4, <1>5, LiveParts

(* A SenderThread tests its flag.                                          *)
LEMMA TestFlagLive ==
  ASSUME TransfersTypeOK, TransfersTypeOK', operation' = operation, LiveInv,
         NEW p \in Packets, ExitThread(p) \/ CommitThread(p)
  PROVE  LiveInv'
<1>1. /\ ThreadExit(p) \/ ThreadCommit(p)
      /\ UNCHANGED <<receiverVars, dataNetwork, ackNetwork>>
  BY DEF ExitThread, CommitThread
<1>2. /\ SenderInv /\ ReceiverInv /\ Custody /\ (isPayloadSent => isAcked[Eof])
      /\ DataTravels(LaunchedPackets, dataHeld, dataLeaving, HeldPackets)
      /\ AckTravels(HeldPackets, Extra, ackHeld, ackLeaving, AckedPackets)
  BY LiveParts
<1>3. SenderTypeOK
  BY DEF TransfersTypeOK, EndsTypeOK
<1>4. /\ SenderInv' /\ Custody' /\ AckedPackets' = AckedPackets
      /\ \A q : Launched(q) <=> Launched(q)'
  BY <1>1, <1>2, <1>3, ThreadInv
<1>5. LaunchedPackets' = LaunchedPackets
  BY <1>4 DEF LaunchedPackets
<1>6. ReceiverInv' /\ HeldPackets' = HeldPackets
  BY <1>1, <1>2, SameReceiver
<1>7. isPayloadSent' => isAcked'[Eof]
  BY <1>1, <1>2 DEF ThreadExit, ThreadCommit, Transition
<1>8. UNCHANGED <<dataHeld, dataLeaving, ackHeld, ackLeaving>>
  BY <1>1 DEF dataNetwork, ackNetwork
<1>. QED
  BY <1>2, <1>4, <1>5, <1>6, <1>7, <1>8, LiveParts

(* Only the data network changes, and where a SenderThread is.             *)
LEMMA DataLive ==
  ASSUME TransfersTypeOK, TransfersTypeOK', operation' = operation, LiveInv,
         UNCHANGED <<receiverVars, ackNetwork, isAcked, isPayloadSent>>,
         SenderInv', Custody', AckedPackets' = AckedPackets,
         \A q : Launched(q) <=> Launched(q)',
         DataTravels(LaunchedPackets, dataHeld', dataLeaving', HeldPackets)
  PROVE  LiveInv'
<1>1. ReceiverInv' /\ HeldPackets' = HeldPackets
  BY SameReceiver DEF LiveInv
<1>2. LaunchedPackets' = LaunchedPackets
  BY DEF LaunchedPackets
<1>3. isPayloadSent' => isAcked'[Eof]
  BY DEF LiveInv
<1>4. AckTravels(HeldPackets, Extra, ackHeld, ackLeaving, AckedPackets)
  BY LiveParts
<1>5. UNCHANGED <<ackHeld, ackLeaving>>
  BY DEF ackNetwork
<1>. QED
  BY <1>1, <1>2, <1>3, <1>4, <1>5, LiveParts

(* Only the ACK network changes.                                           *)
LEMMA AckLive ==
  ASSUME TransfersTypeOK, TransfersTypeOK', operation' = operation, LiveInv,
         UNCHANGED <<senderVars, receiverVars, dataNetwork>>,
         AckTravels(HeldPackets, Extra, ackHeld', ackLeaving', AckedPackets)
  PROVE  LiveInv'
<1>1. /\ SenderInv' /\ ReceiverInv' /\ Custody'
      /\ HeldPackets' = HeldPackets /\ AckedPackets' = AckedPackets
      /\ \A p : Launched(p) <=> Launched(p)'
  BY SameSender, SameReceiver, SameEnds DEF LiveInv
<1>2. LaunchedPackets' = LaunchedPackets
  BY <1>1 DEF LaunchedPackets
<1>3. isPayloadSent' => isAcked'[Eof]
  BY DEF LiveInv, senderVars
<1>4. DataTravels(LaunchedPackets, dataHeld, dataLeaving, HeldPackets)
  BY LiveParts
<1>5. UNCHANGED <<dataHeld, dataLeaving>>
  BY DEF dataNetwork
<1>. QED
  BY <1>1, <1>2, <1>3, <1>4, <1>5, LiveParts

(* A SenderThread calls sendto.                                            *)
LEMMA SendPacketLive ==
  ASSUME TransfersTypeOK, TransfersTypeOK', operation' = operation, LiveInv, Prompt,
         NEW p \in Packets, SendPacket(p)
  PROVE  LiveInv'
<1>1. /\ ThreadSend(p) /\ thread[p] = "committed" /\ Transmit(p)
      /\ UNCHANGED <<receiverVars, ackNetwork, isAcked, isPayloadSent>>
  BY DEF SendPacket, ThreadSend, Transition
<1>2. /\ EndsTypeOK /\ SenderTypeOK /\ SenderInv /\ Custody
      /\ DataTravels(LaunchedPackets, dataHeld, dataLeaving, HeldPackets)
      /\ Len(dataHeld) <= 1 /\ (~Delays => dataHeld = <<>>)
  BY LiveParts DEF TransfersTypeOK, EndsTypeOK
<1>3. p \in LaunchedPackets
  BY <1>1, <1>2 DEF LaunchedPackets, SenderInv
<1>4. Ahead(Beyond, p, LaunchedPackets) \in Never
  BY <1>1, <1>2, NotLate DEF LaunchedPackets
<1>5. Ahead(Late, p, LaunchedPackets) \in Never
  BY LateAhead
<1>6. Sends(p, dataHeld, dataLeaving, dataHeld', dataLeaving')
  BY <1>1, TransmitSends
<1>7. DataTravels(LaunchedPackets, dataHeld', dataLeaving', HeldPackets)
  BY <1>2, <1>3, <1>4, <1>5, <1>6, LiveSets, DataSent
<1>8. /\ SenderInv' /\ Custody' /\ AckedPackets' = AckedPackets
      /\ \A q : Launched(q) <=> Launched(q)'
  BY <1>1, <1>2, ThreadInv
<1>. QED
  BY <1>1, <1>7, <1>8, DataLive

(* Threads end and send, the router lets go of what it holds back.         *)
LEMMA BackgroundLive ==
  ASSUME TransfersTypeOK, TransfersTypeOK', operation' = operation, LiveInv, Prompt, Background
  PROVE  LiveInv'
<1>1. /\ Custody /\ Len(dataHeld) <= 1 /\ Len(ackHeld) <= 1
      /\ DataTravels(LaunchedPackets, dataHeld, dataLeaving, HeldPackets)
      /\ AckTravels(HeldPackets, Extra, ackHeld, ackLeaving, AckedPackets)
  BY LiveParts DEF TransfersTypeOK
<1>2. CASE ReleaseData
  <2>1. /\ dataHeld # <<>> /\ dataLeaving' = dataLeaving \o dataHeld /\ dataHeld' = <<>>
        /\ UNCHANGED <<senderVars, receiverVars, ackNetwork>>
    BY <1>2 DEF ReleaseData, Data!Release
  <2>2. dataHeld \in Seq(DataMessages)
    BY DEF TransfersTypeOK
  <2>3. Len(dataHeld) = 1
    BY <1>1, <2>1, <2>2, AtMostOne
  <2>4. DataTravels(LaunchedPackets, dataHeld', dataLeaving', HeldPackets)
    BY <1>1, <2>1, <2>3, LiveSets, DataReleased
  <2>5. /\ SenderInv' /\ Custody' /\ AckedPackets' = AckedPackets
        /\ \A q : Launched(q) <=> Launched(q)'
    BY <2>1, SameSender, SameEnds DEF LiveInv
  <2>. QED
    BY <2>1, <2>4, <2>5, DataLive DEF senderVars
<1>3. CASE ReleaseAck
  <2>1. /\ ackHeld # <<>> /\ ackLeaving' = ackLeaving \o ackHeld /\ ackHeld' = <<>>
        /\ UNCHANGED <<senderVars, receiverVars, dataNetwork>>
    BY <1>3 DEF ReleaseAck, Acks!Release
  <2>2. ackHeld \in Seq(AckMessages)
    BY DEF TransfersTypeOK
  <2>3. Len(ackHeld) = 1
    BY <1>1, <2>1, <2>2, AtMostOne
  <2>4. AckTravels(HeldPackets, Extra, ackHeld', ackLeaving', AckedPackets)
    BY <1>1, <2>1, <2>3, LiveSets, SameOperation, AckReleased
  <2>. QED
    BY <2>1, <2>4, AckLive
<1>. QED
  BY <1>2, <1>3, TestFlagLive, SendPacketLive DEF Background

(* A request sent while the client has neither the first packet nor the    *)
(* EOF.                                                                    *)
LEMMA RequestLive ==
  ASSUME RangeSuffices, TransfersTypeOK, TransfersTypeOK', operation' = operation, LiveInv,
         ~Uploading, Acknowledge(Request),
         UNCHANGED <<senderVars, receiverVars, dataNetwork>>, ~Holds(0), ~Holds(Eof)
  PROVE  LiveInv'
<1>1. /\ Custody /\ Len(ackHeld) <= 1 /\ (~Delays => ackHeld = <<>>)
      /\ AckTravels(HeldPackets, Extra, ackHeld, ackLeaving, AckedPackets)
  BY LiveParts DEF TransfersTypeOK
<1>2. Ahead(Late, Request, HeldPackets) \in Never
  <2>1. 0 \notin HeldPackets /\ Eof \notin HeldPackets
    BY DEF HeldPackets
  <2>2. Ahead(Late, Request, HeldPackets) = {}
    BY <2>1 DEF Ahead, Late
  <2>. QED
    BY <2>2, LateAhead
<1>3. Ahead(Beyond, Request, HeldPackets) \in Once
  BY LateAhead
<1>4. Sends(Number(Request), ackHeld, ackLeaving, ackHeld', ackLeaving')
  <2>1. Number(Request) = Request
    BY MessageKinds DEF Number
  <2>. QED
    BY <2>1, AcknowledgeSends
<1>5. AckTravels(HeldPackets, Extra, ackHeld', ackLeaving', AckedPackets)
  <2>1. Extra = Request /\ Request \in HeldPackets \union {Extra}
    BY SameOperation
  <2>. QED
    BY <1>1, <1>2, <1>3, <1>4, <2>1, LiveSets, AckSent
<1>. QED
  BY <1>5, AckLive

(* The data network loses its first message, everything else that LiveInv  *)
(* is about stays the same.                                                *)
LEMMA RestLive ==
  ASSUME TransfersTypeOK, TransfersTypeOK', operation' = operation, LiveInv, dataLeaving # <<>>,
         dataLeaving' = Tail(dataLeaving), UNCHANGED <<senderVars, receiverVars, dataHeld>>,
         AckTravels(HeldPackets, Extra, ackHeld', ackLeaving', AckedPackets)
  PROVE  LiveInv'
<1>1. /\ Custody /\ DataTravels(LaunchedPackets, dataHeld, dataLeaving, HeldPackets)
      /\ (isPayloadSent => isAcked[Eof])
  BY LiveParts
<1>2. /\ SenderInv' /\ ReceiverInv' /\ Custody'
      /\ HeldPackets' = HeldPackets /\ AckedPackets' = AckedPackets
      /\ \A p : Launched(p) <=> Launched(p)'
  BY SameSender, SameReceiver, SameEnds DEF LiveInv
<1>3. LaunchedPackets' = LaunchedPackets
  BY <1>2 DEF LaunchedPackets
<1>4. isPayloadSent' => isAcked'[Eof]
  BY <1>1 DEF senderVars
<1>5. HeldPackets \subseteq HeldPackets \union {Head(dataLeaving)}
  OBVIOUS
<1>6. DataTravels(LaunchedPackets, dataHeld', dataLeaving', HeldPackets)
  BY <1>1, <1>5, LiveSets, DataRest
<1>. QED
  BY <1>2, <1>3, <1>4, <1>6, LiveParts

(* A POST that arrives during the transfer is answered with the number of  *)
(* the first packet.                                                       *)
LEMMA AnswerLive ==
  ASSUME RangeSuffices, TransfersTypeOK, TransfersTypeOK', operation' = operation, LiveInv,
         Uploading, dataLeaving # <<>>, Head(dataLeaving) = Request,
         dataLeaving' = Tail(dataLeaving), UNCHANGED <<senderVars, receiverVars, dataHeld>>,
         Acknowledge(RequestNumber)
  PROVE  LiveInv'
<1>1. /\ Custody /\ DataTravels(LaunchedPackets, dataHeld, dataLeaving, HeldPackets)
      /\ AckTravels(HeldPackets, Extra, ackHeld, ackLeaving, AckedPackets)
      /\ Len(ackHeld) <= 1 /\ (~Delays => ackHeld = <<>>)
  BY LiveParts DEF TransfersTypeOK
<1>2. HeldPackets \subseteq HeldPackets \union {Head(dataLeaving)}
  OBVIOUS
<1>3. Ahead(Late, Request, HeldPackets) \in Once
  BY <1>1, <1>2, LiveSets, DataRest
<1>4. 0 \in Packets /\ Extra = 0 /\ 0 \in HeldPackets \union {Extra}
  BY PacketCount, SameOperation DEF Packets
<1>5. Ahead(Beyond, 0, HeldPackets) \in Once
  <2>1. Ahead(Beyond, 0, HeldPackets) \subseteq Ahead(Late, Request, HeldPackets)
    BY DEF Ahead, Late
  <2>. QED
    BY <1>3, <2>1, Widening DEF Closed
<1>6. Ahead(Late, 0, HeldPackets) \in Never
  BY <1>4, LateAhead
<1>7. Sends(Number(0), ackHeld, ackLeaving, ackHeld', ackLeaving')
  <2>1. Number(0) = RequestNumber
    BY <1>4, MessageKinds DEF Number
  <2>. QED
    BY <2>1, AcknowledgeSends
<1>8. AckTravels(HeldPackets, Extra, ackHeld', ackLeaving', AckedPackets)
  BY <1>1, <1>4, <1>5, <1>6, <1>7, LiveSets, AckSent
<1>. QED
  BY <1>8, RestLive

(* A message arrives and is taken as a packet.                             *)
LEMMA TakesLive ==
  ASSUME RangeSuffices, TransfersTypeOK, TransfersTypeOK', operation' = operation, LiveInv,
         dataLeaving # <<>>,
         dataLeaving' = Tail(dataLeaving), UNCHANGED <<senderVars, dataHeld>>,
         NEW p \in Packets, p = Head(dataLeaving), Takes(p)
  PROVE  LiveInv'
<1>1. /\ SenderInv /\ ReceiverInv /\ Custody /\ (isPayloadSent => isAcked[Eof])
      /\ DataTravels(LaunchedPackets, dataHeld, dataLeaving, HeldPackets)
      /\ AckTravels(HeldPackets, Extra, ackHeld, ackLeaving, AckedPackets)
      /\ Len(ackHeld) <= 1 /\ (~Delays => ackHeld = <<>>)
  BY LiveParts DEF TransfersTypeOK
<1>2. PICK T : T = HeldPackets'
  OBVIOUS
<1>3. T \in SUBSET Packets /\ HeldPackets \subseteq T /\ T \subseteq HeldPackets \union {p}
  BY <1>2 DEF Takes, HeldPackets
<1>4. /\ DataTravels(LaunchedPackets, dataHeld, Tail(dataLeaving), T)
      /\ p \in LaunchedPackets \union {Request}
      /\ Ahead(Beyond, p, HeldPackets) \in Once
  BY <1>1, <1>3, LiveSets, DataRest
<1>5. p \in LaunchedPackets
  BY <1>4, MessageKinds
<1>6. AckTravels(T, Extra, ackHeld', ackLeaving', AckedPackets)
  <2>1. CASE Acknowledge(Slot(p)) /\ p \in HeldPackets'
    <3>1. Sends(Number(p), ackHeld, ackLeaving, ackHeld', ackLeaving')
      <4>1. Number(p) = Slot(p)
        BY DEF Number
      <4>. QED
        BY <2>1, <4>1, AcknowledgeSends
    <3>2. Ahead(Late, p, HeldPackets) \in Never
      BY LateAhead
    <3>. QED
      BY <1>1, <1>2, <1>3, <1>4, <2>1, <3>1, <3>2, LiveSets, SameOperation, AckSent
  <2>2. CASE UNCHANGED ackNetwork
    <3>1. PICK h \in Seq(HeldPackets \union {Extra}), l \in Seq(HeldPackets \union {Extra}) :
            /\ ackHeld = Numbers(h) /\ ackLeaving = Numbers(l)
            /\ Ordered(AckedPackets, h, l, Once, Twice)
      BY <1>1 DEF AckTravels
    <3>2. h \in Seq(T \union {Extra}) /\ l \in Seq(T \union {Extra})
      <4>1. HeldPackets \union {Extra} \subseteq T \union {Extra}
        BY <1>3
      <4>. QED
        BY <4>1, SubsetSequence
    <3>. QED
      BY <2>2, <3>1, <3>2 DEF AckTravels, ackNetwork
  <2>. QED
    BY <2>1, <2>2 DEF Takes
<1>7. SenderInv' /\ AckedPackets' = AckedPackets /\ \A q : Launched(q) <=> Launched(q)'
  BY <1>1, SameSender
<1>8. LaunchedPackets' = LaunchedPackets
  BY <1>7 DEF LaunchedPackets
<1>9. Custody'
  BY <1>1, <1>5, TakesCustody DEF LaunchedPackets
<1>10. ReceiverInv'
  BY DEF Takes
<1>11. isPayloadSent' => isAcked'[Eof]
  BY <1>1 DEF senderVars
<1>. QED
  BY <1>2, <1>4, <1>6, <1>7, <1>8, <1>9, <1>10, <1>11, LiveParts

(* A packet that arrives is taken as the packet it is.                     *)
LEMMA MessageLive ==
  ASSUME RangeSuffices, TransfersTypeOK, LiveInv, dataLeaving # <<>>,
         NEW p \in Packets, p = Head(dataLeaving),
         ReceiveData(p) \/ ReceiveEof(p) \/ ReAcknowledge(p)
  PROVE  Takes(p) /\ Launched(p)
<1>1. /\ EndsTypeOK /\ SenderInv /\ ReceiverInv /\ Custody
      /\ DataTravels(LaunchedPackets, dataHeld, dataLeaving, HeldPackets)
  BY LiveParts DEF TransfersTypeOK
<1>2. p \in LaunchedPackets \union {Request} /\ Ahead(Beyond, p, HeldPackets) \in Once
  BY <1>1, LiveSets, DataRest
<1>3. Launched(p)
  BY <1>2, MessageKinds DEF LaunchedPackets
<1>. QED
  BY <1>1, <1>2, <1>3, NearReceiver, MessageTakes

(* The second ACK of a POST is no harm when packet 0 has arrived: if its   *)
(* flag is not raised yet, it is the ACK that raises it.                   *)
LEMMA ZeroAcked ==
  ASSUME EndsTypeOK, SenderInv, Custody, payloadSize > 0, ProcessAck(Slot(0)),
         UNCHANGED receiverVars, ZeroHeld'
  PROVE  Holds(0)
<1>1. 0 \in Packets /\ 0 \in DataPackets /\ Eof # 0
  BY SomePacket DEF DataPackets, Packets, Eof
<1>2. Holds(0) <=> Holds(0)'
  BY SameReceiver
<1>3. CASE currentWindowOrigin > 0
  <2>1. isAcked[0]
    BY <1>1, <1>3 DEF SenderInv
  <2>. QED
    BY <1>1, <2>1 DEF Custody
<1>4. CASE currentWindowOrigin = 0
  <2>1. Pending(0)
    BY <1>1, <1>4, CommonAssumption DEF Pending, Launched
  <2>2. windowState[Slot(0)] = 0
    BY <1>1, <2>1 DEF SenderInv
  <2>3. RaiseFlag(Slot(0))
    BY DEF ProcessAck, ProcessDataAck, ProcessEofAck
  <2>4. isAcked'[0]
    BY <1>1, <2>2, <2>3 DEF RaiseFlag
  <2>. QED
    BY <1>2, <2>4 DEF ZeroHeld
<1>5. currentWindowOrigin \in Nat
  BY OriginType
<1>. QED
  BY <1>3, <1>4, <1>5

(* An ACK arrives and is given to the Sender.                              *)
LEMMA ProcessAckLive ==
  ASSUME RangeSuffices, TransfersTypeOK, TransfersTypeOK', operation' = operation, LiveInv,
         Uploading => payloadSize > 0 /\ ZeroHeld', ackLeaving # <<>>,
         Head(ackLeaving) # Request, ProcessAck(Head(ackLeaving)),
         ackLeaving' = Tail(ackLeaving), UNCHANGED <<receiverVars, dataNetwork, ackHeld>>
  PROVE  LiveInv'
<1>1. /\ EndsTypeOK /\ SenderInv /\ ReceiverInv /\ Custody /\ (isPayloadSent => isAcked[Eof])
      /\ DataTravels(LaunchedPackets, dataHeld, dataLeaving, HeldPackets)
      /\ AckTravels(HeldPackets, Extra, ackHeld, ackLeaving, AckedPackets)
  BY LiveParts DEF TransfersTypeOK
<1>2. PICK a \in HeldPackets \union {Extra} :
        /\ Head(ackLeaving) = Number(a)
        /\ Ahead(Beyond, a, AckedPackets) \in Twice
        /\ \A Q : Q \subseteq AckedPackets \union {a} =>
             AckTravels(HeldPackets, Extra, ackHeld, Tail(ackLeaving), Q)
  BY <1>1, FirstLiveAck, Zenon
<1>3. a \in HeldPackets /\ a \in Packets /\ Head(ackLeaving) = Slot(a)
  <2>1. Number(Request) = Request /\ a # Request
    BY <1>2, MessageKinds DEF Number
  <2>2. ASSUME a \notin HeldPackets PROVE FALSE
    <3>1. Uploading /\ a = 0
      BY <1>2, <2>1, <2>2, SameOperation
    <3>2. 0 \in Packets /\ Head(ackLeaving) = Slot(0)
      BY <1>2, <3>1, PacketCount DEF Packets, Number
    <3>3. Holds(0)
      BY <1>1, <3>1, <3>2, ZeroAcked
    <3>. QED
      BY <2>2, <3>1, <3>2, <3>3 DEF HeldPackets
  <2>. QED
    BY <1>2, <2>2 DEF HeldPackets, Number
<1>4. /\ SenderInv' /\ ReceiverInv' /\ Custody'
      /\ AckedPackets' = AckedPackets \union {a}
      /\ HeldPackets' = HeldPackets
      /\ \A p \in Packets : Launched(p) => Launched(p)'
  BY <1>1, <1>2, <1>3, ProcessAckInv
<1>5. AckTravels(HeldPackets', Extra, ackHeld', ackLeaving', AckedPackets')
  BY <1>2, <1>4
<1>6. DataTravels(LaunchedPackets', dataHeld', dataLeaving', HeldPackets')
  <2>1. LaunchedPackets \union {Request} \subseteq LaunchedPackets' \union {Request}
    BY <1>4 DEF LaunchedPackets
  <2>2. /\ dataHeld \in Seq(LaunchedPackets' \union {Request})
        /\ dataLeaving \in Seq(LaunchedPackets' \union {Request})
    BY <1>1, <2>1, SubsetSequence DEF DataTravels
  <2>3. UNCHANGED <<dataHeld, dataLeaving>>
    BY DEF dataNetwork
  <2>. QED
    BY <1>1, <1>4, <2>2, <2>3 DEF DataTravels
<1>7. isPayloadSent' => isAcked'[Eof]
  <2>1. SUFFICES ASSUME isPayloadSent' PROVE isAcked'[Eof]
    OBVIOUS
  <2>2. /\ ~isPayloadSent /\ currentWindowOrigin = numberOfPackets
        /\ UNCHANGED currentWindowOrigin /\ Slot(a) = Slot(Eof)
    BY <1>3, <2>1 DEF ProcessAck, ProcessDataAck, ProcessEofAck
  <2>3. Launched(a) /\ a \in Nat /\ a <= Eof
    BY <1>1, <1>3, PacketKinds DEF Custody, HeldPackets, Eof
  <2>4. currentWindowOrigin <= a + WINDOW_SIZE + Slack + (IF Delays THEN 2 ELSE 0)
    BY <1>1, <1>2, <1>3, AckNear
  <2>5. Eof \in Nat /\ Eof < a + SEQUENCE_RANGE /\ a < Eof + SEQUENCE_RANGE
    <3>1. PICK e : e = Eof
      OBVIOUS
    <3>2. /\ e \in Nat /\ a \in Nat /\ a <= e /\ Slack \in Nat /\ WINDOW_SIZE \in Nat
          /\ e <= a + WINDOW_SIZE + Slack + (IF Delays THEN 2 ELSE 0)
      BY <2>2, <2>3, <2>4, <3>1, PacketCount, RangeFacts, CommonAssumption DEF Eof
    <3>. QED
      BY <3>1, <3>2, RangeFacts
  <2>6. a = Eof
    BY <2>2, <2>3, <2>5, SlotInjective
  <2>7. Eof \in AckedPackets'
    BY <1>4, <2>6
  <2>. QED
    BY <2>7 DEF AckedPackets
<1>. QED
  BY <1>4, <1>5, <1>6, <1>7, LiveParts

(* A message arrives at the sending side and is ignored.                   *)
LEMMA IgnoreLive ==
  ASSUME TransfersTypeOK, TransfersTypeOK', operation' = operation, LiveInv, ackLeaving # <<>>,
         ackLeaving' = Tail(ackLeaving),
         UNCHANGED <<senderVars, receiverVars, dataNetwork, ackHeld>>
  PROVE  LiveInv'
<1>1. Custody /\ AckTravels(HeldPackets, Extra, ackHeld, ackLeaving, AckedPackets)
  BY LiveParts
<1>2. PICK a \in HeldPackets \union {Extra} :
        \A Q : Q \subseteq AckedPackets \union {a} =>
          AckTravels(HeldPackets, Extra, ackHeld, Tail(ackLeaving), Q)
  BY <1>1, FirstLiveAck, Zenon
<1>3. AckTravels(HeldPackets, Extra, ackHeld', ackLeaving', AckedPackets)
  BY <1>2
<1>. QED
  BY <1>3, AckLive

(* The first packet and the EOF are two packets.                           *)
LEMMA BothAhead ==
  ASSUME NEW P, 0 \in P, Eof \in P, Eof # 0
  PROVE  Ahead(Late, Request, P) \notin Once
<1>1. 0 \in Packets /\ Eof \in Packets
  BY PacketCount, PacketKinds DEF Packets
<1>2. 0 \in Ahead(Late, Request, P) /\ Eof \in Ahead(Late, Request, P)
  BY <1>1 DEF Ahead, Late
<1>. QED
  BY <1>2 DEF Once, Never

(* No request arrives once the transfer is complete on the side it comes   *)
(* to: a thread that waits again for a request does not answer an old one. *)
LEMMA NoLateRequest ==
  ASSUME TransfersTypeOK, LiveInv
  PROVE  /\ dataLeaving # <<>> /\ isPayloadComplete => Head(dataLeaving) # Request
         /\ ackLeaving # <<>> /\ isPayloadSent => Head(ackLeaving) # Request
<1>1. /\ SenderInv /\ ReceiverInv /\ Custody /\ (isPayloadSent => isAcked[Eof])
      /\ DataTravels(LaunchedPackets, dataHeld, dataLeaving, HeldPackets)
      /\ AckTravels(HeldPackets, Extra, ackHeld, ackLeaving, AckedPackets)
  BY LiveParts
<1>2. 0 \in Packets /\ Eof \in Packets
  BY PacketCount, PacketKinds DEF Packets
<1>3. ASSUME isPayloadComplete
      PROVE  0 \in HeldPackets /\ Eof \in HeldPackets /\ Eof # 0
                /\ currentWindowOrigin = numberOfPackets
  <2>1. 0 \in HeldPackets /\ Eof \in HeldPackets
    BY <1>1, <1>2, <1>3, CompleteHolds DEF HeldPackets
  <2>2. Launched(Eof)
    BY <1>1, <1>2, <2>1 DEF Custody, HeldPackets
  <2>. QED
    BY <2>1, <2>2, PacketCount DEF Launched, Eof
<1>4. ASSUME dataLeaving # <<>>, isPayloadComplete PROVE Head(dataLeaving) # Request
  <2>1. HeldPackets \subseteq HeldPackets \union {Head(dataLeaving)}
    OBVIOUS
  <2>2. Ahead(Late, Head(dataLeaving), HeldPackets) \in Once
    BY <1>1, <1>4, <2>1, LiveSets, DataRest
  <2>. QED
    BY <1>3, <1>4, <2>2, BothAhead
<1>5. ASSUME ackLeaving # <<>>, isPayloadSent PROVE Head(ackLeaving) # Request
  <2>1. PICK a \in HeldPackets \union {Extra} :
          Head(ackLeaving) = Number(a) /\ Ahead(Late, a, AckedPackets) \in Once
    BY <1>1, <1>5, FirstLiveAck, Zenon
  <2>2. isPayloadComplete
    BY <1>1, <1>5 DEF Custody
  <2>3. 0 \in AckedPackets /\ Eof \in AckedPackets /\ Eof # 0
    <3>1. 0 \in DataPackets /\ 0 < currentWindowOrigin
      BY <1>3, <2>2, PacketCount DEF DataPackets, Eof
    <3>. QED
      BY <1>1, <1>2, <1>3, <1>5, <2>2, <3>1 DEF SenderInv, AckedPackets
  <2>4. a # Request
    BY <2>1, <2>3, BothAhead
  <2>5. a \in Packets
    BY <1>2, <2>4, SameOperation DEF HeldPackets
  <2>6. Number(a) \in Slots
    BY <2>5, NumberType, PacketKinds
  <2>. QED
    BY <2>1, <2>6, MessageKinds
<1>. QED
  BY <1>4, <1>5

-----------------------------------------------------------------------------
(* The invariant, action by action.                                        *)

(* An operation is an upload or a download.                                *)
LEMMA TwoKinds ==
  TransfersTypeOK => (Uploading <=> ~Downloading)
  BY DEF TransfersTypeOK, OperationTypeOK, Uploading, Downloading

(* A step that leaves both ends where they are.                            *)
LEMMA SamePhases ==
  ASSUME UNCHANGED <<operation, fileExists, phase, serverState, receiverVars, isPayloadSent>>
  PROVE  /\ (Uploading <=> Uploading') /\ (Idle <=> Idle') /\ (Live <=> Live')
         /\ PhaseInv => PhaseInv'
<1>1. UNCHANGED <<operation, fileExists, phase, serverState, isPayloadSent, isPayloadComplete>>
  BY DEF receiverVars
<1>2. Holds(0)' <=> Holds(0)
  BY SameReceiver
<1>3. (Uploading <=> Uploading') /\ (Idle <=> Idle') /\ (Live <=> Live')
  BY <1>1 DEF Uploading, Idle, Live
<1>4. UploadPhases => UploadPhases'
  BY <1>1, <1>3 DEF UploadPhases
<1>5. DownloadPhases => DownloadPhases'
  BY <1>1, <1>2, <1>3 DEF DownloadPhases
<1>. QED
  BY <1>3, <1>4, <1>5 DEF PhaseInv

(* A step that leaves Sender and Receiver as they are before the payload.  *)
LEMMA SameIdle ==
  ASSUME IdleInv, UNCHANGED <<senderVars, receiverVars>>
  PROVE  SenderCreated' /\ ReceiverInit'
  BY DEF IdleInv, SenderCreated, ReceiverInit, senderVars, receiverVars

(* Threads end and send, the router lets go of what it holds back.         *)
LEMMA BackgroundInv ==
  ASSUME TransfersInv, Prompt, TransfersTypeOK', Background
  PROVE  TransfersInv'
<1>1. TransfersTypeOK /\ PhaseInv
  BY DEF TransfersInv
<1>2. /\ UNCHANGED <<receiverVars, isPayloadSent>>
      /\ UNCHANGED <<operation, fileExists, phase, serverState>>
  BY DEF Background, opVars, ExitThread, ThreadExit, CommitThread, ThreadCommit,
         SendPacket, ThreadSend, Transition, ReleaseData, ReleaseAck, senderVars
<1>3. /\ PhaseInv' /\ (Uploading <=> Uploading') /\ (Idle <=> Idle') /\ (Live <=> Live')
  BY <1>1, <1>2, SamePhases
<1>4. ASSUME Idle PROVE IdleInv'
  <2>1. IdleInv
    BY <1>4 DEF TransfersInv
  <2>2. \A p \in Packets : thread[p] = "idle"
    BY <2>1 DEF IdleInv, SenderCreated
  <2>3. \A p \in Packets : ~ExitThread(p) /\ ~CommitThread(p) /\ ~SendPacket(p)
    BY <2>2 DEF ExitThread, ThreadExit, CommitThread, ThreadCommit, SendPacket, ThreadSend,
                Transition
  <2>4. /\ UNCHANGED <<senderVars, receiverVars>>
        /\ \/ UNCHANGED <<ackHeld, ackLeaving>> /\ dataHeld # <<>>
              /\ dataHeld' = <<>> /\ dataLeaving' = dataLeaving \o dataHeld
           \/ UNCHANGED <<dataHeld, dataLeaving>> /\ ackHeld # <<>>
              /\ ackHeld' = <<>> /\ ackLeaving' = ackLeaving \o ackHeld
    BY <2>3 DEF Background, ReleaseData, ReleaseAck, Data!Release, Acks!Release,
                dataNetwork, ackNetwork
  <2>5. SenderCreated' /\ ReceiverInit'
    BY <2>1, <2>4, SameIdle
  <2>6. ASSUME NEW M, NEW H \in Seq(M), NEW L \in Seq(M)
        PROVE  <<>> \in Seq(M) /\ L \o H \in Seq(M)
    OBVIOUS
  <2>7. CASE Uploading
    <3>1. UploadAwaited
      BY <2>1, <2>7 DEF IdleInv
    <3>2. dataHeld' \in Seq({Request}) /\ dataLeaving' \in Seq({Request})
      BY <2>4, <2>6, <3>1 DEF UploadAwaited
    <3>3. ackHeld' \in Seq({RequestNumber}) /\ ackLeaving' \in Seq({RequestNumber})
      BY <2>4, <2>6, <3>1 DEF UploadAwaited
    <3>5. serverState = "WAITING_FOR_REQUEST" => ackHeld' = <<>> /\ ackLeaving' = <<>>
      BY <2>4, <3>1 DEF UploadAwaited
    <3>4. UploadAwaited'
      BY <1>2, <3>2, <3>3, <3>5 DEF UploadAwaited, RequestNumber
    <3>. QED
      BY <1>3, <2>5, <2>7, <3>4 DEF IdleInv
  <2>8. CASE ~Uploading
    <3>1. DownloadAwaited
      BY <2>1, <2>8 DEF IdleInv
    <3>2. CASE fileExists
      <4>1. /\ UNCHANGED <<dataHeld, dataLeaving>>
            /\ ackHeld' \in Seq({Request}) /\ ackLeaving' \in Seq({Request})
        BY <2>4, <2>6, <3>1, <3>2 DEF DownloadAwaited
      <4>2. DownloadAwaited'
        BY <1>2, <3>1, <3>2, <4>1 DEF DownloadAwaited
      <4>. QED
        BY <1>3, <2>5, <2>8, <4>2 DEF IdleInv
    <3>3. CASE ~fileExists
      <4>1. dataHeld' \in Seq({NSF}) /\ dataLeaving' \in Seq({NSF})
        BY <2>4, <2>6, <3>1, <3>3 DEF DownloadAwaited
      <4>2. DownloadAwaited'
        BY <1>2, <3>3, <4>1 DEF DownloadAwaited
      <4>. QED
        BY <1>3, <2>5, <2>8, <4>2 DEF IdleInv
    <3>. QED
      BY <3>2, <3>3
  <2>. QED
    BY <2>7, <2>8
<1>5. Live => LiveInv'
  BY <1>1, <1>2, BackgroundLive DEF TransfersInv
<1>. QED
  BY <1>3, <1>4, <1>5 DEF TransfersInv

(* The client repeats its POST.                                            *)
LEMMA RepeatPostInv ==
  ASSUME TransfersInv, OperationPrompt, TransfersTypeOK', RepeatPost
  PROVE  TransfersInv'
<1>1. TransfersTypeOK /\ PhaseInv
  BY DEF TransfersInv
<1>2. /\ Uploading /\ phase = "requesting" /\ Transmit(Request)
      /\ UNCHANGED <<senderVars, receiverVars, ackNetwork>>
      /\ UNCHANGED <<operation, fileExists, phase, serverState>>
  BY DEF RepeatPost, RequestStep, OperationPrompt, Uploading
<1>3. Idle /\ IdleInv /\ UploadAwaited
  BY <1>2 DEF Idle, TransfersInv, IdleInv
<1>4. PhaseInv' /\ Uploading' /\ Idle' /\ ~Live'
  BY <1>1, <1>2, <1>3, SamePhases DEF senderVars, Live
<1>5. SenderCreated' /\ ReceiverInit'
  BY <1>2, <1>3, SameIdle
<1>6. dataHeld' \in Seq({Request}) /\ dataLeaving' \in Seq({Request})
  <2>1. Sends(Request, dataHeld, dataLeaving, dataHeld', dataLeaving')
    BY <1>2, TransmitSends
  <2>2. Len(dataHeld) <= 1
    BY <1>1 DEF TransfersTypeOK
  <2>. QED
    BY <1>3, <2>1, <2>2, SendElements DEF UploadAwaited
<1>7. UploadAwaited'
  BY <1>2, <1>3, <1>6 DEF UploadAwaited, RequestNumber, ackNetwork
<1>. QED
  BY <1>4, <1>5, <1>7 DEF TransfersInv, IdleInv

(* The receiver before its payload.                                        *)
LEMMA IdleReceiver ==
  ASSUME ReceiverInit
  PROVE  ~isPayloadComplete /\ ReceiverInv /\ HeldPackets = {}
  BY InitReceiverInv DEF ReceiverInit

(* The server of an upload answers a POST before the client has an answer. *)
LEMMA FirstPostInv ==
  ASSUME TransfersInv, TransfersTypeOK', ServerReceives, Head(dataLeaving) = Request, Idle
  PROVE  TransfersInv'
<1>1. TransfersTypeOK /\ PhaseInv
  BY DEF TransfersInv
<1>2. /\ Uploading /\ Uploading' /\ dataLeaving # <<>> /\ dataLeaving' = Tail(dataLeaving)
      /\ UNCHANGED <<senderVars, dataHeld, fileExists, phase>>
      /\ AnswerPost /\ Acknowledge(RequestNumber)
  BY DEF ServerReceives, ReceivePost, Uploading, ReceiveUploaded
<1>3. UploadPhases /\ IdleInv /\ UploadAwaited
  BY <1>1, <1>2 DEF PhaseInv, TransfersInv, IdleInv
<1>4. /\ serverState' = "RECEIVING"
      /\ StartNewPayload \/ UNCHANGED receiverVars
  BY <1>2 DEF AnswerPost, GetFile
<1>5. Idle' /\ ~Live'
  BY <1>2 DEF Idle, Live
<1>6. UploadPhases'
  BY <1>2, <1>3, <1>4, <1>5 DEF UploadPhases, senderVars
<1>7. SenderCreated' /\ ReceiverInit'
  BY <1>2, <1>3, <1>4
     DEF IdleInv, SenderCreated, senderVars, StartNewPayload, ReceiverInit, receiverVars
<1>8. UploadAwaited'
  <2>1. dataHeld' \in Seq({Request}) /\ dataLeaving' \in Seq({Request})
    BY <1>2, <1>3, TailType DEF UploadAwaited
  <2>2. Len(ackHeld) <= 1 /\ ackHeld \in Seq({RequestNumber}) /\ ackLeaving \in Seq({RequestNumber})
    BY <1>1, <1>3 DEF TransfersTypeOK, UploadAwaited
  <2>3. ackHeld' \in Seq({RequestNumber}) /\ ackLeaving' \in Seq({RequestNumber})
    BY <1>2, <2>2, AcknowledgeSends, SendElements
  <2>. QED
    BY <1>4, <2>1, <2>3 DEF UploadAwaited, RequestNumber
<1>. QED
  BY <1>2, <1>5, <1>6, <1>7, <1>8 DEF TransfersInv, PhaseInv, IdleInv

(* It answers one that arrives later: nothing else happens.                *)
LEMMA LaterPostInv ==
  ASSUME RangeSuffices, TransfersInv, TransfersTypeOK', ServerReceives,
         Head(dataLeaving) = Request, ~Idle
  PROVE  TransfersInv'
<1>1. TransfersTypeOK /\ PhaseInv
  BY DEF TransfersInv
<1>2. /\ Uploading /\ dataLeaving # <<>> /\ dataLeaving' = Tail(dataLeaving)
      /\ UNCHANGED <<senderVars, dataHeld, operation, fileExists, phase>>
      /\ AnswerPost /\ Acknowledge(RequestNumber)
  BY DEF ServerReceives, ReceivePost, Uploading, ReceiveUploaded
<1>3. UploadPhases
  BY <1>1, <1>2 DEF PhaseInv
<1>4. Live /\ LiveInv
  BY <1>3 DEF TransfersInv, Live, UploadPhases
<1>5. ~isPayloadComplete
  BY <1>1, <1>2, <1>4, NoLateRequest
<1>6. UNCHANGED <<receiverVars, serverState>>
  BY <1>2, <1>3, <1>5 DEF AnswerPost, GetFile, UploadPhases
<1>7. LiveInv'
  BY <1>1, <1>2, <1>4, <1>6, AnswerLive
<1>8. UNCHANGED <<operation, fileExists, phase, serverState, receiverVars, isPayloadSent>>
  BY <1>2, <1>6 DEF senderVars
<1>9. PhaseInv' /\ (Idle <=> Idle')
  BY <1>1, <1>8, SamePhases
<1>. QED
  BY <1>7, <1>9 DEF TransfersInv

(* The server of an upload gets a packet.                                  *)
LEMMA ReceiveUploadedInv ==
  ASSUME RangeSuffices, TransfersInv, TransfersTypeOK', ServerReceives,
         Head(dataLeaving) # Request
  PROVE  TransfersInv'
<1>1. TransfersTypeOK /\ PhaseInv
  BY DEF TransfersInv
<1>2. PICK p : p = Head(dataLeaving)
  OBVIOUS
<1>3. /\ Uploading /\ Uploading' /\ dataLeaving # <<>> /\ dataLeaving' = Tail(dataLeaving)
      /\ UNCHANGED <<senderVars, dataHeld, operation, fileExists, phase>> /\ p # Request
      /\ \/ serverState = "RECEIVING" /\ (ReceiveData(p) \/ ReceiveEof(p))
         \/ serverState = "WAITING_FOR_REQUEST" /\ ReAcknowledge(p)
      /\ serverState' = IF isPayloadComplete' THEN "WAITING_FOR_REQUEST" ELSE serverState
  BY <1>2 DEF ServerReceives, Uploading, ReceivePost, ReceiveUploaded
<1>4. UploadPhases
  BY <1>1, <1>3 DEF PhaseInv
<1>5. p \in Packets
  <2>1. dataLeaving \in Seq(DataMessages) /\ DataMessages = Packets \union {Request}
    BY <1>1, <1>3 DEF TransfersTypeOK, DataMessages
  <2>2. p \in DataMessages
    BY <1>2, <1>3, <2>1, TailType
  <2>. QED
    BY <1>3, <2>1, <2>2
<1>6. ~Idle
  <2>1. SUFFICES ASSUME Idle PROVE FALSE
    OBVIOUS
  <2>2. dataLeaving \in Seq({Request})
    BY <1>3, <2>1 DEF TransfersInv, IdleInv, UploadAwaited
  <2>. QED
    BY <1>2, <1>3, <2>2, TailType
<1>7. Live /\ LiveInv
  BY <1>4, <1>6 DEF TransfersInv, Live, UploadPhases
<1>8. Takes(p)
  BY <1>1, <1>2, <1>3, <1>5, <1>7, MessageLive
<1>9. LiveInv'
  BY <1>1, <1>2, <1>3, <1>5, <1>7, <1>8, TakesLive
<1>10. ~Idle' /\ UploadPhases'
  <2>1. ~Idle'
    BY <1>3, <1>6 DEF Idle
  <2>2. serverState' = "WAITING_FOR_REQUEST" <=> isPayloadComplete'
    BY <1>3, <1>4, <1>6, <1>8 DEF UploadPhases, Takes
  <2>. QED
    BY <1>3, <1>4, <2>1, <2>2 DEF UploadPhases, senderVars
<1>. QED
  BY <1>3, <1>9, <1>10 DEF TransfersInv, PhaseInv

(* What initializePayload, send and startNewPayload establish as steps.    *)
LEMMA StartInv ==
  /\ SenderInit' => SenderInv' /\ (AckedPackets = {})' /\ ~isPayloadSent'
  /\ ReceiverInit' => ReceiverInv' /\ (HeldPackets = {})'
<1>1. SenderInit' => SenderInv' /\ (AckedPackets = {})' /\ ~isPayloadSent'
  BY InitSenderInv, PTL
<1>2. ReceiverInit' => ReceiverInv' /\ (HeldPackets = {})'
  BY InitReceiverInv, PTL
<1>. QED
  BY <1>1, <1>2

(* A transfer begins with requests, and answers to them, on the network.   *)
LEMMA StartLive ==
  ASSUME RangeSuffices, TransfersTypeOK', operation' = operation, StartPayload, ReceiverInit,
         UNCHANGED receiverVars,
         dataHeld' \in Seq({Request}), dataLeaving' \in Seq({Request}),
         ackHeld' \in Seq({Number(Extra)}), ackLeaving' \in Seq({Number(Extra)})
  PROVE  LiveInv' /\ ~isPayloadSent' /\ ~isPayloadComplete'
<1>1. SenderInit' /\ ReceiverInit'
  BY DEF StartPayload, SenderInit, ReceiverInit, receiverVars
<1>4. /\ SenderInv' /\ ReceiverInv' /\ ~isPayloadSent' /\ ~isPayloadComplete'
      /\ AckedPackets' = {} /\ HeldPackets' = {}
  BY <1>1, StartInv DEF ReceiverInit
<1>5. Custody'
  BY <1>4 DEF Custody, AckedPackets, HeldPackets
<1>6. DataTravels(LaunchedPackets', dataHeld', dataLeaving', HeldPackets')
  <2>1. Ordered({}, dataHeld', dataLeaving', Never, Once)
    BY LateAhead, RequestsOrdered
  <2>2. {Request} \subseteq LaunchedPackets' \union {Request}
    OBVIOUS
  <2>3. /\ dataHeld' \in Seq(LaunchedPackets' \union {Request})
        /\ dataLeaving' \in Seq(LaunchedPackets' \union {Request})
    BY <2>2, SubsetSequence
  <2>. QED
    BY <1>4, <2>1, <2>3 DEF DataTravels
<1>7. AckTravels(HeldPackets', Extra, ackHeld', ackLeaving', AckedPackets')
  <2>1. PICK x \in {0, Request} : x = Extra
    BY SameOperation
  <2>2. ASSUME NEW s \in Seq({Number(x)})
        PROVE  \E t \in Seq({x}) : s = Numbers(t)
    <3>1. PICK n \in Nat : n = Len(s)
      BY LenProperties
    <3>2. PICK t : t = [i \in 1 .. n |-> x]
      OBVIOUS
    <3>3. t \in Seq({x}) /\ Len(t) = n /\ \A i \in 1 .. n : t[i] = x
      BY <3>1, <3>2
    <3>4. x \in Int /\ Number(x) \in Int
      BY MessageKinds, NumberType
    <3>5. t \in Seq(Int) /\ s \in Seq(Int) /\ \A i \in 1 .. n : s[i] = Number(x)
      BY <3>1, <3>3, <3>4, SubsetSequence
    <3>6. /\ Numbers(t) \in Seq(Int) /\ Len(Numbers(t)) = n
          /\ \A i \in 1 .. n : Numbers(t)[i] = Number(t[i])
      BY <3>3, <3>5, NumbersType
    <3>7. s = Numbers(t)
      BY <3>1, <3>3, <3>5, <3>6, SeqEqual
    <3>. QED
      BY <3>3, <3>7
  <2>3. PICK h \in Seq({x}), l \in Seq({x}) : ackHeld' = Numbers(h) /\ ackLeaving' = Numbers(l)
    BY <2>1, <2>2
  <2>4. Ordered({}, h, l, Once, Twice)
    BY LateAhead, RequestsOrdered
  <2>5. {x} = {} \union {x}
    OBVIOUS
  <2>6. AckTravels({}, x, ackHeld', ackLeaving', {})
    BY <2>3, <2>4, <2>5 DEF AckTravels
  <2>. QED
    BY <1>4, <2>1, <2>6
<1>. QED
  BY <1>4, <1>5, <1>6, <1>7, LiveParts

(* The client of an upload hears of its POST or of a packet.               *)
LEMMA UploaderReceivesInv ==
  ASSUME RangeSuffices, payloadSize > 0, ZeroHeld', TransfersInv, TransfersTypeOK',
         UploaderReceives
  PROVE  TransfersInv'
<1>1. TransfersTypeOK /\ PhaseInv
  BY DEF TransfersInv
<1>2. /\ Uploading /\ Uploading' /\ ackLeaving # <<>> /\ ackLeaving' = Tail(ackLeaving)
      /\ UNCHANGED <<receiverVars, dataNetwork, ackHeld, operation, fileExists, serverState>>
      /\ PostAcknowledged \/ DispatchAck
  BY DEF UploaderReceives, Uploading
<1>3. UploadPhases
  BY <1>1, <1>2 DEF PhaseInv
<1>4. UNCHANGED <<dataHeld, dataLeaving, isPayloadComplete>>
  BY <1>2 DEF dataNetwork, receiverVars
<1>5. CASE PostAcknowledged
  <2>1. /\ phase = "requesting" /\ Idle /\ phase' = "transferring" /\ StartPayload
    BY <1>2, <1>5 DEF PostAcknowledged, Idle
  <2>2. ReceiverInit /\ UploadAwaited
    BY <1>2, <2>1 DEF TransfersInv, IdleInv
  <2>3. serverState = "RECEIVING"
    BY <1>2, <1>3, <2>2 DEF UploadAwaited, UploadPhases
  <2>4. /\ dataHeld' \in Seq({Request}) /\ dataLeaving' \in Seq({Request})
        /\ ackHeld' \in Seq({Number(Extra)}) /\ ackLeaving' \in Seq({Number(Extra)})
    <3>1. Number(Extra) = RequestNumber
      BY <1>2, SameOperation, MessageKinds, PacketCount DEF Number, Packets
    <3>. QED
      BY <1>2, <1>4, <2>2, <3>1, TailType DEF UploadAwaited
  <2>5. LiveInv' /\ ~isPayloadSent' /\ ~isPayloadComplete'
    BY <1>2, <2>1, <2>2, <2>4, StartLive
  <2>6. ~Idle' /\ UploadPhases'
    <3>1. ~Idle'
      BY <1>2, <2>1 DEF Idle
    <3>. QED
      BY <1>2, <1>3, <2>1, <2>3, <2>5, <3>1 DEF UploadPhases
  <2>. QED
    BY <1>2, <2>5, <2>6 DEF TransfersInv, PhaseInv
<1>6. CASE DispatchAck
  <2>1. /\ phase = "transferring" /\ ~Idle /\ ProcessAck(Head(ackLeaving))
        /\ phase' = IF isPayloadSent' THEN "returned" ELSE phase
    BY <1>2, <1>6 DEF DispatchAck, Idle
  <2>2. Live /\ LiveInv
    BY <1>3, <2>1 DEF TransfersInv, Live, UploadPhases
  <2>3. Head(ackLeaving) # Request
    <3>1. ackLeaving \in Seq(AckMessages) /\ AckMessages = Slots
      BY <1>1, <1>2 DEF TransfersTypeOK, AckMessages
    <3>. QED
      BY <1>2, <3>1, TailType, MessageKinds
  <2>4. LiveInv'
    BY <1>1, <1>2, <2>1, <2>2, <2>3, ProcessAckLive
  <2>5. ~Idle' /\ UploadPhases'
    <3>1. ~Idle'
      BY <1>2, <2>1 DEF Idle
    <3>. QED
      BY <1>2, <1>3, <1>4, <2>1, <3>1 DEF UploadPhases
  <2>. QED
    BY <1>2, <2>4, <2>5 DEF TransfersInv, PhaseInv
<1>. QED
  BY <1>2, <1>5, <1>6

(* The client of a download repeats its request.                           *)
LEMMA RepeatGetInv ==
  ASSUME RangeSuffices, TransfersInv, OperationPrompt, TransfersTypeOK', RepeatGet
  PROVE  TransfersInv'
<1>1. TransfersTypeOK /\ PhaseInv
  BY DEF TransfersInv
<1>2. /\ ~Uploading /\ phase = "requesting" /\ Acknowledge(Request)
      /\ UNCHANGED <<senderVars, receiverVars, dataNetwork>>
      /\ UNCHANGED <<operation, fileExists, phase, serverState>>
  BY <1>1, TwoKinds DEF RepeatGet, RequestStep, OperationPrompt
<1>3. DownloadPhases
  BY <1>1, <1>2 DEF PhaseInv
<1>4. PhaseInv' /\ ~Uploading' /\ (Idle <=> Idle') /\ (Live <=> Live')
  BY <1>1, <1>2, SamePhases DEF senderVars
<1>5. ASSUME Idle PROVE IdleInv'
  <2>1. IdleInv /\ DownloadAwaited
    BY <1>2, <1>5 DEF TransfersInv, IdleInv
  <2>2. SenderCreated' /\ ReceiverInit'
    BY <1>2, <2>1, SameIdle
  <2>3. UNCHANGED <<fileExists, phase, dataHeld, dataLeaving>>
    BY <1>2 DEF dataNetwork
  <2>4. ASSUME fileExists
        PROVE  ackHeld' \in Seq({Request}) /\ ackLeaving' \in Seq({Request})
    <3>1. Sends(Request, ackHeld, ackLeaving, ackHeld', ackLeaving')
      BY <1>2, AcknowledgeSends
    <3>2. Len(ackHeld) <= 1
      BY <1>1 DEF TransfersTypeOK
    <3>. QED
      BY <2>1, <2>4, <3>1, <3>2, SendElements DEF DownloadAwaited
  <2>5. DownloadAwaited'
    BY <2>1, <2>3, <2>4 DEF DownloadAwaited
  <2>. QED
    BY <1>4, <2>2, <2>5 DEF IdleInv
<1>6. ASSUME Live PROVE LiveInv'
  <2>1. LiveInv
    BY <1>6 DEF TransfersInv
  <2>2. ~Holds(0) /\ ~Holds(Eof)
    BY <1>2, <1>3 DEF DownloadPhases, Holds
  <2>. QED
    BY <1>1, <1>2, <2>1, <2>2, RequestLive
<1>. QED
  BY <1>4, <1>5, <1>6 DEF TransfersInv

(* The server of a download gets a message while it waits for a request.   *)
LEMMA RequestedInv ==
  ASSUME RangeSuffices, TransfersInv, TransfersTypeOK', SendingServerReceives, Idle
  PROVE  TransfersInv'
<1>1. TransfersTypeOK /\ PhaseInv /\ IdleInv
  BY DEF TransfersInv
<1>2. /\ ~Uploading /\ ~Uploading' /\ ackLeaving # <<>> /\ ackLeaving' = Tail(ackLeaving)
      /\ UNCHANGED <<receiverVars, ackHeld, operation, fileExists, phase>>
      /\ AnswerGet \/ DispatchToSender \/ Ignore
  BY <1>1, TwoKinds DEF SendingServerReceives, Uploading
<1>3. DownloadPhases /\ DownloadAwaited
  BY <1>1, <1>2 DEF PhaseInv, IdleInv
<1>4. serverState = "WAITING_FOR_REQUEST" /\ ~isPayloadSent
  BY <1>2 DEF Idle
<1>5. isPayloadComplete' = isPayloadComplete /\ (Holds(0)' <=> Holds(0))
  BY <1>2, SameReceiver DEF receiverVars
<1>6. CASE fileExists
  <2>1. ackHeld \in Seq({Request}) /\ ackLeaving \in Seq({Request})
        /\ dataHeld = <<>> /\ dataLeaving = <<>> /\ phase = "requesting"
    BY <1>3, <1>6 DEF DownloadAwaited
  <2>2. Head(ackLeaving) = Request /\ ackLeaving' \in Seq({Request})
    BY <1>2, <2>1, TailType
  <2>3. StartPayload /\ serverState' = "SENDING" /\ UNCHANGED dataNetwork
    BY <1>2, <1>4, <1>6, <2>2
       DEF AnswerGet, SendFile, NoSuchFile, DispatchToSender, Ignore
  <2>4. LiveInv' /\ ~isPayloadSent' /\ ~isPayloadComplete'
    <3>1. dataHeld' = <<>> /\ dataLeaving' = <<>> /\ <<>> \in Seq({Request})
      BY <2>1, <2>3 DEF dataNetwork
    <3>2. ReceiverInit
      BY <1>1 DEF IdleInv
    <3>3. Number(Extra) = Request
      BY <1>2, SameOperation, MessageKinds DEF Number
    <3>. QED
      BY <1>2, <2>1, <2>2, <2>3, <3>1, <3>2, <3>3, StartLive
  <2>5. ~Idle' /\ DownloadPhases'
    <3>1. ~Idle'
      BY <1>2, <2>3 DEF Idle
    <3>. QED
      BY <1>2, <1>3, <1>5, <1>6, <2>1, <2>3, <2>4, <3>1 DEF DownloadPhases
  <2>. QED
    BY <1>2, <2>4, <2>5 DEF TransfersInv, PhaseInv
<1>7. CASE ~fileExists
  <2>1. /\ UNCHANGED <<senderVars, serverState>>
        /\ Transmit(NSF) \/ UNCHANGED dataNetwork
    BY <1>2, <1>4, <1>7 DEF AnswerGet, SendFile, NoSuchFile, DispatchToSender, Ignore
  <2>2. dataHeld \in Seq({NSF}) /\ dataLeaving \in Seq({NSF}) /\ Len(dataHeld) <= 1
    BY <1>1, <1>3, <1>7 DEF DownloadAwaited, TransfersTypeOK
  <2>3. dataHeld' \in Seq({NSF}) /\ dataLeaving' \in Seq({NSF})
    <3>1. CASE Transmit(NSF)
      BY <2>2, <3>1, TransmitSends, SendElements
    <3>2. CASE UNCHANGED dataNetwork
      BY <2>2, <3>2 DEF dataNetwork
    <3>. QED
      BY <2>1, <3>1, <3>2
  <2>4. DownloadAwaited'
    BY <1>2, <1>7, <2>3 DEF DownloadAwaited
  <2>5. SenderCreated' /\ ReceiverInit'
    BY <1>1, <1>2, <2>1, SameIdle
  <2>6. UNCHANGED <<operation, fileExists, phase, serverState, receiverVars, isPayloadSent>>
    BY <1>2, <2>1 DEF senderVars
  <2>7. PhaseInv' /\ Idle' /\ ~Live'
    BY <1>1, <2>6, SamePhases DEF Live
  <2>. QED
    BY <1>2, <2>4, <2>5, <2>7 DEF TransfersInv, IdleInv
<1>. QED
  BY <1>6, <1>7

(* It gets one while it serves the request, or afterwards.                 *)
LEMMA SendingServerInv ==
  ASSUME RangeSuffices, TransfersInv, TransfersTypeOK', SendingServerReceives, ~Idle
  PROVE  TransfersInv'
<1>1. TransfersTypeOK /\ PhaseInv
  BY DEF TransfersInv
<1>2. /\ ~Uploading /\ ~Uploading' /\ ackLeaving # <<>> /\ ackLeaving' = Tail(ackLeaving)
      /\ UNCHANGED <<receiverVars, ackHeld, operation, fileExists, phase>>
      /\ AnswerGet \/ DispatchToSender \/ Ignore
  BY <1>1, TwoKinds DEF SendingServerReceives, Uploading
<1>3. DownloadPhases
  BY <1>1, <1>2 DEF PhaseInv
<1>4. isPayloadComplete' = isPayloadComplete /\ (Holds(0)' <=> Holds(0))
  BY <1>2, SameReceiver DEF receiverVars
<1>5. ~AnswerGet
  <2>1. SUFFICES ASSUME AnswerGet PROVE FALSE
    OBVIOUS
  <2>2. Head(ackLeaving) = Request /\ serverState = "WAITING_FOR_REQUEST"
    BY <2>1 DEF AnswerGet, SendFile, NoSuchFile
  <2>3. LiveInv /\ isPayloadSent
    BY <1>2, <2>2 DEF TransfersInv, Live, Idle
  <2>. QED
    BY <1>1, <1>2, <2>2, <2>3, NoLateRequest
<1>6. CASE DispatchToSender
  <2>1. /\ serverState = "SENDING" /\ Head(ackLeaving) # Request
        /\ ProcessAck(Head(ackLeaving)) /\ UNCHANGED dataNetwork
        /\ serverState' = IF isPayloadSent' THEN "WAITING_FOR_REQUEST" ELSE serverState
    BY <1>6 DEF DispatchToSender
  <2>2. LiveInv /\ Live
    BY <2>1 DEF TransfersInv, Live
  <2>3. LiveInv'
    BY <1>1, <1>2, <2>1, <2>2, ProcessAckLive
  <2>4. ~Idle' /\ DownloadPhases'
    <3>1. ~Idle'
      BY <1>2, <2>1 DEF Idle
    <3>. QED
      BY <1>2, <1>3, <1>4, <2>1, <2>2, <3>1 DEF DownloadPhases
  <2>. QED
    BY <1>2, <2>3, <2>4 DEF TransfersInv, PhaseInv
<1>7. CASE Ignore
  <2>1. UNCHANGED <<senderVars, dataNetwork, serverState>>
    BY <1>7 DEF Ignore
  <2>2. UNCHANGED <<operation, fileExists, phase, serverState, receiverVars, isPayloadSent>>
    BY <1>2, <2>1 DEF senderVars
  <2>3. PhaseInv' /\ ~Idle' /\ (Live <=> Live')
    BY <1>1, <2>2, SamePhases
  <2>4. Live => LiveInv'
    BY <1>1, <1>2, <2>1, IgnoreLive DEF TransfersInv
  <2>. QED
    BY <2>3, <2>4 DEF TransfersInv
<1>. QED
  BY <1>2, <1>5, <1>6, <1>7

(* The server thread is told to end.                                       *)
LEMMA RetireInv ==
  ASSUME TransfersInv, TransfersTypeOK', Retire
  PROVE  TransfersInv'
<1>1. TransfersTypeOK /\ PhaseInv
  BY DEF TransfersInv
<1>2. /\ ~Uploading /\ ~Uploading' /\ phase \in {"returned", "refused"}
      /\ isPayloadSent' /\ serverState' = "retired"
      /\ UNCHANGED <<receiverVars, fileExists, phase>>
  BY <1>1, TwoKinds DEF Retire, Uploading, TerminateCurrentTransmission
<1>3. ~Idle' /\ ~Live'
  BY <1>2 DEF Idle, Live
<1>4. isPayloadComplete' = isPayloadComplete /\ (Holds(0)' <=> Holds(0))
  BY <1>2, SameReceiver DEF receiverVars
<1>5. DownloadPhases'
  BY <1>1, <1>2, <1>3, <1>4 DEF PhaseInv, DownloadPhases
<1>. QED
  BY <1>2, <1>3, <1>5 DEF TransfersInv, PhaseInv

(* The client of a download gets a message before the server has a         *)
(* payload: it is refused.                                                 *)
LEMMA RefusedInv ==
  ASSUME TransfersInv, TransfersTypeOK', DownloaderReceives, Idle
  PROVE  TransfersInv'
<1>1. TransfersTypeOK /\ PhaseInv /\ IdleInv
  BY DEF TransfersInv
<1>2. /\ ~Uploading /\ ~Uploading' /\ dataLeaving # <<>> /\ dataLeaving' = Tail(dataLeaving)
      /\ UNCHANGED <<senderVars, dataHeld, operation, fileExists, serverState>>
      /\ \/ ReceiveDownloaded(Head(dataLeaving)) \/ ReceiveNsf
         \/ Finish(Head(dataLeaving)) \/ Drain
  BY <1>1, TwoKinds DEF DownloaderReceives, Uploading
<1>3. DownloadPhases /\ DownloadAwaited /\ ~isPayloadComplete
  BY <1>1, <1>2, IdleReceiver DEF PhaseInv, IdleInv
<1>4. ~fileExists /\ dataHeld \in Seq({NSF}) /\ dataLeaving \in Seq({NSF})
  BY <1>2, <1>3 DEF DownloadAwaited
<1>5. Head(dataLeaving) = NSF /\ dataLeaving' \in Seq({NSF})
  BY <1>2, <1>4, TailType
<1>6. UNCHANGED receiverVars /\ phase' \in {phase, "refused"}
  BY <1>2, <1>5, <1>3 DEF ReceiveDownloaded, ReceiveNsf, Finish, Drain, DownloadPhases
<1>7. Idle' /\ ~Live'
  BY <1>2 DEF Idle, Live, senderVars
<1>8. DownloadPhases'
  <2>1. isPayloadComplete' = isPayloadComplete /\ (Holds(0)' <=> Holds(0))
    BY <1>6, SameReceiver DEF receiverVars
  <2>2. isPayloadSent' = isPayloadSent
    BY <1>2 DEF senderVars
  <2>3. phase' = phase \/ phase' = "refused"
    BY <1>6
  <2>4. serverState = "WAITING_FOR_REQUEST" /\ UNCHANGED <<serverState, fileExists>>
    BY <1>2 DEF Idle
  <2>. QED
    BY <1>3, <1>4, <1>7, <2>1, <2>2, <2>3, <2>4 DEF DownloadPhases
<1>9. SenderCreated' /\ ReceiverInit' /\ DownloadAwaited'
  BY <1>1, <1>2, <1>4, <1>5, <1>6, SameIdle DEF DownloadAwaited
<1>. QED
  BY <1>2, <1>7, <1>8, <1>9 DEF TransfersInv, PhaseInv, IdleInv

(* The phase that a packet leaves the client of a download in.             *)
LEMMA DownloadedPhase ==
  ASSUME PhaseInv, ~Uploading, NEW p \in Packets, ReceiveDownloaded(p), Takes(p)
  PROVE  /\ phase' # "refused"
         /\ isPayloadComplete' <=> phase' \in {"finishing", "returned"}
         /\ phase' = "requesting" => ~Holds(0)'
<1>1. /\ phase \in {"requesting", "transferring"} /\ ~isPayloadComplete
      /\ phase = "requesting" => ~Holds(0)
  BY DEF PhaseInv, DownloadPhases, ReceiveDownloaded
<1>2. 0 \in Packets
  BY PacketCount DEF Packets
<1>3. CASE ReceiveData(p) /\ phase' = PhaseAfterData(p)
  <2>1. isPayloadComplete' = isPayloadComplete
    BY <1>3 DEF ReceiveData, HandleData, RegisterPacket, DiscardPacket, receiverVars
  <2>2. phase' \in {phase, "transferring"}
    BY <1>3 DEF PhaseAfterData
  <2>3. ASSUME phase' = "requesting" PROVE ~Holds(0)'
    <3>1. phase = "requesting" /\ p # 0
      BY <1>3, <2>3, MessageKinds DEF PhaseAfterData
    <3>2. 0 \notin HeldPackets' /\ 0 \in Packets
      BY <1>1, <1>2, <3>1 DEF Takes, HeldPackets
    <3>. QED
      BY <3>2 DEF HeldPackets
  <2>. QED
    BY <1>1, <2>1, <2>2, <2>3
<1>4. CASE ReceiveEof(p) /\ phase' = IF isPayloadComplete' THEN "finishing" ELSE phase
  <2>1. CASE AcceptEof
    <3>1. isPayloadComplete' /\ phase' = "finishing"
      BY <1>4, <2>1 DEF AcceptEof
    <3>. QED
      BY <3>1
  <2>2. CASE UNCHANGED receiverVars
    <3>1. isPayloadComplete' = isPayloadComplete /\ (Holds(0)' <=> Holds(0))
      BY <2>2, SameReceiver DEF receiverVars
    <3>2. phase' = phase
      BY <1>1, <1>4, <3>1
    <3>. QED
      BY <1>1, <3>1, <3>2
  <2>. QED
    BY <1>4, <2>1, <2>2 DEF ReceiveEof, IgnoreEof
<1>. QED
  BY <1>3, <1>4 DEF ReceiveDownloaded

(* The client of a download gets a message from a server that has, or had, *)
(* a payload.                                                              *)
LEMMA DownloadedInv ==
  ASSUME RangeSuffices, TransfersInv, TransfersTypeOK', DownloaderReceives, ~Idle
  PROVE  TransfersInv'
<1>1. TransfersTypeOK /\ PhaseInv
  BY DEF TransfersInv
<1>2. PICK m : m = Head(dataLeaving)
  OBVIOUS
<1>3. /\ ~Uploading /\ ~Uploading' /\ dataLeaving # <<>> /\ dataLeaving' = Tail(dataLeaving)
      /\ UNCHANGED <<senderVars, dataHeld, operation, fileExists, serverState>>
      /\ ReceiveDownloaded(m) \/ ReceiveNsf \/ Finish(m) \/ Drain
  BY <1>1, <1>2, TwoKinds DEF DownloaderReceives, Uploading
<1>4. DownloadPhases
  BY <1>1, <1>3 DEF PhaseInv
<1>5. ~Idle' /\ (Live <=> Live') /\ isPayloadSent' = isPayloadSent
  BY <1>3 DEF Idle, Live, senderVars
<1>6. CASE ~Live
  <2>1. phase \in {"returned", "refused"}
    BY <1>4, <1>6 DEF Live, DownloadPhases
  <2>2. UNCHANGED <<receiverVars, phase>>
    BY <1>3, <2>1 DEF ReceiveDownloaded, ReceiveNsf, Finish, Drain
  <2>3. UNCHANGED <<operation, fileExists, phase, serverState, receiverVars, isPayloadSent>>
    BY <1>3, <1>5, <2>2
  <2>4. PhaseInv'
    BY <1>1, <2>3, SamePhases
  <2>. QED
    BY <1>5, <1>6, <2>4 DEF TransfersInv
<1>7. CASE Live
  <2>1. fileExists /\ LiveInv
    BY <1>4, <1>7 DEF TransfersInv, DownloadPhases
  <2>2. /\ ReceiverInv /\ Custody
        /\ DataTravels(LaunchedPackets, dataHeld, dataLeaving, HeldPackets)
    BY <1>1, <2>1, LiveParts
  <2>3. m \in Packets
    <3>1. HeldPackets \subseteq HeldPackets \union {Head(dataLeaving)}
      OBVIOUS
    <3>2. m \in LaunchedPackets \union {Request}
      BY <1>2, <1>3, <2>2, <3>1, LiveSets, DataRest
    <3>3. m \in Packets \union {NSF}
      <4>1. dataLeaving \in Seq(DataMessages) /\ DataMessages = Packets \union {NSF}
        BY <1>1, <1>3 DEF TransfersTypeOK, DataMessages
      <4>. QED
        BY <1>2, <1>3, <4>1, TailType
    <3>. QED
      BY <3>2, <3>3, MessageKinds DEF LaunchedPackets
  <2>4. ~ReceiveNsf
    BY <1>2, <2>3, MessageKinds DEF ReceiveNsf
  <2>5. CASE ReceiveDownloaded(m)
    <3>1. ReceiveData(m) \/ ReceiveEof(m)
      BY <2>5 DEF ReceiveDownloaded
    <3>2. Takes(m)
      BY <1>1, <1>2, <1>3, <2>1, <2>3, <3>1, MessageLive
    <3>3. LiveInv'
      BY <1>1, <1>2, <1>3, <2>1, <2>3, <3>2, TakesLive
    <3>4. /\ phase' # "refused"
          /\ isPayloadComplete' <=> phase' \in {"finishing", "returned"}
          /\ phase' = "requesting" => ~Holds(0)'
      BY <1>1, <1>3, <2>3, <2>5, <3>2, DownloadedPhase
    <3>5. serverState # "retired" /\ serverState' = serverState /\ fileExists' = fileExists
      BY <1>3, <1>7 DEF Live
    <3>6. DownloadPhases'
      BY <1>4, <1>5, <2>1, <3>4, <3>5 DEF DownloadPhases
    <3>. QED
      BY <1>3, <1>5, <3>3, <3>6 DEF TransfersInv, PhaseInv
  <2>6. CASE Finish(m) \/ Drain
    <3>1. UNCHANGED <<receiverVars, phase>>
      BY <2>6 DEF Finish, Drain
    <3>2. (Acknowledge(Slot(m)) /\ Holds(m)) \/ UNCHANGED ackNetwork
      <4>1. CASE Finish(m)
        <5>1. isPayloadComplete
          BY <1>4, <4>1 DEF Finish, DownloadPhases
        <5>. QED
          BY <2>2, <2>3, <4>1, <5>1, CompleteHolds DEF Finish
      <4>. QED
        BY <2>6, <4>1 DEF Drain
    <3>3. Takes(m)
      BY <2>2, <2>3, <3>1, <3>2, SameTakes
    <3>4. LiveInv'
      BY <1>1, <1>2, <1>3, <2>1, <2>3, <3>3, TakesLive
    <3>5. UNCHANGED <<operation, fileExists, phase, serverState, receiverVars, isPayloadSent>>
      BY <1>3, <1>5, <3>1
    <3>6. PhaseInv'
      BY <1>1, <3>5, SamePhases
    <3>. QED
      BY <1>5, <3>4, <3>6 DEF TransfersInv
  <2>. QED
    BY <1>3, <2>4, <2>5, <2>6
<1>. QED
  BY <1>6, <1>7

(* The client of a download has waited long enough.                        *)
LEMMA TimeOutInv ==
  ASSUME TransfersInv, TransfersTypeOK', TimeOut
  PROVE  TransfersInv'
<1>1. TransfersTypeOK /\ PhaseInv
  BY DEF TransfersInv
<1>2. /\ phase = "finishing" /\ phase' = "returned"
      /\ UNCHANGED <<vars, operation, fileExists, serverState>>
  BY DEF TimeOut
<1>3. UNCHANGED <<senderVars, receiverVars>>
  BY <1>2 DEF vars
<1>4. ~Uploading /\ ~Uploading' /\ DownloadPhases
  BY <1>1, <1>2 DEF PhaseInv, UploadPhases, Uploading
<1>5. isPayloadComplete /\ serverState # "retired"
  BY <1>2, <1>4 DEF DownloadPhases
<1>6. ~Idle
  BY <1>5, IdleReceiver DEF TransfersInv, IdleInv
<1>7. /\ isPayloadSent' = isPayloadSent /\ isPayloadComplete' = isPayloadComplete
      /\ Holds(0)' <=> Holds(0)
  BY <1>3, SameReceiver DEF senderVars, receiverVars
<1>8. ~Idle' /\ Live /\ Live'
  BY <1>2, <1>4, <1>5, <1>6, <1>7 DEF Idle, Live
<1>9. LiveInv'
  BY <1>1, <1>2, <1>8, SameLive DEF TransfersInv
<1>10. DownloadPhases'
  BY <1>2, <1>4, <1>5, <1>7, <1>8 DEF DownloadPhases
<1>. QED
  BY <1>4, <1>8, <1>9, <1>10 DEF TransfersInv, PhaseInv

(* Nothing happens, or the SenderThread of the request tests its flag.     *)
LEMMA StutterInv ==
  ASSUME TransfersInv, TransfersTypeOK',
         UNCHANGED allVars \/ CommitRequest \/ ExitRequest
  PROVE  TransfersInv'
<1>1. TransfersTypeOK /\ PhaseInv
  BY DEF TransfersInv
<1>2. /\ UNCHANGED <<vars, operation, fileExists, phase, serverState>>
      /\ UNCHANGED <<senderVars, receiverVars, isPayloadSent>>
      /\ UNCHANGED <<dataHeld, dataLeaving, ackHeld, ackLeaving>>
  BY DEF allVars, vars, opVars, CommitRequest, ExitRequest, RequestStep, senderVars,
         dataNetwork, ackNetwork
<1>3. PhaseInv' /\ (Uploading <=> Uploading') /\ (Idle <=> Idle') /\ (Live <=> Live')
  BY <1>1, <1>2, SamePhases
<1>4. ASSUME Idle PROVE IdleInv'
  <2>1. SenderCreated' /\ ReceiverInit'
    BY <1>2, <1>4, SameIdle DEF TransfersInv
  <2>2. (UploadAwaited => UploadAwaited') /\ (DownloadAwaited => DownloadAwaited')
    BY <1>2 DEF UploadAwaited, DownloadAwaited, RequestNumber
  <2>. QED
    BY <1>3, <1>4, <2>1, <2>2 DEF TransfersInv, IdleInv
<1>5. Live => LiveInv'
  BY <1>1, <1>2, SameLive DEF TransfersInv
<1>. QED
  BY <1>3, <1>4, <1>5 DEF TransfersInv

(* An operation begins with nothing on its network.                        *)
LEMMA TransfersInitInv == OperationsInit => TransfersInv
<1>. SUFFICES ASSUME OperationsInit PROVE TransfersInv
  OBVIOUS
<1>1. TransfersTypeOK
  BY TransfersInitType
<1>2. /\ OperationInit /\ SenderCreated /\ ReceiverInit
      /\ phase = "requesting" /\ serverState = "WAITING_FOR_REQUEST"
      /\ dataHeld = <<>> /\ dataLeaving = <<>> /\ ackHeld = <<>> /\ ackLeaving = <<>>
      /\ Uploading => fileExists
  BY DEF OperationsInit, UploadInit, DownloadInit, OperationInit, Data!Init, Acks!Init,
         Uploading
<1>3. ~isPayloadSent /\ ~isPayloadComplete /\ ~Holds(0)
  <2>1. 0 \in Packets /\ 0 \notin HeldPackets
    BY <1>2, IdleReceiver, PacketCount DEF Packets
  <2>. QED
    BY <1>2, <2>1, IdleReceiver DEF SenderCreated, HeldPackets
<1>4. Idle /\ ~Live
  BY <1>2, <1>3 DEF Idle, Live
<1>5. PhaseInv
  BY <1>2, <1>3, <1>4 DEF PhaseInv, UploadPhases, DownloadPhases
<1>6. IdleInv
  <2>1. Len(<<>>) = 0 /\ <<>> \in Seq({Request}) /\ <<>> \in Seq({NSF})
    OBVIOUS
  <2>. QED
    BY <1>2, <2>1 DEF IdleInv, UploadAwaited, DownloadAwaited
<1>. QED
  BY <1>1, <1>4, <1>5, <1>6 DEF TransfersInv

(* Every step keeps the invariant, unless it takes the ACK of a POST for   *)
(* that of a packet 0 that has not arrived.                                *)
LEMMA TransfersNextInv ==
  ASSUME RangeSuffices, TransfersInv, OperationPrompt,
         Downloading \/ (payloadSize > 0 /\ ZeroHeld'), [OperationsNext]_allVars
  PROVE  TransfersInv'
<1>1. TransfersTypeOK'
  BY TransfersNextType DEF TransfersInv
<1>2. CASE Background
  BY <1>1, <1>2, BackgroundInv DEF OperationPrompt
<1>3. CASE UploadNext
  <2>1. CASE RepeatPost
    BY <1>1, <2>1, RepeatPostInv
  <2>2. CASE ServerReceives
    BY <1>1, <2>2, FirstPostInv, LaterPostInv, ReceiveUploadedInv
  <2>3. CASE UploaderReceives
    <3>1. ~Downloading
      BY <2>3 DEF UploaderReceives, Downloading
    <3>. QED
      BY <1>1, <2>3, <3>1, UploaderReceivesInv
  <2>. QED
    BY <1>3, <2>1, <2>2, <2>3 DEF UploadNext
<1>4. CASE DownloadNext
  <2>1. CASE RepeatGet
    BY <1>1, <2>1, RepeatGetInv
  <2>2. CASE SendingServerReceives
    BY <1>1, <2>2, RequestedInv, SendingServerInv
  <2>3. CASE Retire
    BY <1>1, <2>3, RetireInv
  <2>4. CASE DownloaderReceives
    BY <1>1, <2>4, RefusedInv, DownloadedInv
  <2>5. CASE TimeOut
    BY <1>1, <2>5, TimeOutInv
  <2>. QED
    BY <1>4, <2>1, <2>2, <2>3, <2>4, <2>5 DEF DownloadNext
<1>5. CASE UNCHANGED allVars \/ CommitRequest \/ ExitRequest
  BY <1>1, <1>5, StutterInv
<1>. QED
  BY <1>2, <1>3, <1>4, <1>5 DEF OperationsNext

(* The timing that OperationPrompt asks for can be had: PromptTransfers is *)
(* the part of TransfersSpec in which it always holds.                     *)
THEOREM PromptOperations == PromptTransfers => TransfersSpec /\ []OperationPrompt
<1>1. OperationsInit => OperationPrompt
  BY DEF OperationsInit, UploadInit, DownloadInit, OperationInit, SenderCreated,
         OperationPrompt, Prompt
<1>2. OperationPrompt /\ [OperationsNext /\ OperationPrompt']_allVars => OperationPrompt'
  BY DEF OperationPrompt, Prompt, allVars, vars, opVars, senderVars
<1>3. [OperationsNext /\ OperationPrompt']_allVars => [OperationsNext]_allVars
  OBVIOUS
<1>. QED
  BY <1>1, <1>2, <1>3, PTL DEF PromptTransfers, TransfersSpec

(* The transfer is right from its request on.  If the sequence range is    *)
(* long enough for the window and the delays of the router, and no thread  *)
(* sends too late, then with whatever repeated requests on the network:    *)
(* the first packet is registered as the first packet, the receiver takes, *)
(* delivers and acknowledges only what was launched, the Sender slides     *)
(* over what has arrived alone, and a server thread that waits again for a *)
(* request finds no old one.  The exception is ZeroHeld: the client of an  *)
(* upload takes the second ACK of its POST for that of packet 0, which is  *)
(* harmless only when packet 0 has arrived.  Without a packet 0 it takes   *)
(* the ACK for that of the EOF, so the file must have a byte.              *)
THEOREM TransfersInductive ==
  ASSUME RangeSuffices, payloadSize > 0
  PROVE  TransfersSpec /\ []OperationPrompt /\ []ZeroHeld => []TransfersInv
<1>1. TransfersInv /\ OperationPrompt /\ ZeroHeld' /\ [OperationsNext]_allVars => TransfersInv'
  BY TransfersNextInv
<1>. QED
  BY <1>1, TransfersInitInv, PTL DEF TransfersSpec

(* No step changes the operation.                                          *)
LEMMA DownloadsOnly ==
  /\ DownloadInit => OperationsInit /\ Downloading
  /\ Downloading /\ [OperationsNext]_allVars => Downloading'
<1>1. DownloadInit => OperationsInit /\ Downloading
  BY DEF DownloadInit, OperationsInit, Downloading
<1>2. ASSUME [OperationsNext]_allVars PROVE operation' = operation
  <2>1. Background => operation' = operation
    BY DEF Background, opVars
  <2>2. UploadNext => operation' = operation
    BY DEF UploadNext, RepeatPost, RequestStep, ServerReceives, UploaderReceives
  <2>3. DownloadNext => operation' = operation
    BY DEF DownloadNext, RepeatGet, RequestStep, SendingServerReceives, Retire,
           DownloaderReceives, TimeOut
  <2>4. UNCHANGED allVars \/ CommitRequest \/ ExitRequest => operation' = operation
    BY DEF allVars, opVars, CommitRequest, ExitRequest, RequestStep
  <2>. QED
    BY <1>2, <2>1, <2>2, <2>3, <2>4 DEF OperationsNext
<1>. QED
  BY <1>1, <1>2 DEF Downloading

(* Downloads and listings need no hypothesis about packet 0: a client that *)
(* asks again gets no ACK for it.                                          *)
THEOREM DownloadInductive ==
  ASSUME RangeSuffices
  PROVE  DownloadInit /\ [][OperationsNext]_allVars /\ []OperationPrompt => []TransfersInv
<1>1. DownloadInit => TransfersInv /\ Downloading
  BY DownloadsOnly, TransfersInitInv
<1>2. TransfersInv /\ Downloading /\ OperationPrompt /\ [OperationsNext]_allVars
        => (TransfersInv /\ Downloading)'
  BY DownloadsOnly, TransfersNextInv
<1>. QED
  BY <1>1, <1>2, PTL

-----------------------------------------------------------------------------
(* Refinement of the abstract transfer.                                    *)

(* What the two ends have when they say they are done.                     *)
LEMMA DoneMeans ==
  /\ TransfersInv /\ isPayloadComplete /\ serverState # "retired" => completedSet = Payload
  /\ TransfersInv /\ isPayloadSent /\ serverState # "retired" => isPayloadComplete
<1>1. ASSUME TransfersInv, isPayloadComplete, serverState # "retired"
      PROVE  completedSet = Payload
  <2>1. ~Idle
    BY <1>1, IdleReceiver DEF TransfersInv, IdleInv
  <2>2. ReceiverInv
    BY <1>1, <2>1 DEF TransfersInv, Live, LiveInv
  <2>. QED
    BY <1>1, <2>2 DEF ReceiverInv, Payload
<1>2. ASSUME TransfersInv, isPayloadSent, serverState # "retired"
      PROVE  isPayloadComplete
  <2>1. ~Idle
    BY <1>2 DEF TransfersInv, PhaseInv, UploadPhases, Idle
  <2>. QED
    BY <1>2, <2>1 DEF TransfersInv, Live, LiveInv, Custody
<1>. QED
  BY <1>1, <1>2

(* The same after a step.                                                  *)
LEMMA DoneMeansNext ==
  /\ TransfersInv' /\ isPayloadComplete' /\ serverState' # "retired"
       => completedSet' = Payload
  /\ TransfersInv' /\ isPayloadSent' /\ serverState' # "retired" => isPayloadComplete'
<1>1. /\ (TransfersInv /\ isPayloadComplete /\ serverState # "retired"
            => completedSet = Payload)'
      /\ (TransfersInv /\ isPayloadSent /\ serverState # "retired" => isPayloadComplete)'
  BY DoneMeans, PTL
<1>2. Payload' = Payload
  BY DEF Payload
<1>. QED
  BY <1>1, <1>2

(* Where a request is answered, no payload was begun.                      *)
LEMMA AnsweredOnce ==
  ASSUME TransfersInv, serverState = "WAITING_FOR_REQUEST"
  PROVE  /\ /\ Uploading /\ dataLeaving # <<>> /\ Head(dataLeaving) = Request
            => ~isPayloadComplete
         /\ /\ ~Uploading /\ ackLeaving # <<>> /\ Head(ackLeaving) = Request
            => ~isPayloadSent
<1>1. TransfersTypeOK
  BY DEF TransfersInv
<1>2. CASE Idle
  BY <1>2, IdleReceiver DEF TransfersInv, IdleInv, SenderCreated
<1>3. CASE ~Idle
  <2>1. LiveInv
    BY <1>3 DEF TransfersInv, Live
  <2>. QED
    BY <1>1, <2>1, NoLateRequest
<1>. QED
  BY <1>2, <1>3

(* A step that the abstract transfer does not see.                         *)
LEMMA PromiseStutters ==
  ASSUME isPayloadComplete' = isPayloadComplete,
         isPayloadComplete => completedSet' = completedSet,
         isPayloadSent' = isPayloadSent, fileExists' = fileExists
  PROVE  [Promise!Next]_(Promise!ftVars)
BY DEF Promise!ftVars

(* The Sender's side has its last ACK, or is told to end.                  *)
LEMMA PromiseReports ==
  ASSUME UNCHANGED <<receiverVars, fileExists>>, isPayloadComplete \in BOOLEAN,
         isPayloadSent /\ fileExists => isPayloadSent',
         isPayloadSent' /\ fileExists => isPayloadComplete
  PROVE  [Promise!Next]_(Promise!ftVars)
<1>1. UNCHANGED <<completedSet, isPayloadComplete>>
  BY DEF receiverVars
<1>2. CASE (isPayloadSent' /\ fileExists) = (isPayloadSent /\ fileExists)
  BY <1>1, <1>2 DEF Promise!ftVars
<1>3. CASE isPayloadSent' /\ fileExists /\ ~isPayloadSent
  <2>1. /\ isPayloadComplete /\ ~(isPayloadSent /\ fileExists)
        /\ (isPayloadSent' /\ fileExists') = TRUE
    BY <1>3
  <2>. QED
    BY <1>1, <2>1 DEF Promise!Next, Promise!Report
<1>. QED
  BY <1>2, <1>3

(* A packet arrives at a receiver.                                         *)
LEMMA PromiseDelivers ==
  ASSUME TransfersInv', serverState' # "retired", NEW p,
         UNCHANGED <<isPayloadSent, fileExists>>,
         ReceiveData(p) \/ ReceiveEof(p) \/ UNCHANGED receiverVars
  PROVE  [Promise!Next]_(Promise!ftVars)
<1>1. CASE ReceiveData(p)
  <2>1. ~isPayloadComplete /\ isPayloadComplete' = isPayloadComplete
    BY <1>1 DEF ReceiveData, HandleData, RegisterPacket, DiscardPacket, receiverVars
  <2>. QED
    BY <2>1, PromiseStutters
<1>2. CASE ReceiveEof(p) /\ AcceptEof
  <2>1. ~isPayloadComplete /\ isPayloadComplete' = TRUE
    BY <1>2 DEF ReceiveEof, AcceptEof
  <2>2. completedSet' = Payload
    BY <2>1, DoneMeansNext
  <2>. QED
    BY <2>1, <2>2 DEF Promise!Next, Promise!Deliver
<1>3. CASE UNCHANGED receiverVars
  BY <1>3, PromiseStutters DEF receiverVars
<1>. QED
  BY <1>1, <1>2, <1>3 DEF ReceiveEof, IgnoreEof

(* The steps of the network and of the Sender's threads.                   *)
LEMMA BackgroundPromise ==
  ASSUME Background \/ CommitRequest \/ ExitRequest \/ UNCHANGED allVars
  PROVE  [Promise!Next]_(Promise!ftVars)
<1>1. UNCHANGED <<receiverVars, isPayloadSent, fileExists>>
  BY DEF Background, ExitThread, ThreadExit, CommitThread, ThreadCommit, SendPacket,
         ThreadSend, Transition, ReleaseData, ReleaseAck, opVars, allVars, vars, senderVars,
         CommitRequest, ExitRequest, RequestStep
<1>. QED
  BY <1>1, PromiseStutters DEF receiverVars

(* The steps of an upload.                                                 *)
LEMMA UploadPromise ==
  ASSUME TransfersInv, TransfersInv', UploadNext
  PROVE  [Promise!Next]_(Promise!ftVars)
<1>1. /\ TransfersTypeOK /\ isPayloadComplete \in BOOLEAN
      /\ Uploading /\ UploadPhases /\ Uploading' /\ UploadPhases'
  <2>1. Uploading /\ Uploading'
    BY DEF UploadNext, RepeatPost, RequestStep, ServerReceives, UploaderReceives, Uploading
  <2>. QED
    BY <2>1 DEF TransfersInv, PhaseInv, TransfersTypeOK, EndsTypeOK, ReceiverTypeOK
<1>2. CASE RepeatPost
  <2>1. UNCHANGED <<receiverVars, isPayloadSent, fileExists>>
    BY <1>2 DEF RepeatPost, RequestStep, senderVars
  <2>. QED
    BY <2>1, PromiseStutters DEF receiverVars
<1>3. CASE ServerReceives
  <2>1. PICK p : p = Head(dataLeaving)
    OBVIOUS
  <2>2. /\ dataLeaving # <<>> /\ UNCHANGED <<isPayloadSent, fileExists>>
        /\ \/ p = Request /\ GetFile
           \/ UNCHANGED receiverVars
           \/ ReceiveData(p) \/ ReceiveEof(p)
    BY <1>3, <2>1 DEF ServerReceives, senderVars, ReceivePost, AnswerPost, ReceiveUploaded,
                      ReAcknowledge
  <2>3. CASE p = Request /\ GetFile
    <3>1. serverState = "WAITING_FOR_REQUEST" /\ isPayloadComplete' = FALSE
      BY <2>3 DEF GetFile, StartNewPayload
    <3>2. ~isPayloadComplete
      BY <1>1, <2>1, <2>2, <2>3, <3>1, AnsweredOnce
    <3>3. isPayloadComplete' = isPayloadComplete
      BY <1>1, <3>1, <3>2
    <3>. QED
      BY <2>2, <3>2, <3>3, PromiseStutters
  <2>4. serverState' # "retired"
    BY <1>1 DEF UploadPhases
  <2>. QED
    BY <2>2, <2>3, <2>4, PromiseDelivers
<1>4. CASE UploaderReceives
  <2>1. /\ UNCHANGED <<receiverVars, fileExists>> /\ ~isPayloadSent
    <3>1. UNCHANGED <<receiverVars, fileExists>> /\ (PostAcknowledged \/ DispatchAck)
      BY <1>4 DEF UploaderReceives
    <3>2. PostAcknowledged => ~isPayloadSent
      BY <1>1 DEF PostAcknowledged, UploadPhases
    <3>3. DispatchAck => ~isPayloadSent
      BY DEF DispatchAck, ProcessAck
    <3>. QED
      BY <3>1, <3>2, <3>3
  <2>2. isPayloadSent' => isPayloadComplete'
    BY <1>1, DoneMeansNext DEF UploadPhases
  <2>3. isPayloadComplete' = isPayloadComplete
    BY <2>1 DEF receiverVars
  <2>. QED
    BY <1>1, <2>1, <2>2, <2>3, PromiseReports
<1>. QED
  BY <1>2, <1>3, <1>4 DEF UploadNext

(* The steps of a download or a listing.                                   *)
LEMMA DownloadPromise ==
  ASSUME TransfersInv, TransfersInv', DownloadNext
  PROVE  [Promise!Next]_(Promise!ftVars)
<1>1. /\ TransfersTypeOK /\ isPayloadComplete \in BOOLEAN
      /\ TransfersTypeOK' /\ isPayloadSent \in BOOLEAN /\ isPayloadSent' \in BOOLEAN
  BY DEF TransfersInv, TransfersTypeOK, EndsTypeOK, ReceiverTypeOK, SenderTypeOK
<1>2. ASSUME UNCHANGED <<receiverVars, isPayloadSent, fileExists>>
      PROVE  [Promise!Next]_(Promise!ftVars)
  BY <1>2, PromiseStutters DEF receiverVars
<1>3. CASE RepeatGet \/ TimeOut
  <2>1. UNCHANGED <<receiverVars, isPayloadSent, fileExists>>
    BY <1>3 DEF RepeatGet, RequestStep, TimeOut, vars, senderVars
  <2>. QED
    BY <1>2, <2>1
<1>4. CASE SendingServerReceives
  <2>1. /\ ~Uploading /\ ackLeaving # <<>> /\ UNCHANGED <<receiverVars, fileExists>>
        /\ AnswerGet \/ DispatchToSender \/ Ignore
    BY <1>1, <1>4, TwoKinds DEF SendingServerReceives
  <2>2. CASE AnswerGet /\ SendFile
    <3>1. ~isPayloadSent
      BY <2>1, <2>2, AnsweredOnce DEF AnswerGet, SendFile
    <3>2. ~isPayloadSent'
      BY <2>2 DEF SendFile, StartPayload
    <3>. QED
      BY <1>1, <2>1, <3>1, <3>2, PromiseReports
  <2>3. CASE DispatchToSender
    <3>1. ~isPayloadSent /\ serverState' # "retired"
      BY <2>3 DEF DispatchToSender, ProcessAck
    <3>2. isPayloadSent' => isPayloadComplete'
      BY <3>1, DoneMeansNext
    <3>3. isPayloadComplete' = isPayloadComplete
      BY <2>1 DEF receiverVars
    <3>. QED
      BY <1>1, <2>1, <3>1, <3>2, <3>3, PromiseReports
  <2>4. CASE UNCHANGED senderVars
    BY <1>2, <2>1, <2>4 DEF senderVars
  <2>. QED
    BY <2>1, <2>2, <2>3, <2>4 DEF AnswerGet, NoSuchFile, Ignore
<1>5. CASE Retire
  <2>1. /\ ~Uploading /\ phase \in {"returned", "refused"} /\ isPayloadSent' = TRUE
        /\ UNCHANGED <<receiverVars, fileExists>>
    BY <1>1, <1>5, TwoKinds DEF Retire, TerminateCurrentTransmission
  <2>2. fileExists => isPayloadComplete
    BY <2>1 DEF TransfersInv, PhaseInv, DownloadPhases
  <2>. QED
    BY <1>1, <2>1, <2>2, PromiseReports
<1>6. CASE DownloaderReceives
  <2>1. PICK m : m = Head(dataLeaving)
    OBVIOUS
  <2>2. /\ ~Uploading /\ UNCHANGED <<isPayloadSent, fileExists, serverState>>
        /\ ReceiveDownloaded(m) \/ ReceiveNsf \/ Finish(m) \/ Drain
    BY <1>1, <1>6, <2>1, TwoKinds DEF DownloaderReceives, senderVars
  <2>3. CASE ReceiveDownloaded(m)
    <3>1. /\ phase \in {"requesting", "transferring"}
          /\ ReceiveData(m) \/ ReceiveEof(m)
      BY <2>3 DEF ReceiveDownloaded
    <3>2. serverState' # "retired"
      BY <2>2, <3>1 DEF TransfersInv, PhaseInv, DownloadPhases
    <3>. QED
      BY <2>2, <3>1, <3>2, PromiseDelivers
  <2>4. CASE UNCHANGED receiverVars
    BY <1>2, <2>2, <2>4
  <2>. QED
    BY <2>2, <2>3, <2>4 DEF ReceiveNsf, Finish, Drain
<1>. QED
  BY <1>3, <1>4, <1>5, <1>6 DEF DownloadNext

(* Every step of an operation is one of the abstract transfer, or none.    *)
LEMMA PromiseStep ==
  /\ OperationsInit => Promise!Init
  /\ TransfersInv /\ TransfersInv' /\ [OperationsNext]_allVars
       => [Promise!Next]_(Promise!ftVars)
<1>1. ASSUME OperationsInit PROVE Promise!Init
  <2>1. isPayloadComplete = FALSE /\ isPayloadSent = FALSE
    BY <1>1 DEF OperationsInit, UploadInit, DownloadInit, OperationInit, SenderCreated,
                ReceiverInit
  <2>. QED
    BY <2>1 DEF Promise!Init
<1>2. ASSUME TransfersInv, TransfersInv', [OperationsNext]_allVars
      PROVE  [Promise!Next]_(Promise!ftVars)
  BY <1>2, BackgroundPromise, UploadPromise, DownloadPromise DEF OperationsNext
<1>. QED
  BY <1>1, <1>2

(* Whatever the network loses, delays and lets overtake, and however often *)
(* the request is repeated: the client of a download or the server of an   *)
(* upload hands over exactly the file, once, and the sending side reports  *)
(* success, or is told to end, only after that.  The hypotheses are those  *)
(* of TransfersInductive.                                                  *)
THEOREM TransfersRefinement ==
  ASSUME RangeSuffices, payloadSize > 0
  PROVE  TransfersSpec /\ []OperationPrompt /\ []ZeroHeld => ImplementsFileTransfer
<1>. QED
  BY TransfersInductive, PromiseStep, PTL
     DEF TransfersSpec, ImplementsFileTransfer, Promise!Spec

(* The same for downloads and listings, of files of any length.            *)
THEOREM DownloadRefinement ==
  ASSUME RangeSuffices
  PROVE  DownloadInit /\ [][OperationsNext]_allVars /\ []OperationPrompt
           => ImplementsFileTransfer
<1>. QED
  BY DownloadInductive, DownloadsOnly, PromiseStep, PTL
     DEF ImplementsFileTransfer, Promise!Spec

=============================================================================
