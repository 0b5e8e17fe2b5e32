----------------------------- MODULE Operation -----------------------------
(***************************************************************************)
(* What Upload and Download share: an operation that moves one file        *)
(* between a client and its server thread over the emulated network,       *)
(* request phase included.  It starts after syncServer, with a thread of   *)
(* the server that waits for a request.                                    *)
(*                                                                         *)
(* The data network carries what the Sender's side sends and the ACK       *)
(* network what the Receiver's side sends; a request travels with its      *)
(* side's other messages.  Every action of Upload and Download tests       *)
(* operation, so that one specification (Transfers) can have both.         *)
(***************************************************************************)
EXTENDS RoutedTransfer

VARIABLES
  operation,     \* Type of the request: POST, GET_FILE or GET_LIST
  fileExists,    \* a file asked for with GET_FILE is there
  requestThread, \* the SenderThread that repeats the request
  phase,         \* where the client's perform function is
  serverState    \* ServerThread::currentState

opVars  == <<operation, fileExists, requestThread, phase, serverState>>
allVars == <<vars, opVars>>

(* "finishing" is the loop around waitTimeOut after a download; "refused"  *)
(* the return after "No such file".                                        *)
Phases == {"requesting", "transferring", "finishing", "returned", "refused"}

(* A server thread told to end is "retired".                               *)
ServerStates == {"WAITING_FOR_REQUEST", "SENDING", "RECEIVING", "retired"}

(* The request, under the client's sequence number, which is also that of  *)
(* the payload's first packet.                                             *)
Request == -2

(* Mutant of RequestNumber: showMenu does not reduce the next number.      *)
NumberUnreduced == sequenceSeed + SEQUENCE_RANGE

RequestNumber == sequenceSeed

OperationInit ==
  /\ SenderCreated
  /\ ReceiverInit
  /\ Data!Init
  /\ Acks!Init
  /\ requestThread = "running"
  /\ phase = "requesting"
  /\ serverState = "WAITING_FOR_REQUEST"

(* SenderThread::run for the request.  Its flag is raised by the step that *)
(* ends the phase "requesting".                                            *)
RequestStep(from, to) ==
  /\ requestThread = from
  /\ requestThread' = to
  /\ UNCHANGED <<operation, fileExists, phase, serverState>>

CommitRequest ==
  /\ phase = "requesting"
  /\ RequestStep("running", "committed")
  /\ UNCHANGED vars

ExitRequest ==
  /\ phase # "requesting"
  /\ RequestStep("running", "done")
  /\ UNCHANGED vars

(* The steps of the Sender's threads and of the network.                   *)
Background ==
  /\ \/ \E p \in Packets : ExitThread(p) \/ CommitThread(p) \/ SendPacket(p)
     \/ ReleaseData
     \/ ReleaseAck
  /\ UNCHANGED opVars

(* No request is sent after its answer was received: of the request, too,  *)
(* the sendto follows the test of the flag soon.                           *)
OperationPrompt ==
  /\ Prompt
  /\ requestThread = "committed" => phase = "requesting"

-----------------------------------------------------------------------------
(* Types of the operation's state and of its ACK network, on which a       *)
(* request may travel too.                                                 *)
OperationTypeOK ==
  /\ operation \in {"POST", "GET_FILE", "GET_LIST"}
  /\ fileExists \in BOOLEAN
  /\ requestThread \in {"running", "committed", "done"}
  /\ phase \in Phases
  /\ serverState \in ServerStates
  /\ ackHeld \in Seq(Slots \union {Request})
  /\ ackLeaving \in Seq(Slots \union {Request})

(* Both directions promise what FileTransfer says: the file is handed over *)
(* once and intact, whatever became of the request, and the sending side   *)
(* ends its transfer only after that.                                      *)
Promise == INSTANCE FileTransfer WITH
  file     <- IF isPayloadComplete THEN completedSet ELSE <<>>,
  received <- isPayloadComplete,
  reported <- isPayloadSent /\ fileExists

ImplementsFileTransfer == Promise!Spec

=============================================================================
