------------------------------- MODULE Rename -------------------------------
(***************************************************************************)
(* Renaming a file on the server: FtpClient::performRename against the     *)
(* PUT, RESP and RENAMING branches of ServerThread::run.  The client names *)
(* the file (PUT), then its new name (RESP); each is repeated until any    *)
(* message of the session with the same sequence number comes back.        *)
(*                                                                         *)
(* Each client has a server thread of its own (module Session) and the     *)
(* threads share one directory.  ioLock does not keep them apart: it is    *)
(* free whenever no thread is between its two finalize calls.  So another  *)
(* thread may act between performRename's test and its rename().           *)
(*                                                                         *)
(* The network between a client and its thread is the set of messages ever *)
(* sent, each of which may arrive at any time, repeatedly or never.        *)
(***************************************************************************)
EXTENDS Integers

CONSTANTS
  Clients,
  Names,                \* file names
  InitialFiles,         \* names of the files there are at first
  SEQUENCE_RANGE,
  firstSequenceNumber,  \* the client's when performRename starts
  handshakeNumbers,     \* sequence numbers of handshake replies of the
                        \* session that are still on their way to a client
  MaxPrompts            \* bound: file names a user enters

NoFile == "no file"
NoName == "no name"

ASSUME RenameAssumption ==
  /\ InitialFiles \subseteq Names
  /\ NoFile \notin Names
  /\ SEQUENCE_RANGE \in Nat \ {0}
  /\ firstSequenceNumber \in 0 .. (SEQUENCE_RANGE - 1)
  /\ handshakeNumbers \subseteq 0 .. (SEQUENCE_RANGE - 1)
  /\ MaxPrompts \in Nat

VARIABLES
  phase,           \* client -> where performRename is
  sequenceNumber,  \* client -> FtpClient::sequenceNumber
  prompts,         \* client -> names entered so far
  chosen,          \* client -> the names entered last: [from, to]
  currentState,    \* client -> state of its ServerThread
  threadNumber,    \* client -> ServerThread::sequenceNumber
  filename,        \* client -> ServerThread::filename
  newFilename,     \* client -> local of performRename, while it runs
  toServer,        \* client -> messages it sent
  toClient,        \* client -> messages its thread sent
  files,           \* name -> content, NoFile if there is none
  renamed          \* history: client -> renames its thread performed

clientVars == <<phase, sequenceNumber, prompts, chosen>>
threadVars == <<currentState, threadNumber, filename, newFilename>>
vars == <<clientVars, threadVars, toServer, toClient, files, renamed>>

(* A number grows by one at most with each name entered.                   *)
Numbers == 0 .. (firstSequenceNumber + MaxPrompts)

(* The content of a file is the name it had at first.                      *)
Init ==
  /\ phase = [c \in Clients |-> "askOriginal"]
  /\ sequenceNumber = [c \in Clients |-> firstSequenceNumber]
  /\ prompts = [c \in Clients |-> 0]
  /\ chosen = [c \in Clients |-> [from |-> NoName, to |-> NoName]]
  /\ currentState = [c \in Clients |-> "WAITING_FOR_REQUEST"]
  /\ threadNumber = [c \in Clients |-> 0]
  /\ filename = [c \in Clients |-> NoName]
  /\ newFilename = [c \in Clients |-> NoName]
  /\ toServer = [c \in Clients |-> {}]
  /\ toClient = [c \in Clients |->
       {[type |-> "HANDSHAKE", sequenceNumber |-> n] : n \in handshakeNumbers}]
  /\ files = [n \in Names |-> IF n \in InitialFiles THEN n ELSE NoFile]
  /\ renamed = [c \in Clients |-> {}]

Exists(n) == files[n] # NoFile

-----------------------------------------------------------------------------
(* The client.                                                             *)
UnchangedByClient == <<threadVars, toClient, files, renamed>>

Goto(c, from, to) ==
  /\ phase[c] = from
  /\ phase' = [phase EXCEPT ![c] = to]

(* The user enters a name and a SenderThread starts to send it.            *)
Enter(c, type, n) ==
  /\ prompts[c] < MaxPrompts
  /\ prompts' = [prompts EXCEPT ![c] = @ + 1]
  /\ toServer' = [toServer EXCEPT ![c] = @ \union
       {[type |-> type, sequenceNumber |-> sequenceNumber[c], name |-> n]}]
  /\ UNCHANGED <<sequenceNumber, UnchangedByClient>>

EnterOriginal(c, n) ==
  /\ Goto(c, "askOriginal", "awaitOriginal")
  /\ Enter(c, "PUT", n)
  /\ chosen' = [chosen EXCEPT ![c].from = n]

EnterNew(c, n) ==
  /\ Goto(c, "askNew", "awaitNew")
  /\ Enter(c, "RESP", n)
  /\ chosen' = [chosen EXCEPT ![c].to = n]

(* The awaited message, whatever its type.                                 *)
Matches(c, m) == m \in toClient[c] /\ m.sequenceNumber = sequenceNumber[c]

(* The number is incremented without a modulus.                            *)
Increment(c) == sequenceNumber' = [sequenceNumber EXCEPT ![c] = @ + 1]

OriginalAccepted(c, m) ==
  /\ Matches(c, m)
  /\ m.type # "RESP_ERR"
  /\ Goto(c, "awaitOriginal", "askNew")
  /\ Increment(c)
  /\ UNCHANGED <<prompts, chosen, toServer, UnchangedByClient>>

(* "No such file": the user tries again or returns to the menu.            *)
OriginalRefused(c, m) ==
  /\ Matches(c, m)
  /\ m.type = "RESP_ERR"
  /\ Goto(c, "awaitOriginal", "askOriginal") \/ Goto(c, "awaitOriginal", "menu")
  /\ Increment(c)
  /\ UNCHANGED <<prompts, chosen, toServer, UnchangedByClient>>

(* "The file was successfully renamed."                                    *)
NewAccepted(c, m) ==
  /\ Matches(c, m)
  /\ m.type = "ACK"
  /\ Goto(c, "awaitNew", "success")
  /\ UNCHANGED <<sequenceNumber, prompts, chosen, toServer, UnchangedByClient>>

(* "There already exists a filename with the specified new name."          *)
NewRefused(c, m) ==
  /\ Matches(c, m)
  /\ m.type # "ACK"
  /\ \/ Goto(c, "awaitNew", "askNew") /\ Increment(c)
     \/ Goto(c, "awaitNew", "menu") /\ UNCHANGED sequenceNumber
  /\ UNCHANGED <<prompts, chosen, toServer, UnchangedByClient>>

-----------------------------------------------------------------------------
(* The server thread of client c.                                          *)
Reply(c, type, number) ==
  toClient' = [toClient EXCEPT ![c] = @ \union
    {[type |-> type, sequenceNumber |-> number]}]

Becomes(c, state) == currentState' = [currentState EXCEPT ![c] = state]

(* Mutant of Number: the thread counts on by itself.                       *)
NextNumber(c, m) == threadNumber' = [threadNumber EXCEPT ![c] = @ + 1]

(* The thread takes over the message's number.                             *)
Number(c, m) == threadNumber' = [threadNumber EXCEPT ![c] = m.sequenceNumber]

UnchangedByThread == <<clientVars, toServer>>

(* A PUT to a thread that waits for a request.  If the file is missing the *)
(* thread keeps waiting.                                                   *)
StartRename(c, m) ==
  /\ currentState[c] = "WAITING_FOR_REQUEST"
  /\ m.type = "PUT"
  /\ filename' = [filename EXCEPT ![c] = m.name]
  /\ Number(c, m)
  /\ IF Exists(m.name)
     THEN Reply(c, "ACK", m.sequenceNumber) /\ Becomes(c, "RENAMING")
     ELSE Reply(c, "RESP_ERR", m.sequenceNumber) /\ UNCHANGED currentState
  /\ UNCHANGED <<newFilename, files, renamed>>

(* Any RESP is acknowledged by a thread that waits for a request.          *)
AcknowledgeResp(c, m) ==
  /\ currentState[c] = "WAITING_FOR_REQUEST"
  /\ m.type = "RESP"
  /\ Reply(c, "ACK", m.sequenceNumber)
  /\ UNCHANGED <<threadVars, files, renamed>>

(* RENAMING, the number of the last message: a repeated PUT is accepted    *)
(* again, a repeated RESP is refused.                                      *)
AnswerAgain(c, m) ==
  /\ currentState[c] = "RENAMING"
  /\ m.sequenceNumber = threadNumber[c]
  /\ Reply(c, IF m.type = "PUT" THEN "ACK" ELSE "RESP_ERR", m.sequenceNumber)
  /\ UNCHANGED <<threadVars, files, renamed>>

(* Mutant of PerformRename: a RESP of any other number is taken.           *)
PerformRenameAnyNumber(c, m) ==
  /\ currentState[c] = "RENAMING"
  /\ m.type = "RESP"
  /\ m.sequenceNumber # threadNumber[c]
  /\ Number(c, m)
  /\ newFilename' = [newFilename EXCEPT ![c] = m.name]
  /\ IF Exists(m.name)
     THEN Reply(c, "RESP_ERR", m.sequenceNumber) /\ UNCHANGED currentState
     ELSE Reply(c, "ACK", m.sequenceNumber) /\ Becomes(c, "in rename()")
  /\ UNCHANGED <<filename, files, renamed>>

(* RENAMING, a RESP with the next number: performRename up to its answer.  *)
PerformRename(c, m) ==
  /\ currentState[c] = "RENAMING"
  /\ m.type = "RESP"
  /\ m.sequenceNumber # threadNumber[c]
  /\ m.sequenceNumber = (threadNumber[c] + 1) % SEQUENCE_RANGE
  /\ Number(c, m)
  /\ newFilename' = [newFilename EXCEPT ![c] = m.name]
  /\ IF Exists(m.name)
     THEN Reply(c, "RESP_ERR", m.sequenceNumber) /\ UNCHANGED currentState
     ELSE Reply(c, "ACK", m.sequenceNumber) /\ Becomes(c, "in rename()")
  /\ UNCHANGED <<filename, files, renamed>>

(* rename() of the C library: fails, unnoticed, when the file is gone or   *)
(* the new name is taken.                                                  *)
CanRename(from, to) == Exists(from) /\ ~Exists(to)

CallRename(c) ==
  LET from == filename[c]
      to   == newFilename[c]
  IN /\ currentState[c] = "in rename()"
     /\ Becomes(c, "RENAMING")
     /\ IF CanRename(from, to)
        THEN /\ files' = [files EXCEPT ![from] = NoFile, ![to] = files[from]]
             /\ renamed' = [renamed EXCEPT ![c] = @ \union {[from |-> from, to |-> to]}]
        ELSE UNCHANGED <<files, renamed>>
     /\ UNCHANGED <<UnchangedByThread, threadNumber, filename, newFilename, toClient>>

Handle(c, m) ==
  /\ \/ StartRename(c, m)
     \/ AcknowledgeResp(c, m)
     \/ AnswerAgain(c, m)
     \/ PerformRename(c, m)
  /\ UNCHANGED UnchangedByThread

-----------------------------------------------------------------------------
Receive(c) ==
  \E m \in toClient[c] :
    \/ OriginalAccepted(c, m) \/ OriginalRefused(c, m)
    \/ NewAccepted(c, m) \/ NewRefused(c, m)

Next ==
  \E c \in Clients :
    \/ \E n \in Names : EnterOriginal(c, n) \/ EnterNew(c, n)
    \/ Receive(c)
    \/ \E m \in toServer[c] : Handle(c, m)
    \/ CallRename(c)

Spec == Init /\ [][Next]_vars

-----------------------------------------------------------------------------
(* Types of clients, threads, messages and directory.                      *)
TypeOK ==
  /\ phase \in [Clients -> {"askOriginal", "awaitOriginal", "askNew", "awaitNew",
                            "success", "menu"}]
  /\ sequenceNumber \in [Clients -> Numbers]
  /\ prompts \in [Clients -> 0 .. MaxPrompts]
  /\ chosen \in [Clients -> [from : Names \union {NoName}, to : Names \union {NoName}]]
  /\ currentState \in [Clients -> {"WAITING_FOR_REQUEST", "RENAMING", "in rename()"}]
  /\ threadNumber \in [Clients -> Numbers]
  /\ filename \in [Clients -> Names \union {NoName}]
  /\ newFilename \in [Clients -> Names \union {NoName}]
  /\ toServer \in [Clients -> SUBSET
       [type : {"PUT", "RESP"}, sequenceNumber : Numbers, name : Names]]
  /\ toClient \in [Clients -> SUBSET
       [type : {"HANDSHAKE", "ACK", "RESP_ERR"},
        sequenceNumber : Numbers \union handshakeNumbers]]
  /\ renamed \in [Clients -> SUBSET [from : Names, to : Names]]
  /\ files \in [Names -> InitialFiles \union {NoFile}]

(* However its messages are repeated, lost or late, an operation renames   *)
(* nothing but what goes by the name that its user entered last.           *)
RenamesAsAsked ==
  \A c \in Clients : \A r \in renamed[c] : r.from = chosen[c].from

(* FtpClient.cpp:366: "The file was successfully renamed." is shown only   *)
(* when the file has, or is just getting, the name the user chose.         *)
SuccessIsTrue ==
  \A c \in Clients :
    phase[c] = "success" => chosen[c] \in renamed[c] \/ currentState[c] = "in rename()"

=============================================================================
