---------------------------- MODULE Rename_proofs ----------------------------
(***************************************************************************)
(* Proofs about Rename: types, and that only what the user asked for is    *)
(* renamed, for every number of clients, names, files and prompts.         *)
(***************************************************************************)
EXTENDS Rename, TLAPS

(* A client's number grows once per name entered, after its answer.        *)
NumberBound(c) ==
  /\ sequenceNumber[c] <= firstSequenceNumber + prompts[c]
  /\ phase[c] \in {"awaitOriginal", "awaitNew"} =>
       sequenceNumber[c] + 1 <= firstSequenceNumber + prompts[c]

(* A thread that renames has a file name, and in rename() a new one too.   *)
HasNames(c) ==
  /\ currentState[c] # "WAITING_FOR_REQUEST" => filename[c] \in Names
  /\ currentState[c] = "in rename()" => newFilename[c] \in Names

RenameInv ==
  /\ TypeOK
  /\ \A c \in Clients : NumberBound(c) /\ HasNames(c)

-----------------------------------------------------------------------------
LEMMA NumberFacts ==
  /\ Numbers \subseteq Nat
  /\ firstSequenceNumber \in Nat /\ MaxPrompts \in Nat
  /\ firstSequenceNumber \in Numbers
  /\ InitialFiles \subseteq Names /\ NoFile \notin InitialFiles
BY RenameAssumption DEF Numbers

(* A set of messages, or of renames, gets one more.                        *)
LEMMA AddOne ==
  ASSUME NEW D, NEW S, NEW f \in [D -> SUBSET S], NEW d \in D, NEW x \in S
  PROVE  [f EXCEPT ![d] = f[d] \union {x}] \in [D -> SUBSET S]
OBVIOUS

LEMMA RenameInit == Init => RenameInv
<1>. SUFFICES ASSUME Init PROVE RenameInv
  OBVIOUS
<1>1. TypeOK
  <2>1. ASSUME NEW c \in Clients
        PROVE  {[type |-> "HANDSHAKE", sequenceNumber |-> n] : n \in handshakeNumbers}
                 \subseteq [type : {"HANDSHAKE", "ACK", "RESP_ERR"},
                            sequenceNumber : Numbers \union handshakeNumbers]
    OBVIOUS
  <2>2. /\ toServer = [c \in Clients |-> {}] /\ renamed = [c \in Clients |-> {}]
        /\ toClient = [c \in Clients |->
             {[type |-> "HANDSHAKE", sequenceNumber |-> n] : n \in handshakeNumbers}]
    BY DEF Init
  <2>3. files \in [Names -> InitialFiles \union {NoFile}]
    BY DEF Init
  <2>4. threadNumber = [c \in Clients |-> 0] /\ 0 \in Numbers /\ 0 \in 0 .. MaxPrompts
    BY NumberFacts DEF Init, Numbers
  <2>. QED
    BY <2>1, <2>2, <2>3, <2>4, NumberFacts DEF Init, TypeOK
<1>2. ASSUME NEW c \in Clients PROVE NumberBound(c) /\ HasNames(c)
  BY NumberFacts DEF Init, NumberBound, HasNames
<1>. QED
  BY <1>1, <1>2 DEF RenameInv

(* The user enters a name.                                                 *)
LEMMA EnterStep ==
  ASSUME RenameInv, NEW c \in Clients, NEW n \in Names,
         EnterOriginal(c, n) \/ EnterNew(c, n)
  PROVE  RenameInv'
<1>. USE DEF RenameInv
<1>. DEFINE ToServer == [type : {"PUT", "RESP"}, sequenceNumber : Numbers, name : Names]
<1>1. PICK type \in {"PUT", "RESP"} : Enter(c, type, n)
  BY DEF EnterOriginal, EnterNew
<1>2. /\ sequenceNumber \in [Clients -> Numbers] /\ prompts \in [Clients -> 0 .. MaxPrompts]
      /\ toServer \in [Clients -> SUBSET ToServer]
  BY DEF TypeOK
<1>3. /\ prompts' = [prompts EXCEPT ![c] = prompts[c] + 1] /\ prompts[c] < MaxPrompts
      /\ UNCHANGED <<sequenceNumber, currentState, threadNumber, filename, newFilename,
                     toClient, files, renamed>>
  BY <1>1 DEF Enter, UnchangedByClient, threadVars
<1>4. toServer' \in [Clients -> SUBSET ToServer]
  <2>. DEFINE x == [type |-> type, sequenceNumber |-> sequenceNumber[c], name |-> n]
  <2>1. x \in ToServer
    BY <1>2
  <2>2. toServer' = [toServer EXCEPT ![c] = toServer[c] \union {x}]
    BY <1>1 DEF Enter
  <2>. QED
    BY <1>2, <2>1, <2>2, AddOne
<1>5. prompts' \in [Clients -> 0 .. MaxPrompts]
  BY <1>2, <1>3, NumberFacts
<1>6. /\ phase' \in [Clients -> {"askOriginal", "awaitOriginal", "askNew", "awaitNew",
                                 "success", "menu"}]
      /\ \A d \in Clients : d # c => phase'[d] = phase[d]
  <2>1. phase' \in {[phase EXCEPT ![c] = "awaitOriginal"], [phase EXCEPT ![c] = "awaitNew"]}
    BY DEF EnterOriginal, EnterNew, Goto
  <2>. QED
    BY <2>1 DEF TypeOK
<1>7. chosen' \in [Clients -> [from : Names \union {NoName}, to : Names \union {NoName}]]
  <2>1. chosen \in [Clients -> [from : Names \union {NoName}, to : Names \union {NoName}]]
    BY DEF TypeOK
  <2>2. CASE chosen' = [chosen EXCEPT ![c].from = n]
    BY <2>1, <2>2
  <2>3. CASE chosen' = [chosen EXCEPT ![c].to = n]
    BY <2>1, <2>3
  <2>. QED
    BY <2>2, <2>3 DEF EnterOriginal, EnterNew
<1>8. TypeOK'
  BY <1>3, <1>4, <1>5, <1>6, <1>7 DEF TypeOK
<1>9. ASSUME NEW d \in Clients PROVE NumberBound(d)' /\ HasNames(d)'
  <2>1. HasNames(d)'
    BY <1>3 DEF HasNames
  <2>5. sequenceNumber[d] \in Numbers /\ prompts[d] \in 0 .. MaxPrompts
    BY <1>2
  <2>6. sequenceNumber[d] \in Nat /\ firstSequenceNumber \in Nat
    BY <2>5, NumberFacts, Zenon
  <2>2. sequenceNumber[d] \in Nat /\ prompts[d] \in Nat /\ firstSequenceNumber \in Nat
    BY <2>5, <2>6
  <2>4. /\ sequenceNumber'[d] = sequenceNumber[d]
        /\ prompts'[d] = IF d = c THEN prompts[d] + 1 ELSE prompts[d]
    BY <1>2, <1>3
  <2>3. NumberBound(d)'
    BY <1>6, <2>2, <2>4 DEF NumberBound
  <2>. QED
    BY <2>1, <2>3
<1>. QED
  BY <1>8, <1>9

(* The client takes an answer.                                             *)
LEMMA ReceiveStep ==
  ASSUME RenameInv, NEW c \in Clients, Receive(c)
  PROVE  RenameInv'
<1>. USE DEF RenameInv
<1>1. /\ phase[c] \in {"awaitOriginal", "awaitNew"}
      /\ phase' \in [Clients -> {"askOriginal", "awaitOriginal", "askNew", "awaitNew",
                                 "success", "menu"}]
      /\ phase'[c] \notin {"awaitOriginal", "awaitNew"}
      /\ \A d \in Clients : d # c => phase'[d] = phase[d]
      /\ UNCHANGED <<prompts, chosen, toServer, currentState, threadNumber, filename,
                     newFilename, toClient, files, renamed>>
      /\ sequenceNumber' = sequenceNumber
         \/ sequenceNumber' = [sequenceNumber EXCEPT ![c] = sequenceNumber[c] + 1]
  BY DEF Receive, OriginalAccepted, OriginalRefused, NewAccepted, NewRefused, Goto, Increment,
         UnchangedByClient, threadVars, TypeOK
<1>2. /\ sequenceNumber[c] \in Nat /\ prompts[c] \in 0 .. MaxPrompts
      /\ sequenceNumber[c] + 1 <= firstSequenceNumber + prompts[c]
  BY <1>1, NumberFacts DEF NumberBound, TypeOK
<1>3. sequenceNumber[c] + 1 \in Numbers
  BY <1>2, NumberFacts DEF Numbers
<1>4. TypeOK'
  BY <1>1, <1>3 DEF TypeOK
<1>5. ASSUME NEW d \in Clients PROVE NumberBound(d)' /\ HasNames(d)'
  <2>1. HasNames(d)'
    BY <1>1 DEF HasNames
  <2>2. NumberBound(d)'
    BY <1>1, <1>2 DEF NumberBound, TypeOK
  <2>. QED
    BY <2>1, <2>2
<1>. QED
  BY <1>4, <1>5

(* The thread handles a message.                                           *)
LEMMA HandleStep ==
  ASSUME RenameInv, NEW c \in Clients, NEW m \in toServer[c], Handle(c, m)
  PROVE  RenameInv'
<1>. USE DEF RenameInv
<1>1. m \in [type : {"PUT", "RESP"}, sequenceNumber : Numbers, name : Names]
  BY DEF TypeOK
<1>2. UNCHANGED <<phase, sequenceNumber, prompts, chosen, toServer, files, renamed>>
  BY DEF Handle, UnchangedByThread, clientVars, StartRename, AcknowledgeResp, AnswerAgain,
         PerformRename
<1>3. \E type \in {"ACK", "RESP_ERR"} : Reply(c, type, m.sequenceNumber)
  BY DEF Handle, StartRename, AcknowledgeResp, AnswerAgain, PerformRename
<1>4. /\ threadNumber' \in [Clients -> Numbers]
      /\ currentState' \in [Clients -> {"WAITING_FOR_REQUEST", "RENAMING", "in rename()"}]
      /\ filename' \in [Clients -> Names \union {NoName}]
      /\ newFilename' \in [Clients -> Names \union {NoName}]
      /\ \A d \in Clients : HasNames(d)'
  <2>1. CASE StartRename(c, m)
    BY <1>1, <2>1 DEF StartRename, Number, Becomes, HasNames, TypeOK
  <2>2. CASE AcknowledgeResp(c, m) \/ AnswerAgain(c, m)
    BY <2>2 DEF AcknowledgeResp, AnswerAgain, threadVars, HasNames, TypeOK
  <2>3. CASE PerformRename(c, m)
    BY <1>1, <2>3 DEF PerformRename, Number, Becomes, HasNames, TypeOK
  <2>. QED
    BY <2>1, <2>2, <2>3 DEF Handle
<1>5. toClient' \in [Clients -> SUBSET
        [type : {"HANDSHAKE", "ACK", "RESP_ERR"},
         sequenceNumber : Numbers \union handshakeNumbers]]
  <2>1. PICK type \in {"ACK", "RESP_ERR"} :
          toClient' = [toClient EXCEPT ![c] = toClient[c] \union
            {[type |-> type, sequenceNumber |-> m.sequenceNumber]}]
    BY <1>3 DEF Reply
  <2>. DEFINE x == [type |-> type, sequenceNumber |-> m.sequenceNumber]
  <2>2. x \in [type : {"HANDSHAKE", "ACK", "RESP_ERR"},
               sequenceNumber : Numbers \union handshakeNumbers]
    BY <1>1
  <2>. HIDE DEF x
  <2>. QED
    BY <2>1, <2>2, AddOne DEF TypeOK, x
<1>6. TypeOK'
  BY <1>2, <1>4, <1>5 DEF TypeOK
<1>7. \A d \in Clients : NumberBound(d)'
  BY <1>2 DEF NumberBound
<1>. QED
  BY <1>4, <1>6, <1>7

(* rename() moves one file to a name that no file has.                     *)
LEMMA CallRenameStep ==
  ASSUME RenameInv, NEW c \in Clients, CallRename(c)
  PROVE  RenameInv'
<1>. USE DEF RenameInv
<1>. DEFINE from == filename[c]
            to == newFilename[c]
<1>1. from \in Names /\ to \in Names
  BY DEF CallRename, HasNames
<1>2. UNCHANGED <<phase, sequenceNumber, prompts, chosen, toServer, toClient, threadNumber,
                  filename, newFilename>>
  BY DEF CallRename, UnchangedByThread, clientVars
<1>3. currentState' = [currentState EXCEPT ![c] = "RENAMING"]
  BY DEF CallRename, Becomes
<1>4. CASE UNCHANGED <<files, renamed>>
  <2>1. TypeOK'
    BY <1>2, <1>3, <1>4 DEF TypeOK
  <2>2. \A d \in Clients : NumberBound(d)' /\ HasNames(d)'
    BY <1>1, <1>2, <1>3 DEF NumberBound, HasNames, TypeOK
  <2>. QED
    BY <2>1, <2>2
<1>5. CASE /\ CanRename(from, to)
           /\ files' = [files EXCEPT ![from] = NoFile, ![to] = files[from]]
           /\ renamed' = [renamed EXCEPT ![c] = renamed[c] \union {[from |-> from, to |-> to]}]
  <2>2. files \in [Names -> InitialFiles \union {NoFile}]
    BY DEF TypeOK
  <2>4. files' \in [Names -> InitialFiles \union {NoFile}]
    BY <1>1, <1>5, <2>2
  <2>5. renamed' \in [Clients -> SUBSET [from : Names, to : Names]]
    <3>1. [from |-> from, to |-> to] \in [from : Names, to : Names]
      BY <1>1
    <3>. QED
      BY <1>5, <3>1, AddOne DEF TypeOK
  <2>6. TypeOK'
    BY <1>2, <1>3, <2>4, <2>5 DEF TypeOK
  <2>7. \A d \in Clients : NumberBound(d)' /\ HasNames(d)'
    BY <1>1, <1>2, <1>3 DEF NumberBound, HasNames, TypeOK
  <2>. QED
    BY <2>6, <2>7
<1>. QED
  BY <1>4, <1>5 DEF CallRename

LEMMA RenameStep == RenameInv /\ [Next]_vars => RenameInv'
<1>. SUFFICES ASSUME RenameInv, [Next]_vars PROVE RenameInv'
  OBVIOUS
<1>1. CASE UNCHANGED vars
  <2>1. TypeOK'
    BY <1>1 DEF vars, clientVars, threadVars, RenameInv, TypeOK
  <2>2. \A c \in Clients : NumberBound(c)' /\ HasNames(c)'
    BY <1>1 DEF vars, clientVars, threadVars, RenameInv, NumberBound, HasNames
  <2>. QED
    BY <2>1, <2>2 DEF RenameInv
<1>2. CASE Next
  BY <1>2, EnterStep, ReceiveStep, HandleStep, CallRenameStep DEF Next
<1>. QED
  BY <1>1, <1>2

LEMMA RenameInvariant == Spec => []RenameInv
BY RenameInit, RenameStep, PTL DEF Spec

-----------------------------------------------------------------------------
(* Types of clients, threads, messages and directory: in particular the    *)
(* client's number, incremented without a modulus, grows by one at most    *)
(* with each name the user enters (FtpClient.cpp:330).                     *)
THEOREM RenameTypeCorrect == Spec => []TypeOK
<1>1. RenameInv => TypeOK
  BY DEF RenameInv
<1>. QED
  BY <1>1, RenameInvariant, PTL

-----------------------------------------------------------------------------
(* Only what the user named last is renamed.  The numbers of a client's    *)
(* messages grow, and every PUT comes before every RESP; so a RESP whose   *)
(* number follows that of a PUT is about the file of that PUT.             *)
Originals(c) == {m \in toServer[c] : m.type = "PUT"}
NewNames(c)  == {m \in toServer[c] : m.type = "RESP"}

(* The client is past the choice of the file.                              *)
Chosen(c) == phase[c] \notin {"askOriginal", "awaitOriginal"}

OriginalsInv(c) ==
  \A m \in Originals(c) :
    /\ phase[c] = "askOriginal" => m.sequenceNumber < sequenceNumber[c]
    /\ phase[c] = "awaitOriginal" =>
         /\ m.sequenceNumber <= sequenceNumber[c]
         /\ m.sequenceNumber = sequenceNumber[c] => m.name = chosen[c].from
    /\ phase[c] \in {"askNew", "awaitNew"} =>
         /\ m.sequenceNumber < sequenceNumber[c]
         /\ m.sequenceNumber + 1 = sequenceNumber[c] => m.name = chosen[c].from

NewNamesInv(c) ==
  /\ NewNames(c) # {} => Chosen(c)
  /\ \A m \in Originals(c), r \in NewNames(c) :
       /\ m.sequenceNumber < r.sequenceNumber
       /\ r.sequenceNumber = m.sequenceNumber + 1 => m.name = chosen[c].from

(* The thread has the file of a PUT with the thread's number, or the one   *)
(* the client has settled on.                                              *)
Settled(c) == Chosen(c) /\ filename[c] = chosen[c].from

ThreadInv(c) ==
  /\ currentState[c] = "RENAMING" =>
       \/ Settled(c)
       \/ \E m \in Originals(c) :
            m.sequenceNumber = threadNumber[c] /\ m.name = filename[c]
  /\ currentState[c] = "in rename()" => Settled(c)

RenamedInv(c) ==
  /\ renamed[c] # {} => Chosen(c)
  /\ \A r \in renamed[c] : r.from = chosen[c].from

AskedInv(c) == OriginalsInv(c) /\ NewNamesInv(c) /\ ThreadInv(c) /\ RenamedInv(c)

(* A step leaves what AskedInv says of other clients as it is.             *)
LEMMA OthersAsked ==
  ASSUME NEW d \in Clients, AskedInv(d),
         phase'[d] = phase[d], sequenceNumber'[d] = sequenceNumber[d],
         chosen'[d] = chosen[d], toServer'[d] = toServer[d],
         currentState'[d] = currentState[d], threadNumber'[d] = threadNumber[d],
         filename'[d] = filename[d], renamed'[d] = renamed[d]
  PROVE  AskedInv(d)'
<1>1. /\ Originals(d)' = Originals(d) /\ NewNames(d)' = NewNames(d)
      /\ Chosen(d)' = Chosen(d) /\ Settled(d)' = Settled(d)
  BY DEF Originals, NewNames, Chosen, Settled
<1>2. OriginalsInv(d)' /\ NewNamesInv(d)'
  BY <1>1 DEF AskedInv, OriginalsInv, NewNamesInv
<1>3. RenamedInv(d)'
  BY <1>1 DEF AskedInv, RenamedInv
<1>4. ThreadInv(d)'
  <2>1. ThreadInv(d)
    BY DEF AskedInv
  <2>2. currentState'[d] = "RENAMING" =>
          \/ Settled(d)'
          \/ \E m \in Originals(d)' :
               m.sequenceNumber = threadNumber'[d] /\ m.name = filename'[d]
    BY <1>1, <2>1 DEF ThreadInv
  <2>3. currentState'[d] = "in rename()" => Settled(d)'
    BY <1>1, <2>1 DEF ThreadInv
  <2>. QED
    BY <2>2, <2>3 DEF ThreadInv
<1>. QED
  BY <1>2, <1>3, <1>4 DEF AskedInv

LEMMA MessageFacts ==
  ASSUME TypeOK, NEW c \in Clients, NEW m \in toServer[c]
  PROVE  m.type \in {"PUT", "RESP"} /\ m.sequenceNumber \in Nat
<1>1. m \in [type : {"PUT", "RESP"}, sequenceNumber : Numbers, name : Names]
  BY DEF TypeOK
<1>. QED
  BY <1>1, NumberFacts

LEMMA ModuloBound == ASSUME NEW n \in Nat PROVE n % SEQUENCE_RANGE <= n
<1>1. SEQUENCE_RANGE \in Nat /\ SEQUENCE_RANGE > 0
  BY RenameAssumption
<1>2. CASE n < SEQUENCE_RANGE
  BY <1>1, <1>2
<1>3. CASE n >= SEQUENCE_RANGE
  BY <1>1, <1>3
<1>. QED
  BY <1>1, <1>2, <1>3

LEMMA AskedInit == ASSUME Init, NEW c \in Clients PROVE AskedInv(c)
BY DEF Init, AskedInv, OriginalsInv, NewNamesInv, ThreadInv, RenamedInv, Originals,
       NewNames, Chosen, Settled

(* The thread handles a message: what the client knows stays.              *)
LEMMA HandleAsked ==
  ASSUME RenameInv, NEW c \in Clients, NEW m \in toServer[c], Handle(c, m), AskedInv(c)
  PROVE  AskedInv(c)'
<1>1. UNCHANGED <<phase, sequenceNumber, chosen, toServer, renamed>>
  BY DEF Handle, UnchangedByThread, clientVars, StartRename, AcknowledgeResp, AnswerAgain,
         PerformRename
<1>2. OriginalsInv(c)' /\ NewNamesInv(c)' /\ RenamedInv(c)'
  BY <1>1 DEF AskedInv, OriginalsInv, NewNamesInv, RenamedInv, Originals, NewNames, Chosen
<1>3. ThreadInv(c)'
  <2>1. CASE StartRename(c, m)
    <3>1. filename'[c] = m.name /\ threadNumber'[c] = m.sequenceNumber /\ m \in Originals(c)'
      BY <1>1, <2>1 DEF StartRename, Number, Originals, RenameInv, TypeOK
    <3>2. currentState'[c] # "in rename()"
      BY <2>1 DEF StartRename, Becomes, RenameInv, TypeOK
    <3>. QED
      BY <3>1, <3>2 DEF ThreadInv
  <2>2. CASE AcknowledgeResp(c, m) \/ AnswerAgain(c, m)
    BY <1>1, <2>2 DEF AcknowledgeResp, AnswerAgain, threadVars, AskedInv, ThreadInv, Settled,
                      Chosen, Originals
  <2>3. CASE PerformRename(c, m)
    <3>1. m \in NewNames(c) /\ threadNumber[c] \in Nat
      BY <2>3, NumberFacts DEF PerformRename, NewNames, RenameInv, TypeOK
    <3>2. Chosen(c)
      BY <3>1 DEF AskedInv, NewNamesInv
    <3>3. filename[c] = chosen[c].from
      <4>1. CASE Settled(c)
        BY <4>1 DEF Settled
      <4>2. CASE \E p \in Originals(c) :
                   p.sequenceNumber = threadNumber[c] /\ p.name = filename[c]
        <5>1. PICK p \in Originals(c) :
                p.sequenceNumber = threadNumber[c] /\ p.name = filename[c]
          BY <4>2
        <5>2. m.sequenceNumber = (threadNumber[c] + 1) % SEQUENCE_RANGE
          BY <2>3 DEF PerformRename
        <5>3. m.sequenceNumber <= threadNumber[c] + 1
          BY <3>1, <5>2, ModuloBound
        <5>4. m.sequenceNumber \in Nat
          BY MessageFacts DEF RenameInv
        <5>5. threadNumber[c] < m.sequenceNumber
          BY <3>1, <5>1 DEF AskedInv, NewNamesInv
        <5>6. m.sequenceNumber = p.sequenceNumber + 1
          BY <3>1, <5>1, <5>3, <5>4, <5>5
        <5>. QED
          BY <3>1, <5>1, <5>6 DEF AskedInv, NewNamesInv
      <4>. QED
        BY <2>3, <4>1, <4>2 DEF PerformRename, AskedInv, ThreadInv
    <3>4. filename' = filename
      BY <2>3 DEF PerformRename
    <3>. QED
      BY <1>1, <3>2, <3>3, <3>4 DEF ThreadInv, Settled, Chosen
  <2>. QED
    BY <2>1, <2>2, <2>3 DEF Handle
<1>. QED
  BY <1>2, <1>3 DEF AskedInv

(* rename() is called only by a thread that has the chosen file.           *)
LEMMA CallRenameAsked ==
  ASSUME RenameInv, NEW c \in Clients, CallRename(c), AskedInv(c)
  PROVE  AskedInv(c)'
<1>1. UNCHANGED <<phase, sequenceNumber, chosen, toServer, threadNumber, filename>>
  BY DEF CallRename, UnchangedByThread, clientVars
<1>2. Settled(c) /\ currentState'[c] = "RENAMING"
  BY DEF CallRename, Becomes, AskedInv, ThreadInv, RenameInv, TypeOK
<1>3. \A r \in renamed'[c] : r \in renamed[c] \/ r.from = filename[c]
  <2>. DEFINE x == [from |-> filename[c], to |-> newFilename[c]]
  <2>1. renamed' = renamed \/ renamed' = [renamed EXCEPT ![c] = renamed[c] \union {x}]
    BY DEF CallRename
  <2>2. x.from = filename[c]
    OBVIOUS
  <2>. HIDE DEF x
  <2>3. renamed'[c] \subseteq renamed[c] \union {x}
    BY <2>1 DEF RenameInv, TypeOK
  <2>. QED
    BY <2>2, <2>3
<1>4. OriginalsInv(c)' /\ NewNamesInv(c)'
  BY <1>1 DEF AskedInv, OriginalsInv, NewNamesInv, Originals, NewNames, Chosen
<1>5. ThreadInv(c)'
  BY <1>1, <1>2 DEF ThreadInv, Settled, Chosen
<1>6. RenamedInv(c)'
  BY <1>1, <1>2, <1>3 DEF AskedInv, RenamedInv, Settled, Chosen
<1>. QED
  BY <1>4, <1>5, <1>6 DEF AskedInv

(* The client takes an answer.                                             *)
LEMMA ReceiveAsked ==
  ASSUME RenameInv, NEW c \in Clients, Receive(c), AskedInv(c)
  PROVE  AskedInv(c)'
<1>1. UNCHANGED <<chosen, toServer, currentState, threadNumber, filename, renamed>>
  BY DEF Receive, OriginalAccepted, OriginalRefused, NewAccepted, NewRefused,
         UnchangedByClient, threadVars
<1>2. sequenceNumber[c] \in Nat
  BY NumberFacts DEF RenameInv, TypeOK
<1>3. \/ /\ phase[c] = "awaitOriginal" /\ sequenceNumber'[c] = sequenceNumber[c] + 1
         /\ phase'[c] \in {"askNew", "askOriginal", "menu"}
      \/ /\ phase[c] = "awaitNew" /\ phase'[c] \in {"success", "menu"}
      \/ /\ phase[c] = "awaitNew" /\ phase'[c] = "askNew"
         /\ sequenceNumber'[c] = sequenceNumber[c] + 1
  BY DEF Receive, OriginalAccepted, OriginalRefused, NewAccepted, NewRefused, Goto, Increment,
         RenameInv, TypeOK
<1>4. Chosen(c) => Chosen(c)'
  BY <1>3 DEF Chosen
<1>5. OriginalsInv(c)'
  <2>. SUFFICES ASSUME NEW m \in Originals(c)
                PROVE  /\ phase'[c] = "askOriginal" => m.sequenceNumber < sequenceNumber'[c]
                       /\ phase'[c] = "askNew" =>
                            /\ m.sequenceNumber < sequenceNumber'[c]
                            /\ m.sequenceNumber + 1 = sequenceNumber'[c]
                                 => m.name = chosen[c].from
    BY <1>1, <1>3 DEF OriginalsInv, Originals
  <2>1. m.sequenceNumber \in Nat
    BY MessageFacts DEF RenameInv, Originals
  <2>. QED
    BY <1>2, <1>3, <2>1 DEF AskedInv, OriginalsInv
<1>6. NewNamesInv(c)' /\ RenamedInv(c)'
  BY <1>1, <1>4 DEF AskedInv, NewNamesInv, RenamedInv, Originals, NewNames
<1>7. ThreadInv(c)'
  BY <1>1, <1>4 DEF AskedInv, ThreadInv, Settled, Originals
<1>. QED
  BY <1>5, <1>6, <1>7 DEF AskedInv

(* The user names the file: no RESP was sent and nothing renamed so far.   *)
LEMMA EnterOriginalAsked ==
  ASSUME RenameInv, NEW c \in Clients, NEW n \in Names, EnterOriginal(c, n), AskedInv(c)
  PROVE  AskedInv(c)'
<1>. DEFINE x == [type |-> "PUT", sequenceNumber |-> sequenceNumber[c], name |-> n]
<1>1. /\ toServer'[c] = toServer[c] \union {x}
      /\ UNCHANGED <<sequenceNumber, currentState, threadNumber, filename, renamed>>
      /\ phase[c] = "askOriginal" /\ phase'[c] = "awaitOriginal"
      /\ chosen'[c].from = n
  BY DEF EnterOriginal, Enter, Goto, UnchangedByClient, threadVars, RenameInv, TypeOK
<1>2. Originals(c)' = Originals(c) \union {x} /\ NewNames(c)' = NewNames(c)
  BY <1>1 DEF Originals, NewNames
<1>3. NewNames(c) = {} /\ renamed[c] = {} /\ ~Settled(c)
  BY <1>1 DEF AskedInv, NewNamesInv, RenamedInv, Chosen, Settled
<1>4. OriginalsInv(c)'
  <2>. SUFFICES ASSUME NEW m \in Originals(c) \union {x}
                PROVE  /\ m.sequenceNumber <= sequenceNumber[c]
                       /\ m.sequenceNumber = sequenceNumber[c] => m.name = n
    BY <1>1, <1>2 DEF OriginalsInv
  <2>1. sequenceNumber[c] \in Nat
    BY NumberFacts DEF RenameInv, TypeOK
  <2>2. CASE m = x
    BY <2>1, <2>2
  <2>3. CASE m \in Originals(c)
    <3>1. m.sequenceNumber \in Nat
      BY <2>3, MessageFacts DEF RenameInv, Originals
    <3>2. m.sequenceNumber < sequenceNumber[c]
      BY <1>1, <2>3 DEF AskedInv, OriginalsInv
    <3>. QED
      BY <2>1, <3>1, <3>2
  <2>. QED
    BY <2>2, <2>3
<1>5. NewNamesInv(c)' /\ RenamedInv(c)'
  BY <1>1, <1>2, <1>3 DEF NewNamesInv, RenamedInv
<1>6. ThreadInv(c)'
  BY <1>1, <1>2, <1>3 DEF AskedInv, ThreadInv
<1>. QED
  BY <1>4, <1>5, <1>6 DEF AskedInv

(* The user gives the new name: the RESP's number is above every PUT's.    *)
LEMMA EnterNewAsked ==
  ASSUME RenameInv, NEW c \in Clients, NEW n \in Names, EnterNew(c, n), AskedInv(c)
  PROVE  AskedInv(c)'
<1>. DEFINE x == [type |-> "RESP", sequenceNumber |-> sequenceNumber[c], name |-> n]
<1>1. /\ toServer'[c] = toServer[c] \union {x}
      /\ UNCHANGED <<sequenceNumber, currentState, threadNumber, filename, renamed>>
      /\ phase[c] = "askNew" /\ phase'[c] = "awaitNew"
      /\ chosen'[c].from = chosen[c].from
  BY DEF EnterNew, Enter, Goto, UnchangedByClient, threadVars, RenameInv, TypeOK
<1>2. Originals(c)' = Originals(c) /\ NewNames(c)' = NewNames(c) \union {x}
  BY <1>1 DEF Originals, NewNames
<1>3. Chosen(c)'
  BY <1>1 DEF Chosen
<1>4. OriginalsInv(c)'
  BY <1>1, <1>2 DEF AskedInv, OriginalsInv
<1>5. NewNamesInv(c)'
  <2>. SUFFICES ASSUME NEW m \in Originals(c), NEW r \in NewNames(c) \union {x}
                PROVE  /\ m.sequenceNumber < r.sequenceNumber
                       /\ r.sequenceNumber = m.sequenceNumber + 1 => m.name = chosen[c].from
    BY <1>1, <1>2, <1>3 DEF NewNamesInv
  <2>1. CASE r = x
    BY <1>1, <2>1 DEF AskedInv, OriginalsInv
  <2>2. CASE r \in NewNames(c)
    BY <2>2 DEF AskedInv, NewNamesInv
  <2>. QED
    BY <2>1, <2>2
<1>6. ThreadInv(c)' /\ RenamedInv(c)'
  BY <1>1, <1>2, <1>3 DEF AskedInv, ThreadInv, RenamedInv, Settled
<1>. QED
  BY <1>4, <1>5, <1>6 DEF AskedInv

LEMMA AskedStep ==
  ASSUME RenameInv, [Next]_vars, \A c \in Clients : AskedInv(c)
  PROVE  \A c \in Clients : AskedInv(c)'
<1>1. CASE UNCHANGED vars
  BY <1>1, OthersAsked DEF vars, clientVars, threadVars
<1>2. ASSUME NEW c \in Clients,
             \/ \E n \in Names : EnterOriginal(c, n) \/ EnterNew(c, n)
             \/ Receive(c)
             \/ \E m \in toServer[c] : Handle(c, m)
             \/ CallRename(c)
      PROVE  \A d \in Clients : AskedInv(d)'
  <2>1. AskedInv(c)'
    BY <1>2, EnterOriginalAsked, EnterNewAsked, ReceiveAsked, HandleAsked, CallRenameAsked
  <2>2. ASSUME NEW d \in Clients, d # c PROVE AskedInv(d)'
    <3>. /\ phase \in [Clients -> {"askOriginal", "awaitOriginal", "askNew", "awaitNew",
                                 "success", "menu"}]
         /\ sequenceNumber \in [Clients -> Numbers]
         /\ chosen \in [Clients -> [from : Names \union {NoName}, to : Names \union {NoName}]]
         /\ toServer \in [Clients -> SUBSET
              [type : {"PUT", "RESP"}, sequenceNumber : Numbers, name : Names]]
         /\ currentState \in [Clients -> {"WAITING_FOR_REQUEST", "RENAMING", "in rename()"}]
         /\ threadNumber \in [Clients -> Numbers]
         /\ filename \in [Clients -> Names \union {NoName}]
         /\ renamed \in [Clients -> SUBSET [from : Names, to : Names]]
      BY DEF RenameInv, TypeOK
    <3>1. CASE \E n \in Names : EnterOriginal(c, n) \/ EnterNew(c, n)
      <4>1. /\ phase'[d] = phase[d] /\ chosen'[d] = chosen[d] /\ toServer'[d] = toServer[d]
            /\ UNCHANGED <<sequenceNumber, currentState, threadNumber, filename, renamed>>
        BY <2>2, <3>1 DEF EnterOriginal, EnterNew, Enter, Goto, UnchangedByClient, threadVars
      <4>. QED
        BY <4>1, OthersAsked
    <3>2. CASE Receive(c)
      <4>1. /\ phase'[d] = phase[d] /\ sequenceNumber'[d] = sequenceNumber[d]
            /\ UNCHANGED <<chosen, toServer, currentState, threadNumber, filename, renamed>>
        BY <2>2, <3>2 DEF Receive, OriginalAccepted, OriginalRefused, NewAccepted, NewRefused,
             Goto, Increment, UnchangedByClient, threadVars
      <4>. QED
        BY <4>1, OthersAsked
    <3>3. CASE \E m \in toServer[c] : Handle(c, m)
      <4>1. PICK m : Handle(c, m)
        BY <3>3
      <4>2. UNCHANGED <<phase, sequenceNumber, chosen, toServer>>
        BY <4>1 DEF Handle, UnchangedByThread, clientVars
      <4>3. /\ renamed' = renamed
            /\ currentState'[d] = currentState[d] /\ threadNumber'[d] = threadNumber[d]
            /\ filename'[d] = filename[d]
        <5>1. CASE StartRename(c, m)
          BY <2>2, <5>1 DEF StartRename, Becomes, Number
        <5>2. CASE AcknowledgeResp(c, m) \/ AnswerAgain(c, m)
          BY <5>2 DEF AcknowledgeResp, AnswerAgain, threadVars
        <5>3. CASE PerformRename(c, m)
          BY <2>2, <5>3 DEF PerformRename, Becomes, Number
        <5>. QED
          BY <4>1, <5>1, <5>2, <5>3 DEF Handle
      <4>. QED
        BY <4>2, <4>3, OthersAsked
    <3>4. CASE CallRename(c)
      <4>1. /\ UNCHANGED <<phase, sequenceNumber, chosen, toServer, threadNumber, filename>>
            /\ currentState'[d] = currentState[d] /\ renamed'[d] = renamed[d]
        BY <2>2, <3>4 DEF CallRename, Becomes, UnchangedByThread, clientVars
      <4>. QED
        BY <4>1, OthersAsked
    <3>. QED
      BY <1>2, <3>1, <3>2, <3>3, <3>4
  <2>. QED
    BY <2>1, <2>2
<1>. QED
  BY <1>1, <1>2 DEF Next

(* However its messages are repeated, lost or late, an operation renames   *)
(* nothing but what goes by the name that its user entered last            *)
(* (FtpClient.cpp:317-358, ServerThread.cpp:239-267).                      *)
THEOREM RenamesAsAskedTheorem == Spec => []RenamesAsAsked
<1>. DEFINE Asked == \A c \in Clients : AskedInv(c)
<1>1. Init => Asked
  BY AskedInit
<1>2. RenameInv /\ Asked /\ [Next]_vars => Asked'
  BY AskedStep
<1>3. Asked => RenamesAsAsked
  BY DEF RenamesAsAsked, AskedInv, RenamedInv
<1>. HIDE DEF Asked
<1>. QED
  BY <1>1, <1>2, <1>3, RenameInvariant, PTL DEF Spec

=============================================================================
