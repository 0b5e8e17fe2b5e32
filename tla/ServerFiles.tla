---------------------------- MODULE ServerFiles ----------------------------
(***************************************************************************)
(* The file operations of ServerThread and ioLock, the one AsyncLock that  *)
(* all server threads share around them: saveFile, getFileContents,        *)
(* getDirectoryContents, startRename and performRename.                    *)
(*                                                                         *)
(* Each waits for the flag to be false, works on the directory, sets the   *)
(* flag to true and then to false, notifying after each.  Nobody waits for *)
(* consumption on this lock.  getFileContents leaves by an exception, with *)
(* the flag untouched, if the file is not there.                           *)
(*                                                                         *)
(* Names that saveFile may give one upload are told apart by the number of *)
(* underscores it appended; all clients upload under one name.             *)
(***************************************************************************)
EXTENDS AsyncLock, Naturals

CONSTANTS
  ioLock,        \* the lock, the only one of Locks
  MaxAppended,   \* bound: underscores appended to a name
  InitialNames   \* names of the files there are at first

Names   == 0 .. MaxAppended
NoFile  == "no file"
Partial == "partial"

VARIABLES
  at,         \* thread -> where it is
  operation,  \* thread -> the function it is in
  filename,   \* thread -> the name it works on
  files       \* name -> uploading thread, Partial or NoFile

fileVars == <<operation, filename, files>>
vars     == <<lockVars, at, fileVars>>

Operations == {"saveFile", "getFileContents", "getDirectoryContents",
               "startRename", "performRename"}

(* FtpServer creates ioLock with its flag false.                           *)
Init ==
  /\ LockInit(FALSE)
  /\ at = [t \in Users |-> "idle"]
  /\ operation = [t \in Users |-> "saveFile"]
  /\ filename = [t \in Users |-> 0]
  /\ files = [n \in Names |-> IF n \in InitialNames THEN Partial ELSE NoFile]

Exists(n) == files[n] # NoFile

Goto(t, from, to) == at[t] = from /\ at' = [at EXCEPT ![t] = to]

-----------------------------------------------------------------------------
Call(t, op, n) ==
  /\ Goto(t, "idle", "waiting")
  /\ operation' = [operation EXCEPT ![t] = op]
  /\ filename' = [filename EXCEPT ![t] = IF op = "saveFile" THEN 0 ELSE n]
  /\ UNCHANGED <<lockVars, files>>

Sleep(t) ==
  /\ at[t] = "waiting"
  /\ BlocksForSignalling(ioLock, t)
  /\ UNCHANGED <<at, fileVars>>

Enter(t) ==
  /\ PassesSignalling(ioLock, t)
  /\ Goto(t, "waiting", "testing")
  /\ UNCHANGED <<lockVars, fileVars>>

(* saveFile appends an underscore for as long as the name is taken ...     *)
AppendUnderscore(t) ==
  /\ operation[t] = "saveFile"
  /\ at[t] = "testing"
  /\ Exists(filename[t])
  /\ filename[t] < MaxAppended
  /\ filename' = [filename EXCEPT ![t] = @ + 1]
  /\ UNCHANGED <<lockVars, at, operation, files>>

ChooseName(t) ==
  /\ operation[t] = "saveFile"
  /\ ~Exists(filename[t])
  /\ Goto(t, "testing", "opening")
  /\ UNCHANGED <<lockVars, fileVars>>

Store(t, from, to, content) ==
  /\ Goto(t, from, to)
  /\ files' = [files EXCEPT ![filename[t]] = content]
  /\ UNCHANGED <<lockVars, operation, filename>>

(* ... and then creates the file, or empties one that is there by now.     *)
Open(t)  == Store(t, "opening", "writing", Partial)
Write(t) == Store(t, "writing", "leaving", t)

FindFile(t) ==
  /\ operation[t] = "getFileContents"
  /\ Goto(t, "testing", IF Exists(filename[t]) THEN "reading" ELSE "idle")
  /\ UNCHANGED <<lockVars, fileVars>>

(* The contents are read, or the names are listed.                         *)
Read(t) ==
  /\ \/ Goto(t, "reading", "leaving")
     \/ operation[t] = "getDirectoryContents" /\ Goto(t, "testing", "leaving")
  /\ UNCHANGED <<lockVars, fileVars>>

(* PathFileExists of startRename and performRename, and the answer.        *)
TestName(t) ==
  /\ operation[t] \in {"startRename", "performRename"}
  /\ Goto(t, "testing", IF operation[t] = "performRename" /\ ~Exists(filename[t])
                        THEN "renaming" ELSE "leaving")
  /\ UNCHANGED <<lockVars, fileVars>>

IsOpen(n) == \E u \in Users : at[u] \in {"writing", "reading"} /\ filename[u] = n

(* rename(), which refuses a new name that is taken and an open file.      *)
Rename(t, from) ==
  /\ Goto(t, "renaming", "leaving")
  /\ files' = IF Exists(from) /\ ~IsOpen(from) /\ ~Exists(filename[t])
              THEN [files EXCEPT ![from] = NoFile, ![filename[t]] = files[from]]
              ELSE files
  /\ UNCHANGED <<lockVars, operation, filename>>

(* finalizeSignalling and finalizeConsumption.                             *)
Finalize(t) ==
  /\ \/ Goto(t, "leaving", "signalled") /\ SetConsumptionState(ioLock, TRUE)
     \/ Goto(t, "signalled", "notified") /\ NotifyReader(ioLock)
     \/ Goto(t, "notified", "consumed") /\ SetConsumptionState(ioLock, FALSE)
     \/ Goto(t, "consumed", "idle") /\ NotifyWriter(ioLock)
  /\ UNCHANGED fileVars

Spurious(t) == WakeSpuriously(t) /\ UNCHANGED <<at, fileVars>>

Next ==
  \E t \in Users :
    \/ \E op \in Operations, n \in Names : Call(t, op, n)
    \/ Sleep(t) \/ Enter(t) \/ Finalize(t) \/ Spurious(t)
    \/ AppendUnderscore(t) \/ ChooseName(t) \/ Open(t) \/ Write(t)
    \/ FindFile(t) \/ Read(t) \/ TestName(t)
    \/ \E from \in Names : Rename(t, from)

Spec == Init /\ [][Next]_vars

-----------------------------------------------------------------------------
(* ServerThread.h:61: "ServerThread will need to share an I/O mutex", which *)
(* is what would make saveFile's test and its opening of the file one step.*)
(* With it, an upload that was stored is never emptied or overwritten by   *)
(* another one: rename() alone takes it from its name.                     *)
UploadsKept ==
  [][\A n \in Names :
       files[n] \in Users /\ files'[n] # files[n] => files'[n] = NoFile]_vars

=============================================================================
