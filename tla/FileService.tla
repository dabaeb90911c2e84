----------------------------- MODULE FileService -----------------------------
(***************************************************************************)
(* The file services behind one socket: services/factory.ts makes the SFTP *)
(* backend or the shell backend, and the requests of the browser go to the *)
(* one there is.                                                           *)
(***************************************************************************)
EXTENDS SftpFiles, ShellFiles

filesVars == <<requestVars, sftpVars, managerVars, shellVars>>

FilesInit == RequestInit /\ SftpInit /\ TransferInit /\ ShellInit

FilesNext ==
    \/ backend # "shell" /\ SftpNext /\ UNCHANGED <<managerVars, shellVars>>
    \/ backend = "shell" /\ ShellNext /\ UNCHANGED sftpVars

FilesSpec == FilesInit /\ [][FilesNext]_filesVars /\ SftpFairness /\ ShellFairness

\* A slow or silent host never leaves the browser without an answer: every request that
\* waits for a callback of ssh2 before its first answer has a timer (wrapSftpOperation,
\* executeCommand, startUpload).  What the timers do not guard is exec() itself: when the
\* shell backend calls it on a connection that has gone since the client was looked up, it
\* throws, and the request is not answered, nor is any other after it.
RequestsAnswered ==
    []<>(\/ unhandledRejection /\ ssh # "up"
         \/ /\ \A r \in Requests : req[r].stage \notin Waiting
            /\ \A t \in Transfers : job[t].stage \notin ShellWaiting)
==============================================================================
