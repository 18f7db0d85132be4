------------------------------ MODULE KeyFiles ------------------------------
(***************************************************************************)
(* The master key and the sealed session on disk                           *)
(* (bridge/session_store.py, started by bridge/cmd/serve.py): processes    *)
(* that start together, a crash between any two calls of the system, and a *)
(* user who deletes a key file that is refused.                            *)
(*                                                                         *)
(* Keys are numbered in the order they are drawn; BRIDGE_MASTER_KEY is not *)
(* set.  A file is opened empty and gets its contents in one write.        *)
(***************************************************************************)
EXTENDS Integers

CONSTANTS
    Procs,
    MaxKeys  \* bound on the keys drawn

VARIABLES
    at,       \* where each process is
    key,      \* the key it holds; 0 is none
    keyFile,  \* master.key
    drawn,    \* keys drawn so far
    tmpFile,  \* <login>.session.tmp
    sealed    \* <login>.session

keyFiles == <<at, key, keyFile, drawn, tmpFile, sealed>>

\* A file is absent, empty, or holds (something sealed under) a key.
Absent == -1
Empty == 0

KeyFilesInit ==
    /\ at = [p \in Procs |-> "off"] /\ key = [p \in Procs |-> 0]
    /\ keyFile = Absent /\ drawn = 0
    /\ tmpFile = Absent /\ sealed = Absent

\* Those that have the ports, and all that have their key.
Serving == {"serving", "saving", "saved"}
Started == {"started"} \cup Serving

Advance(p, from, to) == at[p] = from /\ at' = [at EXCEPT ![p] = to]

\* load_or_create_master_key: an empty file is refused, also when another
\* process is about to write it.
ReadKey(p) ==
    /\ \/ keyFile = Absent /\ Advance(p, "off", "create") /\ UNCHANGED key
       \/ keyFile = Empty /\ Advance(p, "off", "off") /\ UNCHANGED key
       \/ /\ keyFile \notin {Absent, Empty}
          /\ Advance(p, "off", "started")
          /\ key' = [key EXCEPT ![p] = keyFile]
    /\ UNCHANGED <<keyFile, drawn, tmpFile, sealed>>

\* Mutant of CreateKey: without O_EXCL a file that is there is truncated.
CreateKeyAnyway(p) ==
    /\ drawn < MaxKeys
    /\ Advance(p, "create", "write")
    /\ keyFile' = Empty
    /\ drawn' = drawn + 1 /\ key' = [key EXCEPT ![p] = drawn']
    /\ UNCHANGED <<tmpFile, sealed>>

\* O_EXCL: if the file has appeared meanwhile, the process ends.
CreateKey(p) ==
    /\ drawn < MaxKeys
    /\ IF keyFile = Absent
       THEN /\ Advance(p, "create", "write") /\ keyFile' = Empty
            /\ drawn' = drawn + 1 /\ key' = [key EXCEPT ![p] = drawn']
       ELSE Advance(p, "create", "off") /\ UNCHANGED <<keyFile, drawn, key>>
    /\ UNCHANGED <<tmpFile, sealed>>

WriteKey(p) ==
    /\ Advance(p, "write", "started")
    /\ keyFile' = key[p]
    /\ UNCHANGED <<key, drawn, tmpFile, sealed>>

\* The ports: of the processes that have started one goes on, the others end.
Serve(p) ==
    /\ IF \E q \in Procs : at[q] \in Serving
       THEN Advance(p, "started", "off")
       ELSE Advance(p, "started", "serving")
    /\ UNCHANGED <<key, keyFile, drawn, tmpFile, sealed>>

-----------------------------------------------------------------------------
(* SessionStore.save and delete. *)

\* Mutant of OpenTemporary: the session file itself is opened.
OpenInPlace(p) ==
    /\ Advance(p, "serving", "saving")
    /\ sealed' = Empty
    /\ UNCHANGED <<key, keyFile, drawn, tmpFile>>

OpenTemporary(p) ==
    /\ Advance(p, "serving", "saving")
    /\ tmpFile' = Empty
    /\ UNCHANGED <<key, keyFile, drawn, sealed>>

WriteTemporary(p) ==
    /\ Advance(p, "saving", "saved")
    /\ tmpFile' = key[p]
    /\ UNCHANGED <<key, keyFile, drawn, sealed>>

Replace(p) ==
    /\ Advance(p, "saved", "serving")
    /\ sealed' = tmpFile /\ tmpFile' = Absent
    /\ UNCHANGED <<key, keyFile, drawn>>

\* A temporary file that a crash has left stays.
DeleteSession(p) ==
    /\ Advance(p, "serving", "serving")
    /\ sealed' = Absent
    /\ UNCHANGED <<key, keyFile, drawn, tmpFile>>

Die(p) ==
    /\ at[p] # "off" /\ at' = [at EXCEPT ![p] = "off"]
    /\ UNCHANGED <<key, keyFile, drawn, tmpFile, sealed>>

\* What the error message says to do; nothing is being started just then.
DeleteKey ==
    /\ keyFile = Empty /\ \A p \in Procs : at[p] = "off"
    /\ keyFile' = Absent
    /\ UNCHANGED <<at, key, drawn, tmpFile, sealed>>

KeyFilesNext ==
    \/ DeleteKey
    \/ \E p \in Procs :
         \/ ReadKey(p) \/ CreateKey(p) \/ WriteKey(p) \/ Serve(p)
         \/ OpenTemporary(p) \/ WriteTemporary(p) \/ Replace(p)
         \/ DeleteSession(p) \/ Die(p)

KeyFilesSpec == KeyFilesInit /\ [][KeyFilesNext]_keyFiles

-----------------------------------------------------------------------------
\* However starts and crashes interleave, a process that runs holds the key
\* that is on disk: it is never replaced under it.
HoldsTheStoredKey == \A p \in Procs : at[p] \in Started => key[p] = keyFile

\* A session on disk can be opened by the next start: it is whole and sealed
\* under the key that is stored, whatever was interrupted.
SessionReadable == sealed # Absent => sealed = keyFile /\ sealed # Empty
=============================================================================
