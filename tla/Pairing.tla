------------------------------- MODULE Pairing -------------------------------
(***************************************************************************)
(* First-time pairing: unix::load of phantom-core/src/ipc_pairing_unix.rs, *)
(* run by runtimes (load_or_create_paired) and by overlay bridges          *)
(* (load_paired), each in a process of its own.                            *)
(*                                                                         *)
(* Loaders share the pairing directory: its flock, the token file and the  *)
(* temporary files.  A process can be killed between any two system calls, *)
(* which closes its descriptors and so releases the lock, but leaves its   *)
(* files.  Any system call can fail.  The random token and the random      *)
(* temporary name of a loader are fresh, so the loader itself names them.  *)
(***************************************************************************)

CONSTANTS Creators,   \* processes that call load(path, true)
          Readers,    \* processes that call load(path, false)
          Existing,   \* a token that is there before any of them starts
          Nil

Loaders == Creators \cup Readers

ASSUME PairingAssumption ==
  /\ Nil \notin Loaders \cup {Existing} /\ Existing \notin Loaders
  /\ Nil \notin {"partial", "whole"}

VARIABLES lpc,        \* where each loader stands
          directory,  \* does the pairing directory exist?
          holder,     \* the loader that holds the directory's flock
          file,       \* the token file: Nil or whose token, and how much of it
          temp,       \* the temporary file of each loader: Nil or how much
          got         \* the token each loader returned, Nil before that

pvars == <<lpc, directory, holder, file, temp, got>>

Amount == {"partial", "whole"}
Files  == [token : Loaders \cup {Existing}, bytes : Amount]
Locked == {"reading", "creating", "writing", "renaming", "syncing", "checking"}
Finished == {"returned", "failed", "killed"}
LoaderPcs == {"start", "locking"} \cup Locked \cup Finished

(* Nothing there yet, an earlier session's token, or an unusable file. *)
PairingInit ==
  /\ lpc = [p \in Loaders |-> "start"]
  /\ holder = Nil
  /\ temp = [p \in Loaders |-> Nil]
  /\ got = [p \in Loaders |-> Nil]
  /\ \/ directory \in BOOLEAN /\ file = Nil
     \/ directory = TRUE /\ \E b \in Amount : file = [token |-> Existing, bytes |-> b]

-----------------------------------------------------------------------------
Goto(p, where) == lpc' = [lpc EXCEPT ![p] = where]

(* Leaving load drops the directory descriptor, and the lock with it. *)
Unlock(p) == holder' = IF holder = p THEN Nil ELSE holder

FailWith(p) == /\ Goto(p, "failed") /\ Unlock(p)
               /\ UNCHANGED <<directory, file, got>>

(* private_directory: only a creator makes a missing directory. *)
private_directory(p) ==
  /\ lpc[p] = "start"
  /\ IF directory \/ p \in Creators
     THEN /\ Goto(p, "locking")
          /\ directory' = TRUE
          /\ UNCHANGED <<holder, file, temp, got>>
     ELSE FailWith(p) /\ UNCHANGED temp

LockShared(p) ==
  /\ lpc[p] = "locking"
  /\ Goto(p, "reading")
  /\ holder' = p
  /\ UNCHANGED <<directory, file, temp, got>>

(* lock: an exclusive flock, tried until it is free or two seconds passed. *)
Lock(p) ==
  /\ lpc[p] = "locking"
  /\ \/ /\ holder = Nil
        /\ holder' = p
        /\ Goto(p, "reading")
        /\ UNCHANGED <<directory, file, temp, got>>
     \/ /\ holder # Nil
        /\ FailWith(p) /\ UNCHANGED temp

Return(p) == /\ got' = [got EXCEPT ![p] = file.token]
             /\ Goto(p, "returned") /\ Unlock(p)
             /\ UNCHANGED <<directory, file, temp>>

Usable == file # Nil /\ file.bytes = "whole"

ReadBlocking(p) ==
  /\ lpc[p] = "reading"
  /\ \/ Usable /\ Return(p)
     \/ /\ file = Nil /\ p \in Creators
        /\ Goto(p, "creating")
        /\ UNCHANGED <<directory, holder, file, temp, got>>
     \/ file = Nil /\ p \notin Creators /\ FailWith(p) /\ UNCHANGED temp

ReadRepairing(p) ==
  /\ lpc[p] = "reading"
  /\ \/ Usable /\ Return(p)
     \/ /\ ~Usable /\ p \in Creators
        /\ Goto(p, "creating")
        /\ UNCHANGED <<directory, holder, file, temp, got>>
     \/ ~Usable /\ p \notin Creators /\ FailWith(p) /\ UNCHANGED temp

(* The first read: a valid token is returned, only a missing one lets a    *)
(* creator go on, and an unusable file is never repaired.                  *)
ReadToken(p) ==
  /\ lpc[p] = "reading"
  /\ \/ Usable /\ Return(p)
     \/ /\ file = Nil /\ p \in Creators
        /\ Goto(p, "creating")
        /\ UNCHANGED <<directory, holder, file, temp, got>>
     \/ /\ file # Nil \/ p \notin Creators
        /\ ~Usable
        /\ FailWith(p) /\ UNCHANGED temp

(* Two random values, then the exclusive creation of the temporary file. *)
CreateTemp(p) ==
  /\ lpc[p] = "creating"
  /\ temp' = [temp EXCEPT ![p] = "partial"]
  /\ Goto(p, "writing")
  /\ UNCHANGED <<directory, holder, file, got>>

WriteShort(p) ==
  /\ lpc[p] = "writing"
  /\ \E b \in Amount : temp' = [temp EXCEPT ![p] = b]
  /\ Goto(p, "renaming")
  /\ UNCHANGED <<directory, holder, file, got>>

(* write_all and sync_all; a process killed in between leaves a part. *)
WriteToken(p) ==
  /\ lpc[p] = "writing"
  /\ temp' = [temp EXCEPT ![p] = "whole"]
  /\ Goto(p, "renaming")
  /\ UNCHANGED <<directory, holder, file, got>>

RenameUnlinked(p) ==
  /\ lpc[p] = "renaming"
  /\ temp' = [temp EXCEPT ![p] = Nil]
  /\ file' = [token |-> p, bytes |-> temp'[p]]
  /\ Goto(p, "syncing")
  /\ UNCHANGED <<directory, holder, got>>

(* renameat replaces whatever has the name. *)
Rename(p) ==
  /\ lpc[p] = "renaming"
  /\ file' = [token |-> p, bytes |-> temp[p]]
  /\ temp' = [temp EXCEPT ![p] = Nil]
  /\ Goto(p, "syncing")
  /\ UNCHANGED <<directory, holder, got>>

SyncDirectory(p) ==
  /\ lpc[p] = "syncing"
  /\ Goto(p, "checking")
  /\ UNCHANGED <<directory, holder, file, temp, got>>

(* The second read, which has no way back to creating. *)
CheckToken(p) ==
  /\ lpc[p] = "checking"
  /\ IF Usable THEN Return(p) ELSE FailWith(p) /\ UNCHANGED temp

(* A system call fails.  From the write to the directory sync the closure's *)
(* error path unlinks the temporary name, which may fail too; the published *)
(* name stays.                                                              *)
IOError(p) ==
  /\ lpc[p] \notin Finished
  /\ FailWith(p)
  /\ \/ UNCHANGED temp
     \/ /\ lpc[p] \in {"writing", "renaming", "syncing"}
        /\ temp' = [temp EXCEPT ![p] = Nil]

(* The process is killed: its lock goes, its files stay. *)
Kill(p) ==
  /\ lpc[p] \notin Finished
  /\ Goto(p, "killed") /\ Unlock(p)
  /\ UNCHANGED <<directory, file, temp, got>>

-----------------------------------------------------------------------------
LoadStep(p) == \/ private_directory(p) \/ Lock(p) \/ ReadToken(p) \/ CreateTemp(p)
               \/ WriteToken(p) \/ Rename(p) \/ SyncDirectory(p) \/ CheckToken(p)

PairingNext == \E p \in Loaders : LoadStep(p) \/ IOError(p) \/ Kill(p)

PairingSpec == PairingInit /\ [][PairingNext]_pvars

(* A loader is a process the kernel schedules, and none of its calls waits: *)
(* the lock is polled and the token file is opened without blocking.        *)
FairPairingSpec == PairingSpec /\ \A p \in Loaders : WF_pvars(LoadStep(p))

-----------------------------------------------------------------------------
(* Every variable has its type. *)
PairingTypeOK ==
  /\ lpc \in [Loaders -> LoaderPcs]
  /\ directory \in BOOLEAN
  /\ holder \in Loaders \cup {Nil}
  /\ file \in Files \cup {Nil}
  /\ temp \in [Loaders -> Amount \cup {Nil}]
  /\ got \in [Loaders -> Loaders \cup {Existing, Nil}]

(* Runtime and overlay always agree on the credential: whoever returns a    *)
(* token, first or last, creator or reader, after whatever crashes, returns *)
(* the one in the file.                                                     *)
Agreement == \A p \in Loaders : got[p] # Nil => file # Nil /\ got[p] = file.token

(* "Atomically publish a fully written token": the name never shows a part  *)
(* of a token a loader wrote, wherever that loader was killed.              *)
WholePublished == file # Nil /\ file.token # Existing => file.bytes = "whole"

(* "Never repair silently": once the token file exists, valid or not, no    *)
(* loader replaces it.                                                      *)
NeverReplaced == [][file # Nil => file' = file]_pvars

(* Startup never hangs on pairing, whatever the token file is and whoever   *)
(* holds the lock.                                                          *)
LoadEnds == \A p \in Loaders : <>(lpc[p] \in Finished)
=============================================================================
