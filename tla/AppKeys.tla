------------------------------- MODULE AppKeys -------------------------------
(* The master key of the app (app.py): minted in memory, sealed on disk under *)
(* a passphrase, exported as a sealed zip, dropped by "lock" and wiped by     *)
(* "start over". Every request runs in a thread of its own over the same      *)
(* globals and files, without a lock, and the process can die at any step.    *)
(*                                                                            *)
(* A step of a request is one access to SESSION_KEY or to a file. Requests    *)
(* that change nothing (a bad passphrase form, a missing confirmation, the    *)
(* refusals with 409 or 423) end where they are refused.                      *)
EXTENDS Integers, FiniteSets

CONSTANTS
  Threads,       \* bound: requests under way at once
  Keys,          \* bound: the keys that can be minted, besides Legacy
  Passphrases,
  Legacy,        \* the key of a data directory from before sealing
  None,          \* no key, no file
  Torn           \* master.key.sealed exists and cannot be opened

AllKeys == Keys \cup {Legacy}
Sealed == [key : AllKeys, pw : Passphrases]

ASSUME KeyAssumption ==
  /\ Legacy \notin Keys /\ None \notin AllKeys
  /\ None # Torn /\ None \notin Sealed /\ Torn \notin Sealed

VARIABLES
  session,    \* SESSION_KEY
  sealed,     \* master.key.sealed: None, Torn or in Sealed
  legacy,     \* master.key, the plaintext file: None or Legacy
  ack,        \* key_backup.ack exists
  req,        \* thread -> the request it runs
  minted,     \* ghost: keys generated so far
  relied,     \* ghost: keys of records written without i_accept_no_backup
  zips,       \* ghost: keys in a zip the user received
  mishaps     \* ghost: "swap", "tear"

disk == <<sealed, legacy, ack>>
ghosts == <<minted, relied, zips, mishaps>>
vars == <<session, disk, req, ghosts>>

Kinds == {"read", "write", "force", "unlock", "setup", "export", "reset"}
Steps == {"idle", "take", "load", "mint", "taken", "gate", "put", "open",
          "check", "seal", "truncate", "store", "unlink", "zip",
          "download", "wipe", "wipeLegacy", "wipeAck"}

Free == [at |-> "idle", kind |-> "read", pw |-> None, key |-> None]

Init ==
  /\ session = None /\ sealed = None /\ ack = FALSE
  /\ legacy \in {None, Legacy}
  /\ req = [t \in Threads |-> Free]
  /\ minted = {} /\ zips = {} /\ mishaps = {}
  /\ relied = {legacy} \ {None}

At(t, step) == req[t].at = step
Goto(t, step) == req' = [req EXCEPT ![t].at = step]
GotoWith(t, step, key) == req' = [req EXCEPT ![t].at = step, ![t].key = key]
End(t) == req' = [req EXCEPT ![t] = Free]

OthersRun(t) == \E u \in Threads \ {t} : ~At(u, "idle")
Opens(k) == sealed \in Sealed /\ sealed.key = k

OthersAtMint(t) == \E u \in Threads \ {t} : At(u, "mint")

(* Ghost: what can part a key from its records. "swap": a request is about   *)
(* to mint, because there was no key, when another brings one in or seals    *)
(* one; an unlock mints over an unsealed key; a lock drops an unsealed key   *)
(* under a running request; a reset overlaps any. "tear": the process dies,  *)
(* or the write fails, between the truncation of the sealed file and the end *)
(* of its overwriting.                                                       *)
Noting(kind, bad) == mishaps' = IF bad THEN mishaps \cup {kind} ELSE mishaps

-----------------------------------------------------------------------------
(* A request comes in and takes its first branch.                            *)
Begin(t, kind, pw) ==
  /\ At(t, "idle")
  /\ LET first == CASE kind = "read" -> "take"
                    [] kind = "unlock" -> "open"
                    [] kind = "setup" /\ session # None -> "check"
                    [] kind = "setup" /\ session = None /\ sealed # None -> "open"
                    [] kind = "export" /\ session # None -> "check"
                    [] OTHER -> "take"
     IN  req' = [req EXCEPT ![t] = [at |-> first, kind |-> kind, pw |-> pw, key |-> None]]
  /\ kind \in {"write", "force", "export"} => session # None \/ sealed = None
  /\ Noting("swap", \E u \in Threads : req[u].kind = "reset")
  /\ UNCHANGED <<session, disk, minted, relied, zips>>

BeginAny(t) ==
  \/ \E kind \in {"read", "write", "force"} : Begin(t, kind, None)
  \/ \E kind \in {"unlock", "setup", "export"}, pw \in Passphrases : Begin(t, kind, pw)

(* ensure_session_key(): the key in memory, or none while one is sealed, or  *)
(* the plaintext file, or a new key.                                         *)
Take(t) ==
  /\ At(t, "take")
  /\ CASE session # None -> Goto(t, "taken")
       [] session = None /\ sealed # None -> End(t)
       [] session = None /\ sealed = None /\ legacy # None -> Goto(t, "load")
       [] OTHER -> Goto(t, "mint")
  /\ UNCHANGED <<session, disk, ghosts>>

(* Where a request goes on when it has just set SESSION_KEY.                 *)
AfterSet(t) == IF req[t].kind = "unlock" THEN "seal" ELSE "taken"

Load(t) ==
  /\ At(t, "load")
  /\ IF legacy = None
       THEN End(t) /\ UNCHANGED <<session, mishaps>>
       ELSE /\ session' = legacy
            /\ Noting("swap", OthersAtMint(t))
            /\ Goto(t, AfterSet(t))
  /\ UNCHANGED <<disk, minted, relied, zips>>

Mint(t) ==
  /\ At(t, "mint")
  /\ \E k \in Keys \ minted :
       /\ session' = k
       /\ minted' = minted \cup {k}
  /\ Noting("swap", OthersAtMint(t))
  /\ Goto(t, AfterSet(t))
  /\ UNCHANGED <<disk, relied, zips>>

(* What ensure_session_key returns is read from the global once more; the    *)
(* client a read or a write builds keeps that key. With no key it fails.     *)
Taken(t) ==
  /\ At(t, "taken")
  /\ CASE req[t].kind = "setup" -> Goto(t, "seal")
       [] req[t].kind = "export" -> Goto(t, "check")
       [] req[t].kind \in {"write", "force"} /\ session # None ->
            GotoWith(t, "gate", session)
       [] OTHER -> End(t)
  /\ UNCHANGED <<session, disk, ghosts>>

(* Mutant: either of the two conditions lets a write through. *)
GateEither(t) ==
  /\ At(t, "gate")
  /\ IF sealed # None \/ ack \/ req[t].kind = "force" THEN Goto(t, "put") ELSE End(t)
  /\ UNCHANGED <<session, disk, ghosts>>

(* /api/write asks for a sealed key and an acknowledged backup, or consent,  *)
(* and writes under the key it took before.                                  *)
Gate(t) ==
  /\ At(t, "gate")
  /\ IF (sealed # None /\ ack) \/ req[t].kind = "force" THEN Goto(t, "put") ELSE End(t)
  /\ UNCHANGED <<session, disk, ghosts>>

Put(t) ==
  /\ At(t, "put")
  /\ relied' = IF req[t].kind = "force" THEN relied ELSE relied \cup {req[t].key}
  /\ End(t)
  /\ UNCHANGED <<session, disk, minted, zips, mishaps>>

-----------------------------------------------------------------------------
(* Mutants: setup under a passphrase that does not open the sealed key makes *)
(* a new key; the plaintext key is not looked for.                           *)
OpenOrMint(t) ==
  /\ At(t, "open") /\ sealed # None
  /\ IF sealed \in Sealed /\ sealed.pw = req[t].pw
       THEN /\ session' = sealed.key
            /\ Noting("swap", OthersAtMint(t))
            /\ IF req[t].kind = "setup" THEN Goto(t, "zip") ELSE End(t)
       ELSE /\ IF req[t].kind = "setup" THEN Goto(t, "mint") ELSE End(t)
            /\ UNCHANGED <<session, mishaps>>
  /\ UNCHANGED <<disk, minted, relied, zips>>

OpenNothingMints(t) ==
  /\ At(t, "open") /\ sealed = None
  /\ Goto(t, "mint")
  /\ Noting("swap", session # None)
  /\ UNCHANGED <<session, disk, minted, relied, zips>>

(* unlock_session(): open the sealed key, or migrate the plaintext one, or   *)
(* mint the first one. A wrong passphrase and a torn file change nothing.    *)
Open(t) ==
  /\ At(t, "open") /\ sealed # None
  /\ IF sealed \in Sealed /\ sealed.pw = req[t].pw
       THEN /\ session' = sealed.key
            /\ Noting("swap", OthersAtMint(t))
            /\ IF req[t].kind = "setup" THEN Goto(t, "zip") ELSE End(t)
       ELSE End(t) /\ UNCHANGED <<session, mishaps>>
  /\ UNCHANGED <<disk, minted, relied, zips>>

OpenNothing(t) ==
  /\ At(t, "open") /\ sealed = None
  /\ Goto(t, IF legacy # None THEN "load" ELSE "mint")
  /\ Noting("swap", session # None)
  /\ UNCHANGED <<session, disk, minted, relied, zips>>

(* setup and export seal only when nothing is sealed or plaintext remains.   *)
Check(t) ==
  /\ At(t, "check")
  /\ Goto(t, IF sealed = None \/ legacy # None THEN "seal" ELSE "zip")
  /\ UNCHANGED <<session, disk, ghosts>>

(* seal_at_rest(): read the key, overwrite the file in place, then remove    *)
(* the plaintext, which may fail.                                            *)
Seal(t) ==
  /\ At(t, "seal")
  /\ IF session = None THEN End(t) ELSE GotoWith(t, "truncate", session)
  /\ UNCHANGED <<session, disk, ghosts>>

Truncate(t) ==
  /\ At(t, "truncate")
  /\ sealed' = Torn
  /\ Goto(t, "store")
  /\ Noting("swap", OthersAtMint(t))
  /\ UNCHANGED <<session, legacy, ack, minted, relied, zips>>

Store(t) ==
  /\ At(t, "store")
  /\ sealed' = [key |-> req[t].key, pw |-> req[t].pw]
  /\ Goto(t, "unlink")
  /\ UNCHANGED <<session, legacy, ack, ghosts>>

(* The file cannot be opened for writing, or the write fails and the request *)
(* is answered with an error: what was cut off stays cut off.                *)
SealFails(t) ==
  /\ \/ At(t, "truncate") /\ UNCHANGED <<sealed, mishaps>>
     \/ At(t, "store") /\ sealed' \in {sealed, Torn} /\ Noting("tear", TRUE)
  /\ End(t)
  /\ UNCHANGED <<session, legacy, ack, minted, relied, zips>>

Unlink(t) ==
  /\ At(t, "unlink")
  /\ legacy' \in {None, legacy}
  /\ IF req[t].kind = "unlock" THEN End(t) ELSE Goto(t, "zip")
  /\ UNCHANGED <<session, sealed, ack, ghosts>>

(* The zip is made of the key in memory; the acknowledgement is written      *)
(* before the answer that carries the zip, which may never arrive.           *)
Zip(t) ==
  /\ At(t, "zip")
  /\ IF session = None
       THEN End(t) /\ UNCHANGED ack
       ELSE GotoWith(t, "download", session) /\ ack' = TRUE
  /\ UNCHANGED <<session, sealed, legacy, ghosts>>

Download(t) ==
  /\ At(t, "download")
  /\ zips' \in {zips, zips \cup {req[t].key}}
  /\ End(t)
  /\ UNCHANGED <<session, disk, minted, relied, mishaps>>

-----------------------------------------------------------------------------
(* /api/key/ack: the page says so.                                           *)
Ack ==
  /\ ack' = TRUE
  /\ UNCHANGED <<session, sealed, legacy, req, ghosts>>

(* /api/key/lock. Nothing asks whether the key is on disk.                   *)
Lock(t) ==
  /\ At(t, "idle")
  /\ session' = None
  /\ Noting("swap", session # None /\ OthersRun(t) /\ ~Opens(session))
  /\ UNCHANGED <<disk, req, minted, relied, zips>>

(* /api/key/reset, "start over": the user gives up what is written, and the  *)
(* key goes from memory and from the disk, file by file.                     *)
Reset(t) ==
  /\ At(t, "idle")
  /\ session' = None
  /\ relied' = {}
  /\ Noting("swap", OthersRun(t))
  /\ req' = [req EXCEPT ![t] = [Free EXCEPT !.at = "wipe", !.kind = "reset"]]
  /\ UNCHANGED <<disk, minted, zips>>

Wipe(t) ==
  /\ At(t, "wipe")
  /\ sealed' = None
  /\ Goto(t, "wipeLegacy")
  /\ UNCHANGED <<session, legacy, ack, ghosts>>

WipeLegacy(t) ==
  /\ At(t, "wipeLegacy")
  /\ legacy' = None
  /\ Goto(t, "wipeAck")
  /\ UNCHANGED <<session, sealed, ack, ghosts>>

WipeAck(t) ==
  /\ At(t, "wipeAck")
  /\ ack' = FALSE
  /\ End(t)
  /\ UNCHANGED <<session, sealed, legacy, ghosts>>

(* The process dies and is started again.                                    *)
Restart ==
  /\ session' = None
  /\ req' = [t \in Threads |-> Free]
  /\ Noting("tear", \E t \in Threads : At(t, "store"))
  /\ UNCHANGED <<disk, minted, relied, zips>>

Next ==
  \/ Ack \/ Restart
  \/ \E t \in Threads :
       \/ BeginAny(t)
       \/ Take(t) \/ Load(t) \/ Mint(t) \/ Taken(t) \/ Gate(t) \/ Put(t)
       \/ Open(t) \/ OpenNothing(t) \/ Check(t)
       \/ Seal(t) \/ Truncate(t) \/ Store(t) \/ SealFails(t) \/ Unlink(t)
       \/ Zip(t) \/ Download(t)
       \/ Lock(t) \/ Reset(t) \/ Wipe(t) \/ WipeLegacy(t) \/ WipeAck(t)

Spec == Init /\ [][Next]_vars

-----------------------------------------------------------------------------
(* Types.                                                                    *)
TypeOK ==
  /\ session \in AllKeys \cup {None}
  /\ sealed \in Sealed \cup {None, Torn}
  /\ legacy \in {None, Legacy}
  /\ ack \in BOOLEAN
  /\ req \in [Threads -> [at : Steps, kind : Kinds, pw : Passphrases \cup {None},
                          key : AllKeys \cup {None}]]
  /\ minted \subseteq Keys
  /\ relied \subseteq AllKeys /\ zips \subseteq AllKeys
  /\ mishaps \subseteq {"swap", "tear"}

Calm == "swap" \notin mishaps
Storing == {req[t].key : t \in {u \in Threads : At(u, "store")}}
OnDisk == {k \in AllKeys : Opens(k) \/ legacy = k}

(* A record written without accepting the loss is under a key that can be    *)
(* had again from the disk or from a zip.                                    *)
ReliedOnIsKept ==
  mishaps = {} => relied \subseteq OnDisk \cup zips \cup Storing

(* The key in memory is the key on disk.                                     *)
MemoryIsDisk ==
  Calm /\ session # None /\ sealed \in Sealed => sealed.key = session

(* The sealed file and the plaintext one are never of different keys.        *)
OneKeyOnDisk == Cardinality(OnDisk) <= 1

(* One key: in memory, in the sealed file and in the plaintext one, whatever *)
(* requests of setup, unlock, lock and start over run into one another.      *)
OneKey == MemoryIsDisk /\ OneKeyOnDisk

OnlyItsPassphraseUnlocks ==
  Calm' /\ session = None /\ session' # None /\ sealed # None
    => \/ \E t \in Threads :
            At(t, "open") /\ sealed = [key |-> session', pw |-> req[t].pw]
       \/ session' = legacy

OnlyStartingOverReplaces ==
  Calm' /\ sealed \in Sealed
    => \/ sealed.key \in OnDisk' \cup Storing'
       \/ sealed' = None /\ \E t \in Threads : At(t, "wipe")
       \/ sealed' = Torn /\ "tear" \in mishaps'

(* While a key is sealed and not in memory, only its passphrase brings a key *)
(* back, and no other key, but that a request which found nothing sealed and *)
(* is about to load the plaintext file may still load it, and so undo a lock *)
(* that came meanwhile; and a sealed key goes from the file only to another  *)
(* request that is writing it back, by a torn write, or by starting over.    *)
LockHolds == [][OnlyItsPassphraseUnlocks /\ OnlyStartingOverReplaces]_vars
==============================================================================
