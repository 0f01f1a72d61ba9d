----------------------------- MODULE AppKeys_proof -----------------------------
(* For any number of requests, of keys and of passphrases: one key at rest    *)
(* whatever happens, one key in memory and at rest in the absence of a swap,  *)
(* that a locked key stays, and that no record relied on is left without its  *)
(* key.                                                                       *)
(*                                                                            *)
(* A request that has read the key carries it over steps in which others may  *)
(* change it, in memory and on disk. So the argument is about all keys that   *)
(* are in use at once, which are one (Agree), and about what keeps another    *)
(* one from being minted beside it: a key that is carried is in memory or     *)
(* under seal (Anchored), and nothing is minted while either holds one.       *)
EXTENDS AppKeys, TLAPS, FiniteSetTheorems

USE KeyAssumption

Sealing == {"open", "check", "seal", "truncate", "store", "unlink", "zip", "download"}
Asking == {"unlock", "setup", "export"}
Wiping == {"wipe", "wipeLegacy", "wipeAck"}
Carrying == {"gate", "put", "truncate", "store"}
Carries(t) == req[t].at \in Carrying

\* A request is at a step of its kind, with the passphrase and key it needs.
Fits ==
  \A t \in Threads :
    /\ req[t].at \in Sealing => req[t].kind \in Asking
    /\ req[t].kind \in Asking => req[t].pw \in Passphrases
    /\ req[t].at \in {"gate", "put"} => req[t].kind \in {"write", "force"}
    /\ req[t].kind = "reset" <=> req[t].at \in Wiping
    /\ req[t].at \in Carrying \cup {"download"} => req[t].key \in AllKeys

\* Nobody writes the plaintext file: what is minted is minted without it.
Known == minted \cup {Legacy}
LegacyGoes ==
  /\ minted # {} => legacy = None
  /\ \A t \in Threads : At(t, "mint") => legacy = None
  /\ session \in Known \cup {None}
  /\ sealed \in Sealed => sealed.key \in Known
  /\ \A t \in Threads : req[t].key \in Known \cup {None}

\* Every key in use is k.
AgreeOn(k) ==
  /\ session \in {k, None} /\ legacy \in {k, None}
  /\ sealed \in Sealed => sealed.key = k
  /\ \A t \in Threads : Carries(t) => req[t].key = k
Agree == \E k \in AllKeys : AgreeOn(k)

Anchored ==
  \A t \in Threads :
    /\ Carries(t) => session # None \/ sealed # None
    /\ req[t].at \in {"store", "unlink"} => sealed # None
    /\ At(t, "mint") => session = None /\ sealed = None

\* Who starts over is alone.
WipesAlone ==
  \A t \in Threads : req[t].kind = "reset" => relied = {} /\ ~OthersRun(t)

OneInUse == Calm => Agree /\ Anchored /\ WipesAlone

\* What is relied on can be had again, and a write that will be relied on is
\* under a sealed key.
CanBeHad(k) ==
  k \in zips \/ Opens(k) \/ legacy = k \/ \E t \in Threads : At(t, "store") /\ req[t].key = k
Kept ==
  mishaps = {} =>
    /\ \A k \in relied : CanBeHad(k)
    /\ sealed = Torn => \E t \in Threads : At(t, "store")
    /\ \A t \in Threads : At(t, "put") /\ req[t].kind = "write" => sealed # None

IInv == TypeOK /\ Fits /\ LegacyGoes /\ OneInUse /\ Kept

-----------------------------------------------------------------------------
(* What a step does to the requests: t's is now r, the others are as before.  *)
Requests == [at : Steps, kind : Kinds, pw : Passphrases \cup {None}, key : AllKeys \cup {None}]
Moved(t, at, kind, pw, key) ==
  /\ req' \in [Threads -> Requests]
  /\ req'[t].at = at /\ req'[t].kind = kind /\ req'[t].pw = pw /\ req'[t].key = key
  /\ \A u \in Threads \ {t} : req'[u] = req[u]

LEMMA GotoMoves ==
  ASSUME TypeOK, NEW t \in Threads, NEW step \in Steps, Goto(t, step)
  PROVE  Moved(t, step, req[t].kind, req[t].pw, req[t].key)
<1>1. req \in [Threads -> Requests] /\ req' = [req EXCEPT ![t].at = step]
  BY DEF TypeOK, Goto, Requests
<1>2. req'[t] = [req[t] EXCEPT !.at = step] /\ req[t] \in Requests
  BY <1>1
<1>3. req'[t] \in Requests
  BY <1>2 DEF Requests
<1>4. QED
  BY <1>1, <1>2, <1>3 DEF Moved, Requests

LEMMA GotoWithMoves ==
  ASSUME TypeOK, NEW t \in Threads, NEW step \in Steps, NEW key \in AllKeys, GotoWith(t, step, key)
  PROVE  Moved(t, step, req[t].kind, req[t].pw, key)
<1>1. req \in [Threads -> Requests] /\ req' = [req EXCEPT ![t].at = step, ![t].key = key]
  BY DEF TypeOK, GotoWith, Requests
<1>2. req'[t] = [req[t] EXCEPT !.at = step, !.key = key] /\ req[t] \in Requests
  BY <1>1
<1>3. req'[t] \in Requests
  BY <1>2 DEF Requests
<1>4. QED
  BY <1>1, <1>2, <1>3 DEF Moved, Requests

LEMMA FreeMoves ==
  ASSUME TypeOK, NEW t \in Threads, NEW at \in Steps, NEW kind \in Kinds, NEW pw \in Passphrases \cup {None},
         req' = [req EXCEPT ![t] = [at |-> at, kind |-> kind, pw |-> pw, key |-> None]]
  PROVE  Moved(t, at, kind, pw, None)
BY DEF TypeOK, Moved, Requests

LEMMA EndMoves ==
  ASSUME TypeOK, NEW t \in Threads, End(t)
  PROVE  Moved(t, "idle", "read", None, None)
BY FreeMoves DEF End, Free, Steps, Kinds

LEMMA CalmBefore ==
  ASSUME NEW kind, NEW bad, Noting(kind, bad)
  PROVE  /\ Calm' => Calm /\ (kind = "swap" => ~bad)
         /\ mishaps' = {} => mishaps = {} /\ ~bad
BY DEF Noting, Calm

-----------------------------------------------------------------------------
LEMMA InitIsRight == Init => IInv
<1>1. SUFFICES ASSUME Init PROVE IInv
  OBVIOUS
<1>2. TypeOK
  BY <1>1 DEF Init, TypeOK, Free, Steps, Kinds, AllKeys
<1>3. Fits /\ LegacyGoes
  BY <1>1 DEF Init, Fits, LegacyGoes, Free, Sealing, Asking, Wiping, Carrying, At, Known
<1>4. OneInUse
  <2>1. AgreeOn(Legacy) /\ Legacy \in AllKeys
    BY <1>1 DEF Init, AgreeOn, Carries, Carrying, Free, AllKeys
  <2>2. QED
    BY <1>1, <2>1 DEF OneInUse, Agree, Anchored, WipesAlone, Init, Free, At, Carries, Carrying
<1>5. Kept
  BY <1>1 DEF Init, Kept, CanBeHad, At, Free
<1>6. QED
  BY <1>2, <1>3, <1>4, <1>5 DEF IInv

(* Most steps leave the keys in memory and on disk as they are. What is asked *)
(* of them is about the step that t comes to.                                 *)
Onward(t, at, kind, pw, key) ==
  /\ Moved(t, at, kind, pw, key)
  /\ req[t].kind # "reset" /\ kind # "reset" /\ at \notin Wiping
  /\ at \in Sealing => kind \in Asking
  /\ kind \in Asking => pw \in Passphrases
  /\ at \in {"gate", "put"} => kind \in {"write", "force"}
  /\ at \in Carrying \cup {"download"} => key \in AllKeys
  /\ key \in {None, session, req[t].key}
  /\ at \in Carrying => key = session \/ (Carries(t) /\ key = req[t].key)
  /\ at \notin {"store", "unlink"} /\ ~At(t, "store")

LEMMA QuietKeeps ==
  ASSUME IInv, NEW t \in Threads, NEW at, NEW kind, NEW pw, NEW key, Onward(t, at, kind, pw, key),
         UNCHANGED <<session, sealed, legacy, minted>>, ack' \in BOOLEAN,
         zips \subseteq zips', zips' \subseteq AllKeys, relied \subseteq relied', relied' \subseteq AllKeys,
         mishaps = {} => \A k \in relied' \ relied : CanBeHad(k),
         mishaps' \subseteq {"swap", "tear"}, Calm' => Calm, mishaps' = {} => mishaps = {},
         At(t, "idle") /\ Calm' => \A u \in Threads : req[u].kind # "reset",
         at = "mint" => legacy = None /\ (Calm' => session = None /\ sealed = None),
         at = "put" /\ kind = "write" => sealed # None
  PROVE  IInv'
<1> USE DEF Onward
<1>1. TypeOK'
  BY DEF IInv, TypeOK, Moved, Requests
<1>2. Fits'
  BY DEF IInv, Fits, Moved, Wiping
<1>3. LegacyGoes'
  BY DEF IInv, LegacyGoes, Moved, At, Known
<1>4. OneInUse'
  <2>1. SUFFICES ASSUME Calm' PROVE Agree' /\ Anchored' /\ WipesAlone'
    BY DEF OneInUse
  <2>2. Agree'
    <3>1. PICK k \in AllKeys : AgreeOn(k)
      BY <2>1 DEF IInv, OneInUse, Agree
    <3>2. AgreeOn(k)'
      BY <3>1 DEF AgreeOn, Carries, Carrying, Moved
    <3>3. QED
      BY <3>2 DEF Agree
  <2>3. Anchored'
    BY <2>1 DEF IInv, OneInUse, Anchored, Carries, Carrying, Moved, At
  <2>4. WipesAlone'
    <3>1. \A u \in Threads : req[u].kind # "reset"
      BY <2>1 DEF IInv, OneInUse, WipesAlone, OthersRun
    <3>2. QED
      BY <3>1 DEF WipesAlone, Moved
  <2>5. QED
    BY <2>2, <2>3, <2>4
<1>5. Kept'
  <2>1. SUFFICES ASSUME mishaps' = {} PROVE Kept'
    BY DEF Kept
  <2>2. ASSUME NEW k, CanBeHad(k) PROVE CanBeHad(k)'
    BY <2>2 DEF CanBeHad, Opens, Moved, At
  <2>3. \A k \in relied' : CanBeHad(k)'
    BY <2>1, <2>2 DEF IInv, Kept
  <2>4. QED
    BY <2>1, <2>3 DEF IInv, Kept, Moved, At
<1>6. QED
  BY <1>1, <1>2, <1>3, <1>4, <1>5 DEF IInv

LEMMA BeginKeeps ==
  ASSUME IInv, NEW t \in Threads, NEW kind \in Kinds \ {"reset"}, NEW pw \in Passphrases \cup {None},
         kind \in Asking => pw \in Passphrases, Begin(t, kind, pw)
  PROVE  IInv'
<1>1. PICK first \in {"take", "open", "check"} :
        /\ req' = [req EXCEPT ![t] = [at |-> first, kind |-> kind, pw |-> pw, key |-> None]]
        /\ first # "take" => kind \in Asking
  BY DEF Begin, Asking, Kinds
<1>2. Moved(t, first, kind, pw, None)
  BY <1>1, FreeMoves DEF IInv, Steps
<1>3. /\ UNCHANGED <<session, sealed, legacy, ack, minted, relied, zips>> /\ At(t, "idle")
      /\ Noting("swap", \E u \in Threads : req[u].kind = "reset")
  BY DEF Begin, disk
<1>4. Onward(t, first, kind, pw, None)
  BY <1>1, <1>2, <1>3 DEF Onward, At, IInv, Fits, Sealing, Wiping, Carrying
<1>5. Calm' => Calm /\ \A u \in Threads : req[u].kind # "reset"
  BY <1>3, CalmBefore
<1>6. (mishaps' = {} => mishaps = {}) /\ mishaps' \subseteq {"swap", "tear"}
  BY <1>3 DEF Noting, IInv, TypeOK
<1>7. ack \in BOOLEAN /\ zips \subseteq AllKeys /\ relied \subseteq AllKeys
  BY DEF IInv, TypeOK
<1>8. first \notin {"mint", "put"}
  OBVIOUS
<1>9. QED
  BY <1>3, <1>4, <1>5, <1>6, <1>7, <1>8, QuietKeeps

(* The same, of a step that writes nothing at all.                            *)
LEMMA SilentKeeps ==
  ASSUME IInv, NEW t \in Threads, NEW at, NEW kind, NEW pw, NEW key, Onward(t, at, kind, pw, key),
         UNCHANGED <<session, disk, ghosts>>, ~At(t, "idle"),
         at = "mint" => legacy = None /\ session = None /\ sealed = None,
         at = "put" /\ kind = "write" => sealed # None
  PROVE  IInv'
<1>1. /\ UNCHANGED <<session, sealed, legacy, ack, minted, relied, zips, mishaps>>
      /\ Calm' => Calm
  BY DEF disk, ghosts, Calm
<1>2. ack \in BOOLEAN /\ zips \subseteq AllKeys /\ relied \subseteq AllKeys /\ mishaps \subseteq {"swap", "tear"}
  BY DEF IInv, TypeOK
<1>3. QED
  BY <1>1, <1>2, QuietKeeps

LEMMA TakeKeeps == ASSUME IInv, NEW t \in Threads, Take(t) PROVE IInv'
<1>1. At(t, "take") /\ UNCHANGED <<session, disk, ghosts>> /\ TypeOK
  BY DEF Take, IInv
<1>2. CASE End(t)
  <2>1. Onward(t, "idle", "read", None, None)
    BY <1>1, <1>2, EndMoves DEF Onward, At, IInv, Fits, Sealing, Asking, Wiping, Carrying
  <2>2. QED
    BY <1>1, <2>1, SilentKeeps DEF At
<1>3. ASSUME NEW step \in {"taken", "load", "mint"}, Goto(t, step),
             step = "mint" => session = None /\ sealed = None /\ legacy = None
      PROVE  IInv'
  <2>1. Onward(t, step, req[t].kind, req[t].pw, req[t].key)
    BY <1>1, <1>3, GotoMoves DEF Onward, At, Steps, IInv, Fits, Sealing, Wiping, Carrying
  <2>2. QED
    BY <1>1, <1>3, <2>1, SilentKeeps DEF At
<1>4. QED
  BY <1>2, <1>3 DEF Take

LEMMA TakenKeeps == ASSUME IInv, NEW t \in Threads, Taken(t) PROVE IInv'
<1>1. At(t, "taken") /\ UNCHANGED <<session, disk, ghosts>> /\ TypeOK
  BY DEF Taken, IInv
<1>2. CASE End(t)
  <2>1. Onward(t, "idle", "read", None, None)
    BY <1>1, <1>2, EndMoves DEF Onward, At, IInv, Fits, Sealing, Asking, Wiping, Carrying
  <2>2. QED
    BY <1>1, <2>1, SilentKeeps DEF At
<1>3. ASSUME NEW step \in {"seal", "check"}, Goto(t, step), req[t].kind \in Asking
      PROVE  IInv'
  <2>1. Onward(t, step, req[t].kind, req[t].pw, req[t].key)
    BY <1>1, <1>3, GotoMoves DEF Onward, At, Steps, IInv, Fits, Sealing, Wiping, Carrying
  <2>2. QED
    BY <1>1, <1>3, <2>1, SilentKeeps DEF At
<1>4. ASSUME GotoWith(t, "gate", session), session # None, req[t].kind \in {"write", "force"}
      PROVE  IInv'
  <2>1. session \in AllKeys
    BY <1>1, <1>4 DEF TypeOK
  <2>2. Moved(t, "gate", req[t].kind, req[t].pw, session)
    BY <1>1, <1>4, <2>1, GotoWithMoves DEF Steps
  <2>3. Onward(t, "gate", req[t].kind, req[t].pw, session)
    BY <1>1, <1>4, <2>1, <2>2 DEF Onward, At, IInv, Fits, Sealing, Asking, Wiping, Carrying
  <2>4. QED
    BY <1>1, <2>3, SilentKeeps DEF At
<1>5. QED
  BY <1>2, <1>3, <1>4 DEF Taken, Asking

LEMMA GateKeeps == ASSUME IInv, NEW t \in Threads, Gate(t) PROVE IInv'
<1>1. At(t, "gate") /\ UNCHANGED <<session, disk, ghosts>> /\ TypeOK
  BY DEF Gate, IInv
<1>2. CASE End(t)
  <2>1. Onward(t, "idle", "read", None, None)
    BY <1>1, <1>2, EndMoves DEF Onward, At, IInv, Fits, Sealing, Asking, Wiping, Carrying
  <2>2. QED
    BY <1>1, <2>1, SilentKeeps DEF At
<1>3. CASE Goto(t, "put") /\ (sealed # None \/ req[t].kind = "force")
  <2>1. Onward(t, "put", req[t].kind, req[t].pw, req[t].key)
    BY <1>1, <1>3, GotoMoves DEF Onward, At, Steps, IInv, Fits, Sealing, Wiping, Carrying, Carries
  <2>2. QED
    BY <1>1, <1>3, <2>1, SilentKeeps DEF At
<1>4. QED
  BY <1>2, <1>3 DEF Gate

(* What is written under a sealed key can be had again: the file has it, or   *)
(* the request that is writing the file.                                      *)
LEMMA PutKeeps == ASSUME IInv, NEW t \in Threads, Put(t) PROVE IInv'
<1>1. /\ At(t, "put") /\ End(t) /\ UNCHANGED <<session, disk, minted, zips, mishaps>>
      /\ relied' = IF req[t].kind = "force" THEN relied ELSE relied \cup {req[t].key}
  BY DEF Put
<1>2. Onward(t, "idle", "read", None, None)
  BY <1>1, EndMoves DEF Onward, At, IInv, Fits, Sealing, Asking, Wiping, Carrying
<1>3. req[t].key \in AllKeys /\ req[t].kind \in {"write", "force"}
  BY <1>1 DEF IInv, Fits, At, Carrying
<1>4. ASSUME mishaps = {}, req[t].kind = "write" PROVE CanBeHad(req[t].key)
  <2>1. PICK k \in AllKeys : AgreeOn(k)
    BY <1>4 DEF IInv, OneInUse, Agree, Calm
  <2>2. req[t].key = k /\ sealed # None
    BY <1>1, <1>4, <2>1 DEF AgreeOn, Carries, Carrying, At, IInv, Kept
  <2>3. CASE sealed \in Sealed
    BY <2>1, <2>2, <2>3 DEF AgreeOn, CanBeHad, Opens
  <2>4. CASE sealed = Torn
    BY <1>4, <2>1, <2>2, <2>4 DEF AgreeOn, CanBeHad, IInv, Kept, At, Carries, Carrying
  <2>5. QED
    BY <2>2, <2>3, <2>4 DEF IInv, TypeOK
<1>5. relied \subseteq relied' /\ relied' \subseteq AllKeys /\ (mishaps = {} => \A k \in relied' \ relied : CanBeHad(k))
  BY <1>1, <1>3, <1>4 DEF IInv, TypeOK
<1>6. /\ UNCHANGED <<session, sealed, legacy, ack, minted, zips, mishaps>>
      /\ Calm' => Calm
  BY <1>1 DEF disk, Calm
<1>7. ack \in BOOLEAN /\ zips \subseteq AllKeys /\ mishaps \subseteq {"swap", "tear"} /\ ~At(t, "idle")
  BY <1>1 DEF IInv, TypeOK, At
<1>8. QED
  BY <1>2, <1>5, <1>6, <1>7, QuietKeeps

LEMMA OpenNothingKeeps == ASSUME IInv, NEW t \in Threads, OpenNothing(t) PROVE IInv'
<1>1. PICK step \in {"load", "mint"} :
        /\ At(t, "open") /\ sealed = None /\ Goto(t, step)
        /\ step = "mint" => legacy = None
        /\ Noting("swap", session # None)
        /\ UNCHANGED <<session, disk, minted, relied, zips>>
  BY DEF OpenNothing
<1>2. Onward(t, step, req[t].kind, req[t].pw, req[t].key)
  BY <1>1, GotoMoves DEF Onward, At, Steps, IInv, Fits, Sealing, Wiping, Carrying
<1>3. (Calm' => Calm /\ session = None) /\ (mishaps' = {} => mishaps = {}) /\ mishaps' \subseteq {"swap", "tear"}
  BY <1>1, CalmBefore DEF Noting, IInv, TypeOK
<1>4. /\ UNCHANGED <<session, sealed, legacy, ack, minted, relied, zips>>
      /\ ack \in BOOLEAN /\ zips \subseteq AllKeys /\ relied \subseteq AllKeys /\ ~At(t, "idle")
  BY <1>1 DEF disk, IInv, TypeOK, At
<1>5. QED
  BY <1>1, <1>2, <1>3, <1>4, QuietKeeps

LEMMA CheckKeeps == ASSUME IInv, NEW t \in Threads, Check(t) PROVE IInv'
<1>1. PICK step \in {"seal", "zip"} : Goto(t, step)
  BY DEF Check
<1>2. At(t, "check") /\ UNCHANGED <<session, disk, ghosts>>
  BY DEF Check
<1>3. Onward(t, step, req[t].kind, req[t].pw, req[t].key)
  BY <1>1, <1>2, GotoMoves DEF Onward, At, Steps, IInv, Fits, Sealing, Wiping, Carrying
<1>4. QED
  BY <1>2, <1>3, SilentKeeps DEF At

LEMMA SealKeeps == ASSUME IInv, NEW t \in Threads, Seal(t) PROVE IInv'
<1>1. At(t, "seal") /\ UNCHANGED <<session, disk, ghosts>> /\ TypeOK
  BY DEF Seal, IInv
<1>2. CASE End(t)
  <2>1. Onward(t, "idle", "read", None, None)
    BY <1>1, <1>2, EndMoves DEF Onward, At, IInv, Fits, Sealing, Asking, Wiping, Carrying
  <2>2. QED
    BY <1>1, <2>1, SilentKeeps DEF At
<1>3. CASE session # None /\ GotoWith(t, "truncate", session)
  <2>1. session \in AllKeys
    BY <1>1, <1>3 DEF TypeOK
  <2>2. Moved(t, "truncate", req[t].kind, req[t].pw, session)
    BY <1>1, <1>3, <2>1, GotoWithMoves DEF Steps
  <2>3. Onward(t, "truncate", req[t].kind, req[t].pw, session)
    BY <1>1, <2>1, <2>2 DEF Onward, At, IInv, Fits, Sealing, Wiping, Carrying
  <2>4. QED
    BY <1>1, <2>3, SilentKeeps DEF At
<1>4. QED
  BY <1>2, <1>3 DEF Seal

LEMMA ZipKeeps == ASSUME IInv, NEW t \in Threads, Zip(t) PROVE IInv'
<1>1. At(t, "zip") /\ UNCHANGED <<session, sealed, legacy, ghosts>> /\ TypeOK
  BY DEF Zip, IInv
<1>2. CASE End(t) /\ UNCHANGED ack
  <2>1. Onward(t, "idle", "read", None, None)
    BY <1>1, <1>2, EndMoves DEF Onward, At, IInv, Fits, Sealing, Asking, Wiping, Carrying
  <2>2. QED
    BY <1>1, <1>2, <2>1, SilentKeeps DEF At, disk
<1>3. CASE session # None /\ GotoWith(t, "download", session) /\ ack' = TRUE
  <2>1. session \in AllKeys
    BY <1>1, <1>3 DEF TypeOK
  <2>2. Moved(t, "download", req[t].kind, req[t].pw, session)
    BY <1>1, <1>3, <2>1, GotoWithMoves DEF Steps
  <2>3. Onward(t, "download", req[t].kind, req[t].pw, session)
    BY <1>1, <2>1, <2>2 DEF Onward, At, IInv, Fits, Sealing, Wiping, Carrying
  <2>4. /\ UNCHANGED <<session, sealed, legacy, minted, relied, zips, mishaps>> /\ ~At(t, "idle")
        /\ zips \subseteq AllKeys /\ relied \subseteq AllKeys /\ mishaps \subseteq {"swap", "tear"}
        /\ Calm' => Calm
    BY <1>1 DEF ghosts, At, TypeOK, Calm
  <2>5. QED
    BY <1>3, <2>3, <2>4, QuietKeeps
<1>4. QED
  BY <1>2, <1>3 DEF Zip

LEMMA DownloadKeeps == ASSUME IInv, NEW t \in Threads, Download(t) PROVE IInv'
<1>1. /\ At(t, "download") /\ End(t) /\ UNCHANGED <<session, sealed, legacy, ack, minted, relied, mishaps>>
      /\ zips' \in {zips, zips \cup {req[t].key}}
  BY DEF Download, disk
<1>2. Onward(t, "idle", "read", None, None)
  BY <1>1, EndMoves DEF Onward, At, IInv, Fits, Sealing, Asking, Wiping, Carrying
<1>3. zips \subseteq zips' /\ zips' \subseteq AllKeys
  BY <1>1 DEF IInv, TypeOK, Fits, At
<1>4. /\ ack \in BOOLEAN /\ relied \subseteq AllKeys /\ mishaps \subseteq {"swap", "tear"} /\ ~At(t, "idle")
      /\ Calm' => Calm
  BY <1>1 DEF IInv, TypeOK, At, Calm
<1>5. QED
  BY <1>1, <1>2, <1>3, <1>4, QuietKeeps

-----------------------------------------------------------------------------
(* A step that brings the key at rest into memory.                            *)
LEMMA BringsKeyIn ==
  ASSUME IInv, NEW t \in Threads, NEW at, NEW kind, NEW pw, NEW key, Onward(t, at, kind, pw, key),
         at \notin Carrying \cup {"mint"}, key \in {None, req[t].key}, ~At(t, "idle"),
         UNCHANGED <<sealed, legacy, ack, minted, relied, zips>>,
         Noting("swap", OthersAtMint(t)),
         session' \in AllKeys, legacy = session' \/ Opens(session')
  PROVE  IInv'
<1> USE DEF Onward
<1>1. TypeOK'
  BY DEF IInv, TypeOK, Moved, Requests, Noting
<1>2. Fits'
  BY DEF IInv, Fits, Moved, Wiping
<1>3. LegacyGoes'
  BY DEF IInv, TypeOK, LegacyGoes, Moved, At, Known, Opens
<1>4. (Calm' => Calm /\ ~OthersAtMint(t)) /\ (mishaps' = {} => mishaps = {})
  BY CalmBefore
<1>5. OneInUse'
  <2>1. SUFFICES ASSUME Calm' PROVE Agree' /\ Anchored' /\ WipesAlone'
    BY DEF OneInUse
  <2>2. Agree'
    <3>1. PICK k \in AllKeys : AgreeOn(k)
      BY <1>4, <2>1 DEF IInv, OneInUse, Agree
    <3>2. session' = k
      BY <3>1 DEF AgreeOn, Opens
    <3>3. AgreeOn(k)'
      BY <3>1, <3>2 DEF AgreeOn, Carries, Carrying, Moved
    <3>4. QED
      BY <3>3 DEF Agree
  <2>3. Anchored'
    BY <1>4, <2>1 DEF IInv, OneInUse, Anchored, Carries, Carrying, Moved, At, OthersAtMint
  <2>4. WipesAlone'
    <3>1. \A u \in Threads : req[u].kind # "reset"
      BY <1>4, <2>1 DEF IInv, OneInUse, WipesAlone, OthersRun
    <3>2. QED
      BY <3>1 DEF WipesAlone, Moved
  <2>5. QED
    BY <2>2, <2>3, <2>4
<1>6. Kept'
  BY <1>4 DEF IInv, Kept, CanBeHad, Opens, Moved, At, Carrying
<1>7. QED
  BY <1>1, <1>2, <1>3, <1>5, <1>6 DEF IInv

LEMMA LoadKeeps == ASSUME IInv, NEW t \in Threads, Load(t) PROVE IInv'
<1>1. At(t, "load") /\ UNCHANGED <<sealed, legacy, ack, minted, relied, zips>> /\ TypeOK
  BY DEF Load, IInv, disk
<1>2. CASE End(t) /\ UNCHANGED <<session, mishaps>>
  <2>1. Onward(t, "idle", "read", None, None)
    BY <1>1, <1>2, EndMoves DEF Onward, At, IInv, Fits, Sealing, Asking, Wiping, Carrying
  <2>2. QED
    BY <1>1, <1>2, <2>1, SilentKeeps DEF At, disk, ghosts
<1>3. CASE session' = legacy /\ legacy # None /\ Noting("swap", OthersAtMint(t)) /\ Goto(t, AfterSet(t))
  <2>1. PICK step \in {"seal", "taken"} : Goto(t, step) /\ (step = "seal" => req[t].kind = "unlock")
    BY <1>3 DEF AfterSet
  <2>2. Onward(t, step, req[t].kind, req[t].pw, req[t].key)
    BY <1>1, <2>1, GotoMoves DEF Onward, At, Steps, IInv, Fits, Sealing, Asking, Wiping, Carrying
  <2>3. session' \in AllKeys /\ ~At(t, "idle")
    BY <1>1, <1>3 DEF TypeOK, AllKeys, At
  <2>4. QED
    BY <1>1, <1>3, <2>2, <2>3, BringsKeyIn DEF Carrying
<1>4. QED
  BY <1>2, <1>3 DEF Load

LEMMA OpenKeeps == ASSUME IInv, NEW t \in Threads, Open(t) PROVE IInv'
<1>1. At(t, "open") /\ UNCHANGED <<sealed, legacy, ack, minted, relied, zips>> /\ TypeOK
  BY DEF Open, IInv, disk
<1>2. End(t) => Onward(t, "idle", "read", None, None)
  BY <1>1, EndMoves DEF Onward, At, IInv, Fits, Sealing, Asking, Wiping, Carrying
<1>3. CASE End(t) /\ UNCHANGED <<session, mishaps>>
  BY <1>1, <1>2, <1>3, SilentKeeps DEF At, disk, ghosts
<1>4. CASE /\ sealed \in Sealed /\ session' = sealed.key
           /\ Noting("swap", OthersAtMint(t)) /\ (End(t) \/ Goto(t, "zip"))
  <2>1. session' \in AllKeys /\ Opens(session') /\ ~At(t, "idle")
    BY <1>1, <1>4 DEF Opens, Sealed, At
  <2>2. CASE End(t)
    BY <1>1, <1>2, <1>4, <2>1, <2>2, BringsKeyIn DEF Carrying
  <2>3. CASE Goto(t, "zip")
    <3>1. Onward(t, "zip", req[t].kind, req[t].pw, req[t].key)
      BY <1>1, <2>3, GotoMoves DEF Onward, At, Steps, IInv, Fits, Sealing, Wiping, Carrying
    <3>2. QED
      BY <1>1, <1>4, <2>1, <3>1, BringsKeyIn DEF Carrying
  <2>4. QED
    BY <1>4, <2>2, <2>3
<1>5. QED
  BY <1>3, <1>4 DEF Open

(* What is minted in calm is minted where no key is in use.                   *)
LEMMA MintKeeps == ASSUME IInv, NEW t \in Threads, Mint(t) PROVE IInv'
<1>1. PICK k \in Keys : session' = k /\ minted' = minted \cup {k}
  BY DEF Mint
<1>2. At(t, "mint") /\ UNCHANGED <<sealed, legacy, ack, relied, zips>> /\ Noting("swap", OthersAtMint(t))
  BY DEF Mint, disk
<1>3. PICK step \in {"seal", "taken"} : Goto(t, step) /\ (step = "seal" => req[t].kind = "unlock")
  BY DEF Mint, AfterSet
<1>4. Onward(t, step, req[t].kind, req[t].pw, req[t].key)
  BY <1>2, <1>3, GotoMoves DEF Onward, At, Steps, IInv, Fits, Sealing, Asking, Wiping, Carrying
<1>5. (Calm' => Calm /\ ~OthersAtMint(t)) /\ (mishaps' = {} => mishaps = {})
  BY <1>2, CalmBefore
<1>6. TypeOK'
  BY <1>1, <1>2, <1>4 DEF IInv, TypeOK, Moved, Requests, Noting, AllKeys, Onward
<1>7. Fits'
  BY <1>4 DEF IInv, Fits, Moved, Wiping, Onward
<1>8. legacy = None
  BY <1>2 DEF IInv, LegacyGoes
<1>9. LegacyGoes'
  BY <1>1, <1>2, <1>4, <1>8 DEF IInv, LegacyGoes, Moved, At, Known, Onward
<1>10. OneInUse'
  <2>1. SUFFICES ASSUME Calm' PROVE Agree' /\ Anchored' /\ WipesAlone'
    BY DEF OneInUse
  <2>2. session = None /\ sealed = None /\ \A u \in Threads : ~Carries(u)
    BY <1>2, <1>5, <2>1 DEF IInv, OneInUse, Anchored
  <2>3. AgreeOn(k)'
    BY <1>1, <1>2, <1>3, <1>4, <1>8, <2>2 DEF AgreeOn, Carries, Carrying, Moved, Onward
  <2>4. Anchored'
    BY <1>1, <1>2, <1>3, <1>4, <1>5, <2>1, <2>2 DEF IInv, OneInUse, Anchored, Carries, Carrying, Moved, At, OthersAtMint, Onward, AllKeys
  <2>5. \A u \in Threads : req[u].kind # "reset"
    BY <1>2, <1>4, <1>5, <2>1 DEF IInv, OneInUse, WipesAlone, OthersRun, At, Onward
  <2>6. WipesAlone'
    BY <1>4, <2>5 DEF WipesAlone, Moved, Onward
  <2>7. QED
    BY <1>1, <2>3, <2>4, <2>6 DEF Agree, AllKeys
<1>11. Kept'
  BY <1>2, <1>3, <1>4, <1>5 DEF IInv, Kept, CanBeHad, Opens, Moved, At, Onward
<1>12. QED
  BY <1>6, <1>7, <1>9, <1>10, <1>11 DEF IInv

-----------------------------------------------------------------------------
(* While the file is written, the request that writes it has the key.         *)
LEMMA TruncateKeeps == ASSUME IInv, NEW t \in Threads, Truncate(t) PROVE IInv'
<1>1. /\ At(t, "truncate") /\ sealed' = Torn /\ Goto(t, "store") /\ Noting("swap", OthersAtMint(t))
      /\ UNCHANGED <<session, legacy, ack, minted, relied, zips>>
  BY DEF Truncate
<1>2. Moved(t, "store", req[t].kind, req[t].pw, req[t].key)
  BY <1>1, GotoMoves DEF IInv, Steps
<1>3. (Calm' => Calm /\ ~OthersAtMint(t)) /\ (mishaps' = {} => mishaps = {})
  BY <1>1, CalmBefore
<1>4. TypeOK'
  BY <1>1, <1>2 DEF IInv, TypeOK, Moved, Requests, Noting
<1>5. Fits'
  BY <1>1, <1>2 DEF IInv, Fits, Moved, At, Sealing, Wiping, Carrying
<1>6. LegacyGoes'
  BY <1>1, <1>2 DEF IInv, LegacyGoes, Moved, At, Known
<1>7. OneInUse'
  <2>1. SUFFICES ASSUME Calm' PROVE Agree' /\ Anchored' /\ WipesAlone'
    BY DEF OneInUse
  <2>2. ASSUME NEW k \in AllKeys, AgreeOn(k) PROVE AgreeOn(k)'
    BY <1>1, <1>2, <2>2 DEF AgreeOn, Carries, Carrying, Moved, At
  <2>3. Agree'
    BY <1>3, <2>1, <2>2 DEF IInv, OneInUse, Agree
  <2>4. Anchored'
    BY <1>1, <1>2, <1>3, <2>1 DEF IInv, OneInUse, Anchored, Carries, Carrying, Moved, At, OthersAtMint
  <2>5. WipesAlone'
    BY <1>1, <1>2, <1>3, <2>1 DEF IInv, OneInUse, WipesAlone, OthersRun, Moved, At
  <2>6. QED
    BY <2>3, <2>4, <2>5
<1>8. Kept'
  <2>1. SUFFICES ASSUME mishaps' = {} PROVE Kept'
    BY DEF Kept
  <2>2. PICK k \in AllKeys : AgreeOn(k)
    BY <1>3, <2>1 DEF IInv, OneInUse, Agree, Calm
  <2>3. req[t].key = k /\ (sealed \in Sealed => sealed.key = k)
    BY <1>1, <2>2 DEF AgreeOn, Carries, Carrying, At
  <2>4. ASSUME NEW l, CanBeHad(l) PROVE CanBeHad(l)'
    BY <1>1, <1>2, <2>3, <2>4 DEF CanBeHad, Opens, Moved, At
  <2>5. QED
    BY <1>1, <1>2, <1>3, <2>1, <2>4 DEF IInv, Kept, Moved, At
<1>9. QED
  BY <1>4, <1>5, <1>6, <1>7, <1>8 DEF IInv

LEMMA StoreKeeps == ASSUME IInv, NEW t \in Threads, Store(t) PROVE IInv'
<1>1. /\ At(t, "store") /\ sealed' = [key |-> req[t].key, pw |-> req[t].pw] /\ Goto(t, "unlink")
      /\ UNCHANGED <<session, legacy, ack, minted, relied, zips, mishaps>>
  BY DEF Store, ghosts
<1>2. Moved(t, "unlink", req[t].kind, req[t].pw, req[t].key)
  BY <1>1, GotoMoves DEF IInv, Steps
<1>3. req[t].key \in AllKeys /\ req[t].pw \in Passphrases
  BY <1>1 DEF IInv, Fits, At, Sealing, Carrying
<1>4. sealed' \in Sealed /\ sealed'.key = req[t].key
  BY <1>1, <1>3 DEF Sealed
<1>5. Calm' => Calm
  BY <1>1 DEF Calm
<1>6. TypeOK'
  BY <1>1, <1>2, <1>4 DEF IInv, TypeOK, Moved, Requests
<1>7. Fits'
  BY <1>1, <1>2 DEF IInv, Fits, Moved, At, Sealing, Wiping, Carrying
<1>8. LegacyGoes'
  BY <1>1, <1>2, <1>3, <1>4 DEF IInv, LegacyGoes, Moved, At, Known
<1>9. OneInUse'
  <2>1. SUFFICES ASSUME Calm' PROVE Agree' /\ Anchored' /\ WipesAlone'
    BY DEF OneInUse
  <2>2. ASSUME NEW k \in AllKeys, AgreeOn(k) PROVE AgreeOn(k)'
    BY <1>1, <1>2, <1>4, <2>2 DEF AgreeOn, Carries, Carrying, Moved, At
  <2>3. Agree'
    BY <1>5, <2>1, <2>2 DEF IInv, OneInUse, Agree
  <2>4. Anchored'
    BY <1>1, <1>2, <1>4, <1>5, <2>1 DEF IInv, OneInUse, Anchored, Carries, Carrying, Moved, At
  <2>5. WipesAlone'
    BY <1>1, <1>2, <1>5, <2>1 DEF IInv, OneInUse, WipesAlone, OthersRun, Moved, At
  <2>6. QED
    BY <2>3, <2>4, <2>5
<1>10. Kept'
  <2>1. SUFFICES ASSUME mishaps' = {} PROVE Kept'
    BY DEF Kept
  <2>2. PICK k \in AllKeys : AgreeOn(k)
    BY <1>1, <2>1 DEF IInv, OneInUse, Agree, Calm
  <2>3. req[t].key = k /\ (sealed \in Sealed => sealed.key = k)
    BY <1>1, <2>2 DEF AgreeOn, Carries, Carrying, At
  <2>4. ASSUME NEW l, CanBeHad(l) PROVE CanBeHad(l)'
    BY <1>1, <1>2, <1>4, <2>3, <2>4 DEF CanBeHad, Opens, Moved, At
  <2>5. QED
    BY <1>1, <1>2, <1>4, <2>1, <2>4 DEF IInv, Kept, Moved, At
<1>11. QED
  BY <1>6, <1>7, <1>8, <1>9, <1>10 DEF IInv

(* A write that fails is no key's: what is left of the file is as before, or  *)
(* torn, which is noted.                                                      *)
LEMMA SealFailsKeeps == ASSUME IInv, NEW t \in Threads, SealFails(t) PROVE IInv'
<1>1. /\ \/ At(t, "truncate") /\ UNCHANGED <<sealed, mishaps>>
         \/ At(t, "store") /\ sealed' \in {sealed, Torn} /\ Noting("tear", TRUE)
      /\ End(t) /\ UNCHANGED <<session, legacy, ack, minted, relied, zips>>
  BY DEF SealFails
<1>2. Moved(t, "idle", "read", None, None)
  BY <1>1, EndMoves DEF IInv
<1>3. /\ Calm' => Calm
      /\ mishaps' = {} => mishaps = {} /\ ~At(t, "store") /\ UNCHANGED sealed
      /\ mishaps' \subseteq {"swap", "tear"}
  BY <1>1 DEF At, Noting, Calm, IInv, TypeOK
<1>4. sealed' \in {sealed, Torn} /\ sealed \in Sealed \cup {None, Torn}
  BY <1>1 DEF IInv, TypeOK
<1>5. TypeOK'
  BY <1>1, <1>2, <1>3, <1>4 DEF IInv, TypeOK, Moved, Requests
<1>6. Fits'
  BY <1>2 DEF IInv, Fits, Moved, Sealing, Asking, Wiping, Carrying
<1>7. LegacyGoes'
  BY <1>1, <1>2, <1>4 DEF IInv, LegacyGoes, Moved, At, Known
<1>8. OneInUse'
  <2>1. SUFFICES ASSUME Calm' PROVE Agree' /\ Anchored' /\ WipesAlone'
    BY DEF OneInUse
  <2>2. ASSUME NEW k \in AllKeys, AgreeOn(k) PROVE AgreeOn(k)'
    BY <1>1, <1>2, <1>4, <2>2 DEF AgreeOn, Carries, Carrying, Moved
  <2>3. Agree'
    BY <1>3, <2>1, <2>2 DEF IInv, OneInUse, Agree
  <2>4. sealed # None => sealed' # None
    BY <1>4
  <2>5. sealed = None /\ session = None => UNCHANGED sealed
    <3>1. Carries(t)
      BY <1>1 DEF Carries, Carrying, At
    <3>2. QED
      BY <1>3, <2>1, <3>1 DEF IInv, OneInUse, Anchored
  <2>6. ASSUME NEW u \in Threads, At(u, "mint") PROVE session = None /\ sealed = None
    BY <1>3, <2>1, <2>6 DEF IInv, OneInUse, Anchored
  <2>7. Anchored'
    BY <1>1, <1>2, <1>3, <2>1, <2>4, <2>5, <2>6 DEF IInv, OneInUse, Anchored, Carries, Carrying, Moved, At
  <2>8. WipesAlone'
    BY <1>1, <1>2, <1>3, <2>1 DEF IInv, OneInUse, WipesAlone, OthersRun, Moved, At
  <2>9. QED
    BY <2>3, <2>7, <2>8
<1>9. Kept'
  <2>1. SUFFICES ASSUME mishaps' = {} PROVE Kept'
    BY DEF Kept
  <2>2. ASSUME NEW l, CanBeHad(l) PROVE CanBeHad(l)'
    BY <1>1, <1>2, <1>3, <2>1, <2>2 DEF CanBeHad, Opens, Moved, At
  <2>3. QED
    BY <1>1, <1>2, <1>3, <2>1, <2>2 DEF IInv, Kept, Moved, At
<1>10. QED
  BY <1>5, <1>6, <1>7, <1>8, <1>9 DEF IInv

(* The plaintext goes when its key is under seal, or on its way there.        *)
LEMMA UnlinkKeeps == ASSUME IInv, NEW t \in Threads, Unlink(t) PROVE IInv'
<1>1. /\ At(t, "unlink") /\ legacy' \in {None, legacy} /\ (End(t) \/ Goto(t, "zip"))
      /\ UNCHANGED <<session, sealed, ack, minted, relied, zips, mishaps>>
  BY DEF Unlink, ghosts
<1>2. PICK at \in {"idle", "zip"}, kind \in Kinds \ {"reset"}, pw \in Passphrases \cup {None}, key \in {None, req[t].key} :
        Moved(t, at, kind, pw, key) /\ (kind \in Asking => pw \in Passphrases) /\ (at = "zip" => kind \in Asking)
  <2>1. CASE End(t)
    BY <2>1, EndMoves DEF IInv, Kinds, Asking
  <2>2. CASE Goto(t, "zip")
    <3>1. Moved(t, "zip", req[t].kind, req[t].pw, req[t].key)
      BY <2>2, GotoMoves DEF IInv, Steps
    <3>2. req[t].kind \in Asking /\ req[t].pw \in Passphrases
      BY <1>1 DEF IInv, Fits, At, Sealing
    <3>3. QED
      BY <3>1, <3>2 DEF Asking, Kinds
  <2>3. QED
    BY <1>1, <2>1, <2>2
<1>3. Calm' => Calm
  BY <1>1 DEF Calm
<1>4. TypeOK'
  BY <1>1, <1>2 DEF IInv, TypeOK, Moved, Requests
<1>5. Fits'
  BY <1>1, <1>2 DEF IInv, Fits, Moved, At, Sealing, Wiping, Carrying
<1>6. LegacyGoes'
  BY <1>1, <1>2 DEF IInv, LegacyGoes, Moved, At, Known
<1>7. OneInUse'
  <2>1. SUFFICES ASSUME Calm' PROVE Agree' /\ Anchored' /\ WipesAlone'
    BY DEF OneInUse
  <2>2. ASSUME NEW k \in AllKeys, AgreeOn(k) PROVE AgreeOn(k)'
    BY <1>1, <1>2, <2>2 DEF AgreeOn, Carries, Carrying, Moved, At
  <2>3. Agree'
    BY <1>3, <2>1, <2>2 DEF IInv, OneInUse, Agree
  <2>4. Anchored'
    BY <1>1, <1>2, <1>3, <2>1 DEF IInv, OneInUse, Anchored, Carries, Carrying, Moved, At
  <2>5. WipesAlone'
    BY <1>1, <1>2, <1>3, <2>1 DEF IInv, OneInUse, WipesAlone, OthersRun, Moved, At
  <2>6. QED
    BY <2>3, <2>4, <2>5
<1>8. Kept'
  <2>1. SUFFICES ASSUME mishaps' = {} PROVE Kept'
    BY DEF Kept
  <2>2. PICK k \in AllKeys : AgreeOn(k)
    BY <1>1, <2>1 DEF IInv, OneInUse, Agree, Calm
  <2>3. legacy \in {k, None} /\ sealed # None
    BY <1>1, <2>1, <2>2 DEF AgreeOn, IInv, OneInUse, Anchored, Calm, At
  <2>4. Opens(k) \/ \E u \in Threads : At(u, "store") /\ req[u].key = k
    BY <1>1, <2>1, <2>2, <2>3 DEF IInv, TypeOK, Kept, AgreeOn, Opens, Carries, Carrying, At
  <2>5. ASSUME NEW l \in AllKeys, CanBeHad(l) PROVE CanBeHad(l)'
    <3>1. l \in zips \/ Opens(l) \/ \E u \in Threads : At(u, "store") /\ req[u].key = l
      BY <2>3, <2>4, <2>5 DEF CanBeHad
    <3>2. QED
      BY <1>1, <1>2, <3>1 DEF CanBeHad, Opens, Moved, At
  <2>6. relied \subseteq AllKeys
    BY DEF IInv, TypeOK
  <2>7. QED
    BY <1>1, <1>2, <2>1, <2>5, <2>6 DEF IInv, Kept, Moved, At
<1>9. QED
  BY <1>4, <1>5, <1>6, <1>7, <1>8 DEF IInv

-----------------------------------------------------------------------------
LEMMA AckKeeps == ASSUME IInv, Ack PROVE IInv'
<1>1. ack' = TRUE /\ UNCHANGED <<session, sealed, legacy, req, minted, relied, zips, mishaps>>
  BY DEF Ack, ghosts
<1>2. TypeOK'
  BY <1>1 DEF IInv, TypeOK
<1>3. Fits' /\ LegacyGoes'
  BY <1>1 DEF IInv, Fits, LegacyGoes, At, Known
<1>4. OneInUse'
  BY <1>1 DEF IInv, OneInUse, Calm, Agree, AgreeOn, Carries, Anchored, At, WipesAlone, OthersRun
<1>5. Kept'
  BY <1>1 DEF IInv, Kept, CanBeHad, Opens, At
<1>6. QED
  BY <1>2, <1>3, <1>4, <1>5 DEF IInv

(* A lock without a swap leaves a key that a request carries under seal.      *)
LEMMA LockKeeps == ASSUME IInv, NEW t \in Threads, Lock(t) PROVE IInv'
<1>1. /\ At(t, "idle") /\ session' = None /\ UNCHANGED <<sealed, legacy, ack, req, minted, relied, zips>>
      /\ Noting("swap", session # None /\ OthersRun(t) /\ ~Opens(session))
  BY DEF Lock, disk
<1>2. /\ Calm' => Calm /\ (session = None \/ ~OthersRun(t) \/ Opens(session))
      /\ mishaps' = {} => mishaps = {}
  BY <1>1, CalmBefore
<1>3. TypeOK'
  BY <1>1 DEF IInv, TypeOK, Noting
<1>4. Fits' /\ LegacyGoes'
  BY <1>1 DEF IInv, Fits, LegacyGoes, At, Known
<1>5. OneInUse'
  <2>1. SUFFICES ASSUME Calm' PROVE Agree' /\ Anchored' /\ WipesAlone'
    BY DEF OneInUse
  <2>2. ASSUME NEW k \in AllKeys, AgreeOn(k) PROVE AgreeOn(k)'
    BY <1>1, <2>2 DEF AgreeOn, Carries
  <2>3. Agree'
    BY <1>2, <2>1, <2>2 DEF IInv, OneInUse, Agree
  <2>4. ASSUME NEW u \in Threads, Carries(u) PROVE sealed # None
    BY <1>1, <1>2, <2>1, <2>4 DEF IInv, OneInUse, Anchored, OthersRun, At, Carries, Carrying, Opens
  <2>5. Anchored'
    BY <1>1, <1>2, <2>1, <2>4 DEF IInv, OneInUse, Anchored, Carries, At
  <2>6. WipesAlone'
    BY <1>1, <1>2, <2>1 DEF IInv, OneInUse, WipesAlone, OthersRun, At
  <2>7. QED
    BY <2>3, <2>5, <2>6
<1>6. Kept'
  BY <1>1, <1>2 DEF IInv, Kept, CanBeHad, Opens, At
<1>7. QED
  BY <1>3, <1>4, <1>5, <1>6 DEF IInv

LEMMA ResetKeeps == ASSUME IInv, NEW t \in Threads, Reset(t) PROVE IInv'
<1>1. /\ At(t, "idle") /\ session' = None /\ relied' = {} /\ UNCHANGED <<sealed, legacy, ack, minted, zips>>
      /\ Noting("swap", OthersRun(t))
  BY DEF Reset, disk
<1>2. Moved(t, "wipe", "reset", None, None)
  <2>1. PICK r : r = [Free EXCEPT !.at = "wipe", !.kind = "reset"]
    OBVIOUS
  <2>2. Free \in Requests /\ Free.pw = None /\ Free.key = None
    BY DEF Free, Requests, Steps, Kinds
  <2>3. r \in Requests /\ r.at = "wipe" /\ r.kind = "reset" /\ r.pw = None /\ r.key = None
    BY <2>1, <2>2 DEF Requests, Steps, Kinds
  <2>4. req' = [req EXCEPT ![t] = r] /\ req \in [Threads -> Requests]
    BY <2>1 DEF Reset, IInv, TypeOK, Requests
  <2>5. QED
    BY <2>3, <2>4 DEF Moved
<1>3. (Calm' => Calm /\ ~OthersRun(t)) /\ (mishaps' = {} => mishaps = {} /\ ~OthersRun(t))
  BY <1>1, CalmBefore
<1>4. TypeOK'
  BY <1>1, <1>2 DEF IInv, TypeOK, Moved, Requests, Noting
<1>5. Fits'
  BY <1>2 DEF IInv, Fits, Moved, Sealing, Asking, Wiping, Carrying
<1>6. LegacyGoes'
  BY <1>1, <1>2 DEF IInv, LegacyGoes, Moved, At, Known
<1>7. OneInUse'
  <2>1. SUFFICES ASSUME Calm' PROVE Agree' /\ Anchored' /\ WipesAlone'
    BY DEF OneInUse
  <2>2. ASSUME NEW u \in Threads PROVE ~Carries(u)' /\ ~At(u, "mint")' /\ req'[u].at \notin {"store", "unlink"}
    BY <1>2, <1>3, <2>1 DEF Carries, Carrying, Moved, OthersRun, At
  <2>3. ASSUME NEW k \in AllKeys, AgreeOn(k) PROVE AgreeOn(k)'
    BY <1>1, <2>2, <2>3 DEF AgreeOn
  <2>4. Agree'
    BY <1>3, <2>1, <2>3 DEF IInv, OneInUse, Agree
  <2>5. Anchored'
    BY <2>2 DEF Anchored
  <2>6. WipesAlone'
    BY <1>1, <1>2, <1>3, <2>1 DEF IInv, Fits, Wiping, WipesAlone, OthersRun, At, Moved
  <2>7. QED
    BY <2>4, <2>5, <2>6
<1>8. Kept'
  BY <1>1, <1>2, <1>3 DEF IInv, Kept, Moved, OthersRun, At
<1>9. QED
  BY <1>4, <1>5, <1>6, <1>7, <1>8 DEF IInv

(* A file goes: nothing is relied on any more, and nobody else runs.          *)
LEMMA WipingKeeps ==
  ASSUME IInv, NEW t \in Threads, req[t].at \in Wiping, UNCHANGED <<session, minted, relied, zips, mishaps>>,
         sealed' \in {sealed, None}, legacy' \in {legacy, None}, ack' \in BOOLEAN,
         NEW step \in {"idle", "wipeLegacy", "wipeAck"},
         IF step = "idle" THEN End(t) ELSE Goto(t, step)
  PROVE  IInv'
<1>1. req[t].kind = "reset"
  BY DEF IInv, Fits
<1>2. PICK kind \in Kinds, pw \in Passphrases \cup {None}, key \in {None, req[t].key} :
        /\ Moved(t, step, kind, pw, key) /\ kind \in {"reset", "read"}
        /\ kind = "reset" <=> step # "idle"
  <2>1. CASE step = "idle"
    BY <2>1, EndMoves DEF IInv, Kinds
  <2>2. CASE step # "idle"
    <3>1. Moved(t, step, req[t].kind, req[t].pw, req[t].key)
      BY <2>2, GotoMoves DEF IInv, Steps
    <3>2. req[t].pw \in Passphrases \cup {None}
      BY DEF IInv, TypeOK
    <3>3. QED
      BY <1>1, <2>2, <3>1, <3>2 DEF Kinds
  <2>3. QED
    BY <2>1, <2>2
<1>3. Calm' => Calm /\ relied = {} /\ ~OthersRun(t)
  BY <1>1 DEF Calm, IInv, OneInUse, WipesAlone
<1>4. TypeOK'
  BY <1>2 DEF IInv, TypeOK, Moved, Requests
<1>5. Fits'
  BY <1>2 DEF IInv, Fits, Moved, Sealing, Asking, Wiping, Carrying
<1>6. LegacyGoes'
  BY <1>2 DEF IInv, LegacyGoes, Moved, At, Known
<1>7. OneInUse'
  <2>1. SUFFICES ASSUME Calm' PROVE Agree' /\ Anchored' /\ WipesAlone'
    BY DEF OneInUse
  <2>2. ASSUME NEW u \in Threads PROVE ~Carries(u)' /\ ~At(u, "mint")' /\ req'[u].at \notin {"store", "unlink"}
    BY <1>2, <1>3, <2>1 DEF Carries, Carrying, Moved, OthersRun, At
  <2>3. ASSUME NEW k \in AllKeys, AgreeOn(k) PROVE AgreeOn(k)'
    BY <2>2, <2>3 DEF AgreeOn
  <2>4. Agree'
    BY <1>3, <2>1, <2>3 DEF IInv, OneInUse, Agree
  <2>5. Anchored'
    BY <2>2 DEF Anchored
  <2>6. WipesAlone'
    BY <1>2, <1>3, <2>1 DEF IInv, Fits, Wiping, WipesAlone, OthersRun, At, Moved
  <2>7. QED
    BY <2>4, <2>5, <2>6
<1>8. Kept'
  <2>1. SUFFICES ASSUME mishaps' = {} PROVE Kept'
    BY DEF Kept
  <2>2. relied = {} /\ mishaps = {} /\ \A u \in Threads \ {t} : At(u, "idle")
    BY <1>3, <2>1 DEF Calm, OthersRun
  <2>3. sealed # Torn
    BY <2>2 DEF IInv, Kept, At, Wiping
  <2>4. QED
    BY <1>2, <2>2, <2>3 DEF Kept, Moved, At
<1>9. QED
  BY <1>4, <1>5, <1>6, <1>7, <1>8 DEF IInv

LEMMA WipeKeeps == ASSUME IInv, NEW t \in Threads, Wipe(t) \/ WipeLegacy(t) \/ WipeAck(t) PROVE IInv'
<1>1. ack \in BOOLEAN
  BY DEF IInv, TypeOK
<1>2. CASE Wipe(t)
  BY <1>1, <1>2, WipingKeeps DEF Wipe, At, Wiping, ghosts
<1>3. CASE WipeLegacy(t)
  BY <1>1, <1>3, WipingKeeps DEF WipeLegacy, At, Wiping, ghosts
<1>4. CASE WipeAck(t)
  BY <1>4, WipingKeeps DEF WipeAck, At, Wiping, ghosts
<1>5. QED
  BY <1>2, <1>3, <1>4

LEMMA RestartKeeps == ASSUME IInv, Restart PROVE IInv'
<1>1. /\ session' = None /\ req' = [t \in Threads |-> Free] /\ UNCHANGED <<sealed, legacy, ack, minted, relied, zips>>
      /\ Noting("tear", \E t \in Threads : At(t, "store"))
  BY DEF Restart, disk
<1>2. (Calm' => Calm) /\ (mishaps' = {} => mishaps = {} /\ \A t \in Threads : ~At(t, "store"))
  BY <1>1, CalmBefore
<1>3. TypeOK'
  BY <1>1 DEF IInv, TypeOK, Noting, Free, Steps, Kinds
<1>4. Fits' /\ LegacyGoes'
  BY <1>1 DEF IInv, Fits, LegacyGoes, Free, Sealing, Asking, Wiping, Carrying, At, Known
<1>5. OneInUse'
  <2>1. SUFFICES ASSUME Calm' PROVE Agree' /\ Anchored' /\ WipesAlone'
    BY DEF OneInUse
  <2>2. ASSUME NEW k \in AllKeys, AgreeOn(k) PROVE AgreeOn(k)'
    BY <1>1, <2>2 DEF AgreeOn, Carries, Carrying, Free
  <2>3. Agree'
    BY <1>2, <2>1, <2>2 DEF IInv, OneInUse, Agree
  <2>4. Anchored' /\ WipesAlone'
    BY <1>1 DEF Anchored, WipesAlone, Carries, Carrying, At, Free
  <2>5. QED
    BY <2>3, <2>4
<1>6. Kept'
  BY <1>1, <1>2 DEF IInv, Kept, CanBeHad, Opens, At, Free
<1>7. QED
  BY <1>3, <1>4, <1>5, <1>6 DEF IInv

-----------------------------------------------------------------------------
LEMMA StepKeeps == IInv /\ [Next]_vars => IInv'
<1>1. SUFFICES ASSUME IInv, [Next]_vars PROVE IInv'
  OBVIOUS
<1>2. CASE Ack \/ Restart
  BY <1>1, <1>2, AckKeeps, RestartKeeps
<1>3. ASSUME NEW t \in Threads, BeginAny(t) PROVE IInv'
  <2>1. CASE \E kind \in {"read", "write", "force"} : Begin(t, kind, None)
    BY <1>1, <2>1, BeginKeeps DEF Kinds, Asking
  <2>2. CASE \E kind \in Asking, pw \in Passphrases : Begin(t, kind, pw)
    BY <1>1, <2>2, BeginKeeps DEF Kinds, Asking
  <2>3. QED
    BY <1>3, <2>1, <2>2 DEF BeginAny, Asking
<1>4. ASSUME NEW t \in Threads, Take(t) \/ Load(t) \/ Mint(t) \/ Taken(t) \/ Gate(t) \/ Put(t) PROVE IInv'
  BY <1>1, <1>4, TakeKeeps, LoadKeeps, MintKeeps, TakenKeeps, GateKeeps, PutKeeps
<1>5. ASSUME NEW t \in Threads,
             \/ Open(t) \/ OpenNothing(t) \/ Check(t) \/ Seal(t) \/ Truncate(t)
             \/ Store(t) \/ SealFails(t) \/ Unlink(t) \/ Zip(t) \/ Download(t)
      PROVE  IInv'
  BY <1>1, <1>5, OpenKeeps, OpenNothingKeeps, CheckKeeps, SealKeeps, TruncateKeeps, StoreKeeps,
     SealFailsKeeps, UnlinkKeeps, ZipKeeps, DownloadKeeps
<1>6. ASSUME NEW t \in Threads, Lock(t) \/ Reset(t) \/ Wipe(t) \/ WipeLegacy(t) \/ WipeAck(t) PROVE IInv'
  BY <1>1, <1>6, LockKeeps, ResetKeeps, WipeKeeps
<1>7. CASE UNCHANGED vars
  <2>1. UNCHANGED <<session, sealed, legacy, ack, req, minted, relied, zips, mishaps>>
    BY <1>7 DEF vars, disk, ghosts
  <2>2. TypeOK' /\ Fits' /\ LegacyGoes' /\ Kept'
    BY <1>1, <2>1 DEF IInv, TypeOK, Fits, LegacyGoes, At, Known, Kept, CanBeHad, Opens
  <2>3. OneInUse'
    BY <1>1, <2>1 DEF IInv, OneInUse, Calm, Agree, AgreeOn, Carries, Anchored, At, WipesAlone, OthersRun
  <2>4. QED
    BY <2>2, <2>3 DEF IInv
<1>8. QED
  BY <1>1, <1>2, <1>3, <1>4, <1>5, <1>6, <1>7 DEF Next

(* The types of the app's keys, for any threads, keys and passphrases.        *)
THEOREM TypeCorrect == Spec => []TypeOK
<1>1. IInv => TypeOK
  BY DEF IInv
<1>2. QED
  BY <1>1, InitIsRight, StepKeeps, PTL DEF Spec

(* The key of every record that was written on the promise of a sealed and    *)
(* backed up key is on disk, being written there, or in a zip the user has,   *)
(* unless a named mishap parted them (/api/write, seal_at_rest).              *)
THEOREM KeptForGood == Spec => []ReliedOnIsKept
<1>1. IInv => ReliedOnIsKept
  BY DEF IInv, Kept, CanBeHad, ReliedOnIsKept, OnDisk, Storing, TypeOK
<1>2. QED
  BY <1>1, InitIsRight, StepKeeps, PTL DEF Spec

(* The key in memory is the sealed one, and the sealed one is the plaintext   *)
(* one, whatever requests run into one another (unlock_session, seal_at_rest).*)
THEOREM OneKeyAtATime == Spec => []OneKey
<1>1. IInv => MemoryIsDisk
  BY DEF IInv, OneInUse, Agree, AgreeOn, MemoryIsDisk
<1>2. ASSUME IInv PROVE OneKeyOnDisk
  <2>1. PICK k : OnDisk \subseteq {k}
    BY <1>2 DEF IInv, LegacyGoes, TypeOK, OnDisk, Opens, Known
  <2>2. Cardinality({k}) = 1 /\ IsFiniteSet({k})
    BY FS_Singleton
  <2>3. Cardinality(OnDisk) <= 1
    BY <2>1, <2>2, FS_Subset
  <2>4. QED
    BY <2>3 DEF OneKeyOnDisk
<1>3. QED
  BY <1>1, <1>2, InitIsRight, StepKeeps, PTL DEF Spec, OneKey

(* Of the steps that set the key in memory and of those that write the file.  *)
LEMMA LockStep == IInv /\ [Next]_vars => [OnlyItsPassphraseUnlocks /\ OnlyStartingOverReplaces]_vars
<1>1. SUFFICES ASSUME IInv, Next PROVE OnlyItsPassphraseUnlocks /\ OnlyStartingOverReplaces
  OBVIOUS
<1>2. mishaps \subseteq mishaps'
  BY <1>1 DEF Next, Ack, Restart, BeginAny, Begin, Take, Load, Mint, Taken, Gate, Put, Open, OpenNothing,
     Check, Seal, Truncate, Store, SealFails, Unlink, Zip, Download, Lock, Reset, Wipe, WipeLegacy, WipeAck, ghosts, Noting
<1>3. SUFFICES ASSUME Calm' PROVE OnlyItsPassphraseUnlocks /\ OnlyStartingOverReplaces
  BY DEF OnlyItsPassphraseUnlocks, OnlyStartingOverReplaces
<1>4. Calm /\ Anchored
  BY <1>1, <1>2, <1>3 DEF Calm, IInv, OneInUse
<1>5. OnlyItsPassphraseUnlocks
  <2>1. SUFFICES ASSUME session = None, session' # None, sealed # None
                 PROVE  \/ \E t \in Threads :
                             At(t, "open") /\ sealed = [key |-> session', pw |-> req[t].pw]
                        \/ session' = legacy
    BY DEF OnlyItsPassphraseUnlocks
  <2>2. PICK t \in Threads : Load(t) \/ Mint(t) \/ Open(t)
    BY <1>1, <2>1 DEF Next, Ack, Restart, BeginAny, Begin, Take, Taken, Gate, Put, OpenNothing,
       Check, Seal, Truncate, Store, SealFails, Unlink, Zip, Download, Lock, Reset, Wipe, WipeLegacy, WipeAck
  <2>3. CASE Load(t)
    BY <2>1, <2>3 DEF Load
  <2>4. CASE Mint(t)
    BY <1>4, <2>1, <2>4 DEF Mint, Anchored
  <2>5. CASE Open(t)
    BY <2>1, <2>5 DEF Open, Sealed
  <2>6. QED
    BY <2>2, <2>3, <2>4, <2>5
<1>6. OnlyStartingOverReplaces
  <2>1. SUFFICES ASSUME sealed \in Sealed
                 PROVE  \/ sealed.key \in OnDisk' \cup Storing'
                        \/ sealed' = None /\ \E t \in Threads : At(t, "wipe")
                        \/ sealed' = Torn /\ "tear" \in mishaps'
    BY DEF OnlyStartingOverReplaces
  <2>2. PICK k \in AllKeys : AgreeOn(k)
    BY <1>1, <1>4 DEF IInv, OneInUse, Agree
  <2>3. sealed.key = k
    BY <2>1, <2>2 DEF AgreeOn
  <2>4. CASE UNCHANGED sealed
    BY <2>1, <2>3, <2>4 DEF OnDisk, Opens
  <2>5. ASSUME NEW t \in Threads, Truncate(t) PROVE k \in Storing'
    <3>1. At(t, "truncate") /\ Goto(t, "store")
      BY <2>5 DEF Truncate
    <3>2. Moved(t, "store", req[t].kind, req[t].pw, req[t].key) /\ req[t].key = k
      BY <1>1, <2>2, <3>1, GotoMoves DEF IInv, Steps, AgreeOn, Carries, Carrying, At
    <3>3. QED
      BY <3>2 DEF Moved, Storing, At
  <2>6. ASSUME NEW t \in Threads, Store(t) PROVE k \in OnDisk'
    <3>1. sealed' = [key |-> k, pw |-> req[t].pw] /\ req[t].pw \in Passphrases
      BY <1>1, <2>2, <2>6 DEF Store, AgreeOn, Carries, Carrying, At, IInv, Fits, Sealing, Asking
    <3>2. QED
      BY <3>1 DEF OnDisk, Opens, Sealed
  <2>7. ASSUME NEW t \in Threads, Wipe(t) PROVE sealed' = None /\ At(t, "wipe")
    BY <2>7 DEF Wipe
  <2>8. ASSUME NEW t \in Threads, SealFails(t)
        PROVE  UNCHANGED sealed \/ (sealed' = Torn /\ "tear" \in mishaps')
    BY <2>8 DEF SealFails, Noting
  <2>9. UNCHANGED sealed \/ \E t \in Threads : Truncate(t) \/ Store(t) \/ SealFails(t) \/ Wipe(t)
    BY <1>1 DEF Next, Ack, Restart, BeginAny, Begin, Take, Load, Mint, Taken, Gate, Put, Open, OpenNothing,
       Check, Seal, Unlink, Zip, Download, Lock, Reset, WipeLegacy, WipeAck, disk
  <2>10. QED
    BY <2>3, <2>4, <2>5, <2>6, <2>7, <2>8, <2>9
<1>7. QED
  BY <1>5, <1>6

(* A locked key comes back by its passphrase and no other way, and only       *)
(* starting over puts another in its place (unlock_session, the lock and      *)
(* reset requests).                                                           *)
THEOREM LockedStaysLocked == Spec => LockHolds
BY InitIsRight, StepKeeps, LockStep, PTL DEF Spec, LockHolds
==============================================================================
