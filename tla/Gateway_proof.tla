----------------------------- MODULE Gateway_proof -----------------------------
(* For any callers, tokens, spellings and keys: the types of the gateway, and *)
(* that a token as it was shown is remembered and buys one call.              *)
(* SpentIsRemembered is no invariant of a step by itself. A gateway that      *)
(* starts reads the file, so the file must hold what is known; a file the     *)
(* command writes holds the copy it loaded, so the copy must hold it too, as  *)
(* long as it is not stale.                                                   *)
(*                                                                            *)
(* And for any questions, headers and number of starts, that no relay can do  *)
(* harm. No assumption is needed of the constants there: questions may share  *)
(* a token, and the file may forget any of them.                              *)
EXTENDS MCGateway, TLAPS

USE FilesAssumption DEF gw, cli

Known == redeemed \ lost
Owners == [Processes -> {Down} \cup Issuers]
Served == [Callers -> {Free, Asking} \cup Requests]

\* A request is served by a gateway that has made its first save.
Starting == gw.at = "minted" \/ (gw.at \in {"pem", "book"} /\ ~gw.last)
Running == \A c \in Callers : call[c].at # "none" => gw.at # "down" /\ ~Starting

-----------------------------------------------------------------------------
LEMMA TypeInit == Init => TypeOK
<1> SUFFICES ASSUME Init PROVE TypeOK
  OBVIOUS
<1>1. proc \in [Processes -> {Down}] /\ call \in [Callers -> {Free}]
  BY DEF Init
<1>2. issued \in [Tokens -> Keys \cup {None}]
  BY DEF Init
<1>3. /\ pem \in Keys \cup {None, Torn} /\ book \in {None, Torn} \cup SUBSET Spellings
      /\ used \subseteq Keys
      /\ redeemed \subseteq Spellings /\ asked \subseteq Spellings /\ again \subseteq Spellings
      /\ late \subseteq Spellings /\ lost \subseteq Spellings /\ stale \in BOOLEAN
  BY DEF Init
<1> QED BY <1>1, <1>2, <1>3 DEF TypeOK

\* A step keeps the types.
LEMMA TypeStep == TypeOK /\ Running /\ [Next]_vars => TypeOK'
<1> SUFFICES ASSUME TypeOK, Running, [Next]_vars PROVE TypeOK'
  OBVIOUS
<1> USE DEF ghosts, Goto, Fresh, CutCalls, End
<1> DEFINE Rest == /\ pem \in Keys \cup {None, Torn}
                   /\ book \in {None, Torn} \cup SUBSET Spellings
                   /\ issued \in [Tokens -> Keys \cup {None}]
                   /\ used \subseteq Keys
                   /\ redeemed \subseteq Spellings /\ asked \subseteq Spellings
                   /\ again \subseteq Spellings /\ late \subseteq Spellings
                   /\ lost \subseteq Spellings /\ stale \in BOOLEAN
<1>t. proc \in Owners /\ call \in Served /\ Rest
  BY DEF TypeOK, Owners, Served
<1>s. \A p \in Processes : /\ proc[p].spent \subseteq Spellings
                           /\ proc[p].at # "down" => proc[p] \in Issuers
  BY <1>t DEF Owners, Issuers, Down
<1>c. \A c \in Callers : call[c].at \in {"arrived", "redeemed"} => call[c] \in Requests
  BY <1>t DEF Served, Free, Asking
<1>v. Saved \subseteq Spellings
  BY <1>t DEF Saved
<1>q. SUFFICES /\ proc' \in Owners
               /\ call' \in Served /\ Rest'
  BY DEF TypeOK, Owners, Served
<1>1. ASSUME NEW p \in Processes, LoadIssuer(p)
      PROVE  proc' \in Owners /\ call' = call /\ Rest'
  <2>1. [Down EXCEPT !.at = "ready", !.key = pem, !.spent = Saved] \in Issuers
    BY <1>1, <1>v DEF LoadIssuer, Down, Issuers
  <2>2. proc' \in Owners
    BY <1>1, <1>t, <2>1 DEF Owners, LoadIssuer
  <2> QED BY <1>1, <1>t, <2>2 DEF LoadIssuer
<1>2. ASSUME NEW p \in Processes, Mint(p)
      PROVE  proc' \in Owners /\ call' = call /\ Rest'
  <2>1. \A k \in Keys : [Down EXCEPT !.at = "minted", !.key = k] \in Issuers
    BY DEF Down, Issuers
  <2>2. proc' \in Owners
    BY <1>2, <1>t, <2>1 DEF Owners, Mint
  <2> QED BY <1>2, <1>t, <2>2 DEF Mint
<1>3. ASSUME NEW p \in Processes, BeginSave(p)
      PROVE  proc' \in Owners /\ call' = call /\ Rest'
  <2>1. proc[p] \in Issuers
    BY <1>3, <1>s DEF BeginSave
  <2>2. [proc[p] EXCEPT !.at = "pem", !.last = (proc[p].at = "ready")] \in Issuers
    BY <2>1 DEF Issuers
  <2>3. proc' = [proc EXCEPT ![p] = [proc[p] EXCEPT !.at = "pem",
                                                   !.last = (proc[p].at = "ready")]]
    BY <1>3, <1>t DEF BeginSave, Owners
  <2>4. proc' \in Owners
    BY <1>t, <2>2, <2>3 DEF Owners
  <2> QED BY <1>3, <1>t, <2>4 DEF BeginSave
<1>4. ASSUME NEW p \in Processes, NEW at \in {"pem", "book", "ready", "saved"},
             proc[p].at # "down", Goto(p, at)
      PROVE  proc' \in Owners /\ proc[p].key \in Keys
  <2>1. proc[p] \in Issuers
    BY <1>4, <1>s
  <2>2. [proc[p] EXCEPT !.at = at] \in Issuers
    BY <2>1 DEF Issuers
  <2>3. proc' = [proc EXCEPT ![p] = [proc[p] EXCEPT !.at = at]]
    BY <1>4, <1>t DEF Owners
  <2>4. proc' \in Owners
    BY <1>t, <2>2, <2>3 DEF Owners
  <2> QED BY <2>1, <2>4 DEF Issuers
<1>a. ASSUME NEW p \in Processes
      PROVE  AfterSave(p) \in {"pem", "book", "ready", "saved"}
  BY DEF AfterSave
<1>5. ASSUME NEW p \in Processes, WritePem(p) \/ WriteBook(p)
      PROVE  proc' \in Owners /\ call' = call /\ Rest'
  <2>1. proc' \in Owners /\ proc[p].key \in Keys /\ proc[p].spent \in SUBSET Spellings
    BY <1>4, <1>5, <1>a, <1>s DEF WritePem, WriteBook
  <2>2. CASE WritePem(p)
    BY <1>t, <2>1, <2>2 DEF WritePem
  <2>3. CASE WriteBook(p)
    <3>1. book' \in SUBSET Spellings /\ lost' \subseteq Spellings /\ stale' \in BOOLEAN
      BY <1>t, <2>1, <2>3 DEF WriteBook
    <3> QED BY <1>t, <2>1, <2>3, <3>1 DEF WriteBook
  <2> QED BY <1>5, <2>2, <2>3
<1>p. "issue" \in Processes /\ "gateway" \in Processes
  BY DEF Processes
<1>6. ASSUME SaveFails \/ SkipSave \/ KillIssue
      PROVE  proc' \in Owners /\ call' = call /\ Rest'
  <2>1. proc' \in Owners
    <3>1. CASE KillIssue
      BY <1>t, <3>1 DEF KillIssue, Owners
    <3>2. CASE SaveFails \/ SkipSave
      BY <1>4, <1>a, <1>p, <3>2 DEF SaveFails, SkipSave
    <3> QED BY <1>6, <3>1, <3>2
  <2> QED BY <1>6, <1>t, <2>1 DEF SaveFails, SkipSave, KillIssue
<1>7. ASSUME PrintToken
      PROVE  proc' \in Owners /\ call' = call /\ Rest'
  <2>1. proc' \in Owners
    BY <1>7, <1>t DEF Owners, PrintToken
  <2>2. cli.key \in Keys
    BY <1>7, <1>p, <1>s DEF PrintToken, Issuers
  <2>3. issued' \in [Tokens -> Keys \cup {None}]
    BY <1>7, <1>t, <2>2 DEF PrintToken
  <2> QED BY <1>7, <1>t, <2>1, <2>3 DEF PrintToken
<1>8. ASSUME ExitGateway \/ KillGateway
      PROVE  proc' \in Owners /\ call' \in Served /\ Rest'
  <2>1. proc' \in Owners /\ call' \in Served
    BY <1>8, <1>t DEF Owners, Served, ExitGateway, KillGateway
  <2>2. gw.spent \subseteq Spellings
    BY <1>p, <1>s
  <2>3. lost' \subseteq Spellings /\ late' \subseteq Spellings
    BY <1>8, <1>t, <2>2 DEF ExitGateway, KillGateway
  <2> QED BY <1>8, <1>t, <2>1, <2>3 DEF ExitGateway, KillGateway
<1>9. ASSUME NEW c \in Callers, Arrive(c)
      PROVE  proc' = proc /\ call' \in Served /\ Rest'
  BY <1>9, <1>t DEF Arrive, Served, Requests
<1>10. ASSUME NEW c \in Callers, RefuseToken(c) \/ RefuseEmpty(c) \/ Answer(c)
       PROVE  proc' = proc /\ call' \in Served /\ Rest'
  BY <1>10, <1>t DEF RefuseToken, RefuseEmpty, Answer, Served
<1>11. ASSUME NEW c \in Callers, Redeem(c)
       PROVE  proc' \in Owners /\ call' \in Served /\ Rest'
  <2>1. call[c] \in Requests /\ gw.at # "down"
    BY <1>11, <1>c DEF Redeem, Running
  <2>2. call' \in Served
    BY <1>11, <1>t, <2>1 DEF Redeem, Served, Requests
  <2>3. [gw EXCEPT !.spent = @ \cup {call[c].token}] \in Issuers
    BY <1>p, <1>s, <2>1 DEF Issuers, Requests
  <2>4. proc' = [proc EXCEPT !["gateway"] = [gw EXCEPT !.spent = @ \cup {call[c].token}]]
    BY <1>11, <1>p, <1>t DEF Redeem, Owners
  <2>5. proc' \in Owners
    BY <1>t, <2>3, <2>4 DEF Owners
  <2> QED BY <1>11, <1>t, <2>1, <2>2, <2>5 DEF Redeem, Requests
<1>12. ASSUME NEW c \in Callers, Ask(c)
       PROVE  proc' = proc /\ call' \in Served /\ Rest'
  <2>1. call[c] \in Requests
    BY <1>12, <1>c DEF Ask
  <2>2. call' \in Served
    BY <1>12, <1>t, <2>1 DEF Ask, Served, Requests
  <2> QED BY <1>12, <1>t, <2>1, <2>2 DEF Ask, Requests
<1>13. ASSUME UNCHANGED vars
       PROVE  proc' = proc /\ call' = call /\ Rest'
  BY <1>13, <1>t DEF vars
<1> QED BY <1>1, <1>2, <1>3, <1>5, <1>6, <1>7, <1>8, <1>9, <1>10, <1>11,
           <1>12, <1>13, <1>t DEF Next, Serve

LEMMA RunningInit == Init => Running
BY DEF Init, Running, Free

LEMMA RunningStep == TypeOK /\ Running /\ [Next]_vars => Running'
<1> SUFFICES ASSUME TypeOK, Running, [Next]_vars PROVE Running'
  OBVIOUS
<1> USE DEF TypeOK, Processes, Running, Starting, ghosts, Goto, CutCalls, End, Free, Down
<1>1. ASSUME NEW p \in Processes, LoadIssuer(p) \/ Mint(p) PROVE Running'
  BY <1>1 DEF LoadIssuer, Mint
<1>2. ASSUME NEW p \in Processes, BeginSave(p) PROVE Running'
  <2>1. CASE p = "gateway"
    <3>1. /\ gw'.at = "pem" /\ gw'.last = (gw.at = "ready")
          /\ gw.at \in {"minted", "ready"} /\ call' = call
      BY <1>2, <2>1 DEF BeginSave
    <3> QED BY <3>1
  <2>2. CASE p = "issue"
    BY <1>2, <2>2 DEF BeginSave
  <2> QED BY <2>1, <2>2
<1>3. ASSUME NEW p \in Processes, WritePem(p) PROVE Running'
  BY <1>3 DEF WritePem
<1>4. ASSUME NEW p \in Processes, WriteBook(p) PROVE Running'
  BY <1>4 DEF WriteBook, AfterSave
<1>5. ASSUME SaveFails \/ SkipSave \/ PrintToken \/ KillIssue PROVE Running'
  BY <1>5 DEF SaveFails, SkipSave, PrintToken, KillIssue, AfterSave
<1>6. ASSUME ExitGateway \/ KillGateway PROVE Running'
  BY <1>6 DEF ExitGateway, KillGateway
<1>7. ASSUME NEW c \in Callers, Arrive(c) PROVE Running'
  BY <1>7 DEF Arrive
<1>8. ASSUME NEW c \in Callers, Redeem(c) PROVE Running'
  BY <1>8 DEF Redeem, Issuers
<1>9. ASSUME NEW c \in Callers,
             RefuseToken(c) \/ RefuseEmpty(c) \/ Ask(c) \/ Answer(c)
      PROVE  Running'
  BY <1>9 DEF RefuseToken, RefuseEmpty, Ask, Answer
<1>10. ASSUME UNCHANGED vars PROVE Running'
  BY <1>10 DEF vars
<1> QED BY <1>1, <1>2, <1>3, <1>4, <1>5, <1>6, <1>7, <1>8, <1>9, <1>10
        DEF Next, Serve

(* Types hold for all values of the constants.                               *)
THEOREM TypeCorrect == Spec => []TypeOK
BY TypeInit, TypeStep, RunningInit, RunningStep, PTL DEF Spec
-----------------------------------------------------------------------------
(* What is remembered, and where.                                            *)
Copying == cli.at \notin {"down", "saved"} /\ ~stale

Memory ==
  /\ pem = None => /\ book = None /\ gw.at \in {"down", "minted"}
                   /\ cli.at \notin {"pem", "book"}
  /\ book = None => redeemed = {} /\ pem \notin Keys /\ (gw.at = "down" \/ Starting)
  /\ Starting => redeemed = {}
  /\ gw.at # "saved" => late = {}
  /\ gw.at # "down" => Known \subseteq gw.spent
  /\ gw.at = "down" => book = Torn \/ Known \subseteq Saved
  /\ gw.at = "saved" => book = Torn \/ Known \ late \subseteq Saved
  /\ Copying => /\ Saved \subseteq cli.spent
                /\ gw.at = "down" => Known \subseteq cli.spent
                /\ gw.at = "saved" => Known \ late \subseteq cli.spent

LEMMA MemoryStep == TypeOK /\ Running /\ Memory /\ [Next]_vars => Memory'
<1> SUFFICES ASSUME TypeOK, Running, Memory, [Next]_vars PROVE Memory'
  OBVIOUS
<1> USE DEF Memory, Starting, Copying, Known, Saved, ghosts, Goto, Fresh, CutCalls
<1>p. /\ "issue" \in Processes /\ "gateway" \in Processes /\ "issue" # "gateway"
      /\ \A p \in Processes : p = "issue" \/ p = "gateway"
  BY DEF Processes
<1>t. /\ proc \in Owners /\ DOMAIN proc = Processes
      /\ \A p \in Processes : proc[p].at # "down" => proc[p] \in Issuers
  BY DEF TypeOK, Owners, Down
<1>b. book \in {None, Torn} \cup SUBSET Spellings
  BY DEF TypeOK
<1>1. ASSUME LoadIssuer("issue") PROVE Memory'
  <2>1. cli' = [Down EXCEPT !.at = "ready", !.key = pem, !.spent = Saved] /\ gw' = gw
    BY <1>1, <1>p, <1>t DEF LoadIssuer
  <2>2. cli'.spent = Saved
    BY <2>1 DEF Down
  <2> QED BY <1>1, <2>1, <2>2 DEF LoadIssuer
<1>2. ASSUME LoadIssuer("gateway") PROVE Memory'
  <2>1. gw' = [Down EXCEPT !.at = "ready", !.key = pem, !.spent = Saved] /\ cli' = cli
    BY <1>2, <1>p, <1>t DEF LoadIssuer
  <2>2. gw'.spent = Saved /\ gw'.at = "ready"
    BY <2>1 DEF Down
  <2> QED BY <1>2, <1>p, <1>b, <2>1, <2>2 DEF LoadIssuer
<1>3. ASSUME Mint("issue") PROVE Memory'
  <2>1. cli'.at = "minted" /\ gw' = gw
    BY <1>3, <1>p, <1>t DEF Mint, Down
  <2> QED BY <1>3, <2>1 DEF Mint
<1>4. ASSUME Mint("gateway") PROVE Memory'
  <2>1. gw'.at = "minted" /\ cli' = cli
    BY <1>4, <1>p, <1>t DEF Mint, Down
  <2>2. pem = None /\ redeemed = {} /\ UNCHANGED <<pem, book, redeemed, late, lost, stale>>
    BY <1>4, <1>p DEF Mint
  <2> QED BY <2>1, <2>2, <1>4, <1>b DEF Mint
<1>5. ASSUME BeginSave("issue") PROVE Memory'
  <2>1. cli.at \notin {"down", "saved"} /\ cli'.at = "pem" /\ cli'.spent = cli.spent /\ gw' = gw
    BY <1>5, <1>p, <1>t DEF BeginSave
  <2> QED BY <1>5, <2>1 DEF BeginSave
<1>6. ASSUME BeginSave("gateway") PROVE Memory'
  <2>1. /\ gw.at \in {"minted", "ready"} /\ gw'.at = "pem" /\ gw'.spent = gw.spent
        /\ gw'.last = (gw.at = "ready") /\ cli' = cli
    BY <1>6, <1>p, <1>t DEF BeginSave
  <2>2. UNCHANGED <<book, redeemed, late, lost, stale>> /\ pem' = Torn
    BY <1>6 DEF BeginSave
  <2>3. Starting' <=> Starting
    BY <2>1
  <2> QED BY <2>1, <2>2, <2>3
<1>7. ASSUME WritePem("issue") PROVE Memory'
  <2>1. cli.at = "pem" /\ cli'.at = "book" /\ cli'.spent = cli.spent /\ gw' = gw
    BY <1>7, <1>p, <1>t DEF WritePem
  <2>2. pem' \in Keys
    BY <1>7, <1>p, <1>t DEF WritePem, Issuers
  <2> QED BY <1>7, <2>1, <2>2 DEF WritePem
<1>8. ASSUME WritePem("gateway") PROVE Memory'
  <2>1. /\ gw.at = "pem" /\ gw'.at = "book" /\ gw'.spent = gw.spent
        /\ gw'.last = gw.last /\ cli' = cli
    BY <1>8, <1>p, <1>t DEF WritePem
  <2>2. pem' \in Keys
    BY <1>8, <1>p, <1>t DEF WritePem, Issuers
  <2> QED BY <1>8, <2>1, <2>2 DEF WritePem
<1>9. ASSUME WriteBook("issue") PROVE Memory'
  <2>1. /\ cli.at = "book" /\ cli'.at \in {"ready", "saved"}
        /\ cli'.spent = cli.spent /\ gw' = gw
    BY <1>9, <1>p, <1>t DEF WriteBook, AfterSave
  <2>2. book' = cli.spent /\ book' \notin {None, Torn} /\ Saved' = cli.spent
    BY <1>9, <1>p, <1>t DEF WriteBook, Issuers
  <2>3. /\ UNCHANGED <<pem, redeemed, late, stale>>
        /\ lost' = lost \cup (IF stale THEN redeemed \ cli.spent ELSE {})
    BY <1>9, <1>p DEF WriteBook
  <2>4. Copying \/ stale =>
           /\ gw.at = "down" => Known' \subseteq cli.spent
           /\ gw.at = "saved" => Known' \ late \subseteq cli.spent
    BY <2>3
  <2>5. (Starting' <=> Starting) /\ (Copying' => Copying) /\ (Copying \/ stale)
    BY <2>1, <2>3
  <2>6. /\ gw.at = "down" => Known' \subseteq Saved'
        /\ gw.at = "saved" => Known' \ late' \subseteq Saved'
    BY <2>2, <2>3, <2>4, <2>5
  <2>7. Known' \subseteq Known
    BY <2>3
  <2> QED BY <2>1, <2>2, <2>3, <2>5, <2>6, <2>7
<1>10. ASSUME WriteBook("gateway") PROVE Memory'
  <2>1. /\ gw.at = "book" /\ gw'.at = (IF gw.last THEN "saved" ELSE "ready")
        /\ gw'.spent = gw.spent /\ cli' = cli
    BY <1>10, <1>p, <1>t DEF WriteBook, AfterSave
  <2>2. book' = gw.spent /\ book' \notin {None, Torn} /\ Saved' = gw.spent
    BY <1>10, <1>p, <1>t DEF WriteBook, Issuers
  <2>3. UNCHANGED <<pem, redeemed, late, lost>> /\ stale' = (cli.at # "down")
    BY <1>10 DEF WriteBook
  <2> QED BY <2>1, <2>2, <2>3
<1>11. ASSUME SaveFails \/ SkipSave PROVE Memory'
  <2>1. /\ cli.at \notin {"down", "saved"} /\ cli'.at \in {"ready", "saved"}
        /\ cli'.spent = cli.spent /\ gw' = gw
    <3>1. cli.at \in {"minted", "pem", "book", "ready"}
      BY <1>11 DEF SaveFails, SkipSave
    <3>2. \/ proc' = [proc EXCEPT !["issue"].at = "ready"]
          \/ proc' = [proc EXCEPT !["issue"].at = "saved"]
      BY <1>11 DEF SaveFails, SkipSave, AfterSave
    <3>3. gw' = gw
      BY <1>p, <1>t, <3>2
    <3>4. cli \in Issuers
      BY <1>p, <1>t, <3>1
    <3>5. ASSUME NEW at, proc' = [proc EXCEPT !["issue"].at = at]
          PROVE  cli'.at = at /\ cli'.spent = cli.spent
      BY <1>p, <1>t, <3>4, <3>5 DEF Issuers
    <3> QED BY <3>1, <3>2, <3>3, <3>5
  <2> QED BY <1>11, <2>1 DEF SaveFails, SkipSave
<1>12. ASSUME PrintToken \/ KillIssue PROVE Memory'
  <2>1. cli'.at = "down" /\ gw' = gw
    BY <1>12, <1>p, <1>t DEF PrintToken, KillIssue, Down
  <2> QED BY <1>12, <2>1 DEF PrintToken, KillIssue
<1>13. ASSUME ExitGateway PROVE Memory'
  <2>1. gw'.at = "down" /\ cli' = cli
    BY <1>13, <1>p, <1>t DEF ExitGateway, Down
  <2> QED BY <1>13, <2>1 DEF ExitGateway
<1>14. ASSUME KillGateway PROVE Memory'
  <2>1. gw'.at = "down" /\ cli' = cli
    BY <1>14, <1>p, <1>t DEF KillGateway, Down
  <2> QED BY <1>14, <2>1 DEF KillGateway
<1>15. ASSUME NEW c \in Callers, Redeem(c) PROVE Memory'
  <2>1. /\ gw.at # "down" /\ ~Starting
    BY <1>15 DEF Redeem, Running
  <2>2. /\ gw' = [gw EXCEPT !.spent = gw.spent \cup {call[c].token}] /\ cli' = cli
    BY <1>15, <1>p, <1>t DEF Redeem
  <2>3. gw \in Issuers
    BY <1>p, <1>t, <2>1
  <2>4. /\ gw'.at = gw.at /\ gw'.last = gw.last
        /\ gw'.spent = gw.spent \cup {call[c].token}
    BY <2>2, <2>3 DEF Issuers
  <2> QED BY <1>15, <2>1, <2>2, <2>4 DEF Redeem
<1>16. ASSUME NEW c \in Callers,
              Arrive(c) \/ RefuseToken(c) \/ RefuseEmpty(c) \/ Ask(c) \/ Answer(c)
       PROVE  Memory'
  BY <1>16 DEF Arrive, RefuseToken, RefuseEmpty, Ask, Answer
<1>17. ASSUME UNCHANGED vars PROVE Memory'
  BY <1>17 DEF vars
<1> QED BY <1>1, <1>2, <1>3, <1>4, <1>5, <1>6, <1>7, <1>8, <1>9, <1>10, <1>11,
           <1>12, <1>13, <1>14, <1>15, <1>16, <1>17, <1>p DEF Next, Serve

LEMMA MemoryInit == Init => Memory
BY DEF Init, Memory, Known, Starting, Copying, Down, Processes

(* A redeemed token is in memory or on disk, unless a named mishap hit it.   *)
THEOREM Remembered == Spec => []SpentIsRemembered
<1>1. Memory => SpentIsRemembered
  BY DEF Memory, SpentIsRemembered, Known
<1> QED BY <1>1, TypeInit, TypeStep, RunningInit, RunningStep, MemoryInit,
           MemoryStep, PTL DEF Spec

-----------------------------------------------------------------------------
(* One call: a token between redemption and call is in one thread's hands.   *)
Paid(c) == call[c].at = "redeemed"

Hands ==
  /\ again = {} /\ asked \subseteq redeemed
  /\ \A c \in Callers : Paid(c) => call[c].token \in gw.spent \cap redeemed
  /\ \A c, d \in Callers :
       Paid(c) /\ Paid(d) /\ call[c].token = call[d].token => c = d
  /\ \A c \in Callers : call[c].at = "redeemed" => call[c].token \notin asked \ lost

LEMMA HandsInit == Init => Hands
BY DEF Init, Hands, Paid, Free

\* What no request does leaves the hands alone: calls go on or are cut, and
\* the gateway's list stays as long as a call goes on.
LEMMA HandsKept ==
  ASSUME Hands, lost \subseteq lost', UNCHANGED <<redeemed, asked, again>>,
         call' = call \/ \A c \in Callers : call'[c].at = "none",
         \A c \in Callers : call'[c].at # "none" => gw'.spent = gw.spent
  PROVE  Hands'
<1>1. CASE call' = call
  BY <1>1 DEF Hands, Paid
<1>2. CASE \A c \in Callers : call'[c].at = "none"
  BY <1>2 DEF Hands, Paid
<1> QED BY <1>1, <1>2

\* No step gives a token to two threads, or asks twice for one remembered.
LEMMA HandsStep ==
  TypeOK /\ Running /\ Memory /\ Hands /\ [Next]_vars => Hands'
<1> SUFFICES ASSUME TypeOK, Running, Memory, Hands, [Next]_vars PROVE Hands'
  OBVIOUS
<1> USE DEF ghosts
<1>p. "issue" \in Processes /\ "gateway" \in Processes /\ "issue" # "gateway"
  BY DEF Processes
<1>t. /\ proc \in Owners /\ DOMAIN proc = Processes
      /\ \A p \in Processes : proc[p].at # "down" => proc[p] \in Issuers
  BY DEF TypeOK, Owners, Down
<1>c. call \in Served /\ DOMAIN call = Callers
  BY DEF TypeOK, Served
<1>r. \A c \in Callers : /\ call[c].at # "none" => gw.at # "down"
                         /\ call[c].at \in {"arrived", "redeemed"} => call[c] \in Requests
  BY <1>c DEF Served, Free, Asking, Running
<1>1. ASSUME NEW p \in Processes, LoadIssuer(p) \/ Mint(p) PROVE Hands'
  <2>1. \A c \in Callers : call'[c].at # "none" => gw'.spent = gw.spent
    BY <1>1, <1>p, <1>t, <1>r DEF LoadIssuer, Mint
  <2> QED BY <1>1, <2>1, HandsKept DEF LoadIssuer, Mint
<1>2. ASSUME NEW p \in Processes, NEW at, Goto(p, at) PROVE gw'.spent = gw.spent
  BY <1>2, <1>p, <1>t DEF Goto, Owners, Issuers, Down
<1>3. ASSUME NEW p \in Processes, BeginSave(p) PROVE Hands'
  <2>1. gw'.spent = gw.spent
    BY <1>3, <1>p, <1>t DEF BeginSave, Owners, Issuers, Down
  <2> QED BY <1>3, <2>1, HandsKept DEF BeginSave
<1>4. ASSUME NEW p \in Processes, WritePem(p) PROVE Hands'
  BY <1>2, <1>4, HandsKept DEF WritePem
<1>5. ASSUME NEW p \in Processes, WriteBook(p) PROVE Hands'
  <2>1. lost \subseteq lost'
    BY <1>5 DEF WriteBook
  <2> QED BY <1>2, <1>5, <2>1, HandsKept DEF WriteBook
<1>6. ASSUME SaveFails \/ SkipSave PROVE Hands'
  BY <1>2, <1>6, <1>p, HandsKept DEF SaveFails, SkipSave
<1>7. ASSUME PrintToken \/ KillIssue PROVE Hands'
  <2>1. gw' = gw
    BY <1>7, <1>p, <1>t DEF PrintToken, KillIssue
  <2> QED BY <1>7, <2>1, HandsKept DEF PrintToken, KillIssue
<1>8. ASSUME ExitGateway \/ KillGateway PROVE Hands'
  <2>1. \A c \in Callers : call'[c].at = "none"
    BY <1>8 DEF ExitGateway, KillGateway, CutCalls, Free
  <2> QED BY <1>8, <2>1, HandsKept DEF ExitGateway, KillGateway
<1>9. ASSUME NEW c \in Callers, Arrive(c) PROVE Hands'
  <2>1. /\ call'[c].at = "arrived" /\ gw' = gw
        /\ UNCHANGED <<redeemed, asked, again, lost>>
        /\ \A d \in Callers : d # c => call'[d] = call[d]
    BY <1>9, <1>c DEF Arrive
  <2> QED BY <2>1 DEF Hands, Paid
<1>10. ASSUME NEW c \in Callers, RefuseToken(c) \/ RefuseEmpty(c) \/ Answer(c)
       PROVE  Hands'
  <2>1. /\ call'[c].at = "none" /\ gw' = gw
        /\ UNCHANGED <<redeemed, asked, again, lost>>
        /\ \A d \in Callers : d # c => call'[d] = call[d]
    BY <1>10, <1>c DEF RefuseToken, RefuseEmpty, Answer, End, Free
  <2> QED BY <2>1 DEF Hands, Paid
<1>11. ASSUME NEW c \in Callers, Redeem(c) PROVE Hands'
  <2> DEFINE t == call[c].token
  <2>1. gw \in Issuers /\ call[c] \in Requests /\ Known \subseteq gw.spent
    BY <1>11, <1>p, <1>t, <1>r DEF Redeem, Memory
  <2>2. /\ call'[c].at = "redeemed" /\ call'[c].token = t
        /\ \A d \in Callers : d # c => call'[d] = call[d]
    BY <1>11, <1>c, <2>1 DEF Redeem, Requests
  <2>3. gw'.spent = gw.spent \cup {t}
    BY <1>11, <1>p, <1>t, <2>1 DEF Redeem, Issuers
  <2>4. redeemed' = redeemed \cup {t} /\ t \notin gw.spent
        /\ UNCHANGED <<asked, again, lost>>
    BY <1>11 DEF Redeem
  <2>5. \A d \in Callers : Paid(d) => call[d].token # t
    BY <2>4 DEF Hands
  <2>6. t \notin asked \ lost
    BY <2>1, <2>4 DEF Hands, Known
  <2>7. ASSUME NEW d \in Callers, Paid(d)'
        PROVE  /\ call'[d].token \in gw'.spent \cap redeemed'
               /\ d # c => call'[d].token # t
    BY <2>2, <2>3, <2>4, <2>5, <2>7 DEF Hands, Paid
  <2>8. ASSUME NEW d \in Callers, NEW e \in Callers, Paid(d)', Paid(e)',
               call'[d].token = call'[e].token
        PROVE  d = e
    <3>1. CASE d # c /\ e # c
      <4>1. Paid(d) /\ Paid(e) /\ call[d].token = call[e].token
        BY <2>2, <2>8, <3>1 DEF Paid
      <4> QED BY <4>1 DEF Hands
    <3>2. CASE d = c \/ e = c
      BY <2>2, <2>7, <2>8, <3>2
    <3> QED BY <3>1, <3>2
  <2>9. \A d \in Callers : call'[d].at = "redeemed" => call'[d].token \notin asked' \ lost'
    BY <2>2, <2>4, <2>6 DEF Hands
  <2>10. again' = {} /\ asked' \subseteq redeemed'
    BY <2>4 DEF Hands
  <2> QED BY <2>7, <2>8, <2>9, <2>10 DEF Hands
<1>12. ASSUME NEW c \in Callers, Ask(c) PROVE Hands'
  <2> DEFINE t == call[c].token
  <2>1. call[c] \in Requests /\ Paid(c)
    BY <1>12, <1>r DEF Ask, Paid
  <2>2. /\ call'[c].at = "asked"
        /\ \A d \in Callers : d # c => call'[d] = call[d]
    BY <1>12, <1>c, <2>1 DEF Ask, Asking
  <2>3. /\ gw' = gw /\ asked' = asked \cup {t} /\ again' = again \cup ({t} \cap (asked \ lost))
        /\ UNCHANGED <<redeemed, lost>> /\ call[c].at = "redeemed"
    BY <1>12 DEF Ask
  <2>4. again' = {} /\ asked' \subseteq redeemed'
    BY <2>1, <2>3 DEF Hands
  <2>5. \A d \in Callers : call'[d].at = "redeemed" => call'[d].token \notin asked' \ lost'
    BY <2>1, <2>2, <2>3 DEF Hands, Paid
  <2>6. \A d \in Callers : Paid(d)' => Paid(d) /\ call'[d] = call[d]
    BY <2>2 DEF Paid
  <2> QED BY <2>3, <2>4, <2>5, <2>6 DEF Hands
<1>13. ASSUME UNCHANGED vars PROVE Hands'
  BY <1>13, HandsKept DEF vars
<1> QED BY <1>1, <1>3, <1>4, <1>5, <1>6, <1>7, <1>8, <1>9, <1>10, <1>11, <1>12,
           <1>13 DEF Next, Serve

(* A spelling of a token buys at most one call (redeem_header), unless a     *)
(* named mishap hit it.                                                      *)
THEOREM PaysOnce == Spec => []OneCallPerSpelling
<1>1. Hands => OneCallPerSpelling
  BY DEF Hands, OneCallPerSpelling
<1> QED BY <1>1, TypeInit, TypeStep, RunningInit, RunningStep, MemoryInit,
           MemoryStep, HandsInit, HandsStep, PTL DEF Spec
-----------------------------------------------------------------------------
(* The relay. What was asked of the provider is "put" in MCGateway.           *)
AnyContexts == [key : Nat, enc : Questions, header : Headers \cup {OurHeader}]

RelayShape ==
  /\ key \in Nat /\ put \subseteq Questions
  /\ serving \in [Questions -> {"no", "redeemed", "asked"}]
  /\ place \in [Questions -> {"unsent", "waiting", "returned", "failed"}]
  /\ context \in [Questions -> AnyContexts]
  /\ DOMAIN got = Questions

\* A call has one context, of its own ephemeral key and a key pair that was
\* there when it was made, and what the relay holds of it is under that one.
OneContextEach ==
  /\ \A q \in Questions : place[q] # "unsent" => context[q].enc = q /\ context[q].key <= key
  /\ \A u \in upward : u.text \in Questions /\ place[u.text] # "unsent" /\ context[u.text] = u.context
  /\ \A d \in downward : d.text \in put /\ context[d.text] = d.context

\* A thread holds a question this start of the gateway could open, and whose
\* token it has redeemed; it puts it to the provider once.
ServedOnce ==
  \A q \in Questions : serving[q] # "no" =>
    /\ place[q] # "unsent" /\ context[q].key = key /\ TokenOf[q] \in spent
    /\ q \in put <=> serving[q] = "asked"

\* What keeps a question that was asked from being asked again: the token, and
\* once that may be forgotten the key pair.
AskedIsBarred ==
  \A q \in put : place[q] # "unsent" /\ (context[q].key < key \/ TokenOf[q] \in spent)

RelayInv == RelayShape /\ OneContextEach /\ ServedOnce /\ AskedIsBarred /\ Relay!AskedOnce /\ Relay!ReplyIsMine

-----------------------------------------------------------------------------
LEMMA RelayInit == Relay!Init => RelayInv
<1>1. SUFFICES ASSUME Relay!Init PROVE RelayInv
  OBVIOUS
<1>2. ASSUME NEW q \in Questions PROVE Relay!Idle \in AnyContexts
  BY DEF Relay!Idle, AnyContexts
<1>3. RelayShape
  BY <1>1, <1>2 DEF Relay!Init, RelayShape
<1>4. OneContextEach /\ ServedOnce /\ AskedIsBarred
  BY <1>1 DEF Relay!Init, OneContextEach, ServedOnce, AskedIsBarred
<1>5. Relay!AskedOnce /\ Relay!ReplyIsMine
  BY <1>1 DEF Relay!Init, Relay!AskedOnce, Relay!ReplyIsMine
<1>6. QED
  BY <1>3, <1>4, <1>5 DEF RelayInv

LEMMA RelaySendKeeps == ASSUME RelayInv, NEW q \in Questions, Relay!Send(q) PROVE RelayInv'
<1>1. PICK k \in 0..key, header \in Headers :
        /\ context' = [context EXCEPT ![q] = [key |-> k, enc |-> q, header |-> header]]
        /\ upward' = upward \cup {Relay!Seal([key |-> k, enc |-> q, header |-> header], q)}
  BY DEF Relay!Send
<1> DEFINE c == [key |-> k, enc |-> q, header |-> header]
<1>2. c \in AnyContexts /\ c.enc = q /\ c.key = k /\ k \in Nat /\ k <= key
  BY DEF AnyContexts, RelayInv, RelayShape
<1>3. context' = [context EXCEPT ![q] = c] /\ upward' = upward \cup {[context |-> c, text |-> q]}
  BY <1>1 DEF Relay!Seal
<1> HIDE DEF c
<1>4. /\ place[q] = "unsent" /\ place' = [place EXCEPT ![q] = "waiting"]
      /\ UNCHANGED <<key, spent, serving, downward, got, put, again2>>
  BY DEF Relay!Send
<1>5. RelayShape'
  BY <1>2, <1>3, <1>4 DEF RelayInv, RelayShape
<1>6. q \notin put /\ serving[q] = "no"
  BY <1>4 DEF RelayInv, RelayShape, AskedIsBarred, ServedOnce
<1>7. OneContextEach'
  <2>1. \A p \in Questions : place'[p] # "unsent" => context'[p].enc = p /\ context'[p].key <= key'
    BY <1>2, <1>3, <1>4 DEF RelayInv, RelayShape, OneContextEach
  <2>2. \A u \in upward' : u.text \in Questions /\ place'[u.text] # "unsent" /\ context'[u.text] = u.context
    BY <1>3, <1>4 DEF RelayInv, RelayShape, OneContextEach
  <2>3. \A d \in downward' : d.text \in put' /\ context'[d.text] = d.context
    BY <1>3, <1>4, <1>6 DEF RelayInv, RelayShape, OneContextEach
  <2>4. QED
    BY <2>1, <2>2, <2>3 DEF OneContextEach
<1>8. ServedOnce'
  BY <1>3, <1>4, <1>6 DEF RelayInv, RelayShape, ServedOnce
<1>9. AskedIsBarred'
  BY <1>3, <1>4, <1>6 DEF RelayInv, RelayShape, AskedIsBarred
<1>10. Relay!AskedOnce' /\ Relay!ReplyIsMine'
  BY <1>4 DEF RelayInv, RelayShape, Relay!AskedOnce, Relay!ReplyIsMine
<1>11. QED
  BY <1>5, <1>7, <1>8, <1>9, <1>10 DEF RelayInv

(* A question that was asked is opened by this start of the gateway only if   *)
(* its token is spent; the token that Deliver redeems is not.                 *)
LEMMA RelayDeliverKeeps ==
  ASSUME RelayInv, NEW sealed \in upward, NEW enc, NEW header, Relay!Deliver(sealed, enc, header)
  PROVE  RelayInv'
<1> DEFINE q == sealed.text
<1>1. q \in Questions /\ place[q] # "unsent" /\ context[q].key = key
  BY DEF RelayInv, OneContextEach, Relay!Deliver, Relay!Opens, Relay!ContextHere
<1>2. /\ serving[q] = "no" /\ TokenOf[q] \notin spent
      /\ spent' = spent \cup {TokenOf[q]} /\ serving' = [serving EXCEPT ![q] = "redeemed"]
      /\ UNCHANGED <<key, place, context, upward, downward, got, put, again2>>
  BY DEF Relay!Deliver
<1> HIDE DEF q
<1>3. q \notin put
  BY <1>1, <1>2 DEF RelayInv, RelayShape, AskedIsBarred
<1>4. RelayShape' /\ OneContextEach'
  BY <1>1, <1>2 DEF RelayInv, RelayShape, OneContextEach
<1>5. ServedOnce'
  BY <1>1, <1>2, <1>3 DEF RelayInv, RelayShape, ServedOnce
<1>6. AskedIsBarred' /\ Relay!AskedOnce' /\ Relay!ReplyIsMine'
  BY <1>2 DEF RelayInv, AskedIsBarred, Relay!AskedOnce, Relay!ReplyIsMine
<1>7. QED
  BY <1>4, <1>5, <1>6 DEF RelayInv

LEMMA RelayAskKeeps == ASSUME RelayInv, NEW q \in Questions, Relay!Ask(q) PROVE RelayInv'
<1>1. /\ serving[q] = "redeemed" /\ serving' = [serving EXCEPT ![q] = "asked"]
      /\ put' = put \cup {q} /\ again2' = again2 \cup ({q} \cap put)
      /\ UNCHANGED <<key, spent, place, context, upward, downward, got>>
  BY DEF Relay!Ask
<1>2. q \notin put /\ place[q] # "unsent" /\ TokenOf[q] \in spent
  BY <1>1 DEF RelayInv, ServedOnce
<1>3. RelayShape' /\ OneContextEach'
  BY <1>1 DEF RelayInv, RelayShape, OneContextEach
<1>4. ServedOnce'
  BY <1>1 DEF RelayInv, RelayShape, ServedOnce
<1>5. AskedIsBarred' /\ Relay!AskedOnce' /\ Relay!ReplyIsMine'
  BY <1>1, <1>2 DEF RelayInv, AskedIsBarred, Relay!AskedOnce, Relay!ReplyIsMine
<1>6. QED
  BY <1>3, <1>4, <1>5 DEF RelayInv

LEMMA RelayReplyKeeps == ASSUME RelayInv, NEW q \in Questions, Relay!Reply(q) PROVE RelayInv'
<1>1. /\ serving[q] = "asked" /\ serving' = [serving EXCEPT ![q] = "no"]
      /\ downward' \subseteq downward \cup {[context |-> context[q], text |-> q]}
      /\ UNCHANGED <<key, spent, place, context, upward, got, put, again2>>
  BY DEF Relay!Reply, Relay!SealReply, Relay!Seal
<1>2. q \in put
  BY <1>1 DEF RelayInv, ServedOnce
<1>3. RelayShape' /\ OneContextEach'
  BY <1>1, <1>2 DEF RelayInv, RelayShape, OneContextEach
<1>4. ServedOnce'
  BY <1>1 DEF RelayInv, RelayShape, ServedOnce
<1>5. AskedIsBarred' /\ Relay!AskedOnce' /\ Relay!ReplyIsMine'
  BY <1>1 DEF RelayInv, AskedIsBarred, Relay!AskedOnce, Relay!ReplyIsMine
<1>6. QED
  BY <1>3, <1>4, <1>5 DEF RelayInv

(* Whatever tokens are forgotten, every question so far is under an older key. *)
LEMMA RelayRestartKeeps == ASSUME RelayInv, Relay!Restart PROVE RelayInv'
<1>1. /\ key' = key + 1 /\ serving' = [q \in Questions |-> "no"]
      /\ UNCHANGED <<place, context, upward, downward, got, put, again2>>
  BY DEF Relay!Restart
<1>2. ASSUME NEW q \in Questions PROVE context[q].key \in Nat
  BY DEF RelayInv, RelayShape, AnyContexts
<1>3. RelayShape'
  BY <1>1 DEF RelayInv, RelayShape
<1>4. OneContextEach'
  <2>1. \A q \in Questions : place'[q] # "unsent" => context'[q].enc = q /\ context'[q].key <= key'
    BY <1>1, <1>2 DEF RelayInv, RelayShape, OneContextEach
  <2>2. QED
    BY <1>1, <2>1 DEF RelayInv, OneContextEach
<1>5. ServedOnce'
  BY <1>1 DEF ServedOnce
<1>6. AskedIsBarred'
  BY <1>1, <1>2 DEF RelayInv, RelayShape, OneContextEach, AskedIsBarred
<1>7. Relay!AskedOnce' /\ Relay!ReplyIsMine'
  BY <1>1 DEF RelayInv, Relay!AskedOnce, Relay!ReplyIsMine
<1>8. QED
  BY <1>3, <1>4, <1>5, <1>6, <1>7 DEF RelayInv

(* The context that opens a reply names the call the reply was made for.      *)
LEMMA RelayReturnKeeps ==
  ASSUME RelayInv, NEW q \in Questions, NEW sealed \in downward, Relay!Return(q, sealed) PROVE RelayInv'
<1>1. /\ place[q] = "waiting" /\ sealed.context = context[q]
      /\ got' = [got EXCEPT ![q] = sealed.text] /\ place' = [place EXCEPT ![q] = "returned"]
      /\ UNCHANGED <<key, spent, serving, context, upward, downward, put, again2>>
  BY DEF Relay!Return, Relay!Opens
<1>2. /\ sealed.text \in put /\ sealed.text \in Questions /\ place[sealed.text] # "unsent"
      /\ context[sealed.text] = context[q]
  BY <1>1 DEF RelayInv, RelayShape, OneContextEach, AskedIsBarred
<1>3. sealed.text = q
  BY <1>1, <1>2 DEF RelayInv, OneContextEach
<1>4. RelayShape' /\ OneContextEach'
  BY <1>1 DEF RelayInv, RelayShape, OneContextEach
<1>5. ServedOnce' /\ AskedIsBarred' /\ Relay!AskedOnce'
  BY <1>1 DEF RelayInv, RelayShape, ServedOnce, AskedIsBarred, Relay!AskedOnce
<1>6. Relay!ReplyIsMine'
  BY <1>1, <1>2, <1>3 DEF RelayInv, RelayShape, Relay!ReplyIsMine
<1>7. QED
  BY <1>4, <1>5, <1>6 DEF RelayInv

LEMMA RelayFailKeeps == ASSUME RelayInv, NEW q \in Questions, Relay!Fail(q) PROVE RelayInv'
<1>1. /\ place[q] = "waiting" /\ place' = [place EXCEPT ![q] = "failed"]
      /\ UNCHANGED <<key, spent, serving, context, upward, downward, got, put, again2>>
  BY DEF Relay!Fail
<1>2. RelayShape' /\ OneContextEach'
  BY <1>1 DEF RelayInv, RelayShape, OneContextEach
<1>3. ServedOnce' /\ AskedIsBarred' /\ Relay!AskedOnce'
  BY <1>1 DEF RelayInv, RelayShape, ServedOnce, AskedIsBarred, Relay!AskedOnce
<1>4. Relay!ReplyIsMine'
  BY <1>1 DEF RelayInv, RelayShape, Relay!ReplyIsMine
<1>5. QED
  BY <1>2, <1>3, <1>4 DEF RelayInv

LEMMA RelayStep == RelayInv /\ [Relay!Next]_relayVars => RelayInv'
<1>1. SUFFICES ASSUME RelayInv, [Relay!Next]_relayVars PROVE RelayInv'
  OBVIOUS
<1>2. CASE Relay!Restart
  BY <1>1, <1>2, RelayRestartKeeps
<1>3. CASE \E q \in Questions : Relay!Send(q) \/ Relay!Ask(q) \/ Relay!Reply(q) \/ Relay!Fail(q)
  BY <1>1, <1>3, RelaySendKeeps, RelayAskKeeps, RelayReplyKeeps, RelayFailKeeps
<1>4. CASE \E sealed \in upward, enc \in Questions, header \in Headers : Relay!Deliver(sealed, enc, header)
  BY <1>1, <1>4, RelayDeliverKeeps
<1>5. CASE \E q \in Questions, sealed \in downward : Relay!Return(q, sealed)
  BY <1>1, <1>5, RelayReturnKeeps
<1>6. CASE UNCHANGED relayVars
  BY <1>1, <1>6 DEF relayVars, RelayInv, RelayShape, OneContextEach, ServedOnce, AskedIsBarred, Relay!AskedOnce, Relay!ReplyIsMine
<1>7. QED
  BY <1>1, <1>2, <1>3, <1>4, <1>5, <1>6 DEF Relay!Next

(* No relay has a question put to the provider twice, or a reply reach        *)
(* another call (oblivious.py, and handle_ohttp of frontier_gateway.py).      *)
THEOREM Harmless == GSpec => []RelayIsHarmless
<1>1. GInit => RelayInv
  BY RelayInit DEF GInit
<1>2. [GNext]_<<part, vars, relayVars>> => [Relay!Next]_relayVars
  BY DEF GNext, Token
<1>3. RelayInv => RelayIsHarmless
  BY DEF RelayInv, RelayIsHarmless, Relay!RelayIsHarmless
<1>4. QED
  BY <1>1, <1>2, <1>3, RelayStep, PTL DEF GSpec
==============================================================================
