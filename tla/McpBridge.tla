------------------------------- MODULE McpBridge -------------------------------
(* The bridge a model speaks MCP to (oblivio/mcp_server.py) and the app's        *)
(* answers to it (app.py): what the model is told, against what is the case.     *)
(*                                                                            *)
(* The case is a record: whether the app, its node and its replies arrive, what *)
(* the user has switched on and set up, the record that is asked for, and where *)
(* the route of a write fails, seen from the moment the node stores the record. *)
(* A sentence the bridge writes is named, not worded.                           *)
EXTENDS Integers, FiniteSets

Tools == {"save_memory", "list_memories", "read_memory", "keep_status"}

CONSTANT MaxIndex   \* the largest number a record is asked for by (10 000 000 in the code)

None == "none"

-----------------------------------------------------------------------------
(* The app. Every route checks the Host header first, then the token; only    *)
(* three of them are an agent's.                                              *)
Loopback(case) == case.app_host = "loopback"
TokenIsLive(case) == case.agents_on /\ case.token = "current"

(* client(): a sealed key that is not unlocked is an error, and with nothing  *)
(* on disk one is minted.                                                     *)
Locked(case) == case.sealed /\ ~case.unlocked

(* ensure_node starts a node that does not answer, and waits for it.          *)
NodeAnswers(case) == case.node \in {"up", "starts"}

Refusal(status, error) == [status |-> status, error |-> error, stored |-> FALSE]
Forbidden == Refusal(403, "forbidden")

ReadAnswer(case) ==
  IF case.index > MaxIndex THEN Refusal(400, "bad_request")
  ELSE IF Locked(case) THEN Refusal(423, "locked")
  ELSE IF case.node # "up" \/ case.index \notin case.records THEN Refusal(500, "fault")
  ELSE IF case.granted < case.required THEN Refusal(403, "withheld_by_policy")
  ELSE [status |-> 200, error |-> None, stored |-> FALSE]

(* A node that is down is not started by a write, it is the writer's fault.   *)
(* After the node has stored the record the route may still fail: the client   *)
(* refuses the head or cannot write its pin, or the catalogue is not written.  *)
WriteAnswer(case) ==
  IF Locked(case) THEN Refusal(423, "locked")
  ELSE IF ~case.sealed \/ ~case.backed_up THEN Refusal(409, "key_not_backed_up")
  ELSE IF case.node # "up" \/ case.fails = "before" THEN Refusal(500, "fault")
  ELSE IF case.fails = "after" THEN [Refusal(500, "fault") EXCEPT !.stored = TRUE]
  ELSE [status |-> 200, error |-> None, stored |-> TRUE]

StateAnswer(case) ==
  [status |-> 200, error |-> None, stored |-> FALSE, node |-> NodeAnswers(case)]

Answer(case, route) ==
  IF ~Loopback(case) \/ ~TokenIsLive(case) THEN Forbidden
  ELSE IF route = "write" THEN WriteAnswer(case)
  ELSE IF route = "read" THEN ReadAnswer(case)
  ELSE StateAnswer(case)

(* The request: no connection, or no reply within the time, is one error; a   *)
(* refusal keeps its reason.                                                  *)
Unreachable(case) == case.link # "good"
Reaches(case) == case.link # "down"

-----------------------------------------------------------------------------
(* A refusal put into words. Mutant: every 403 is taken for a dead token.     *)
RefusedByStatus(answer) ==
  IF answer.status = 403 THEN "refresh_the_token"
  ELSE IF answer.status = 423 THEN "unlock_the_key"
  ELSE IF answer.status = 409 THEN "protect_the_key"
  ELSE "refused"

Refused(answer) ==
  IF answer.status = 403 /\ answer.error = "withheld_by_policy" THEN "withheld"
  ELSE IF answer.status = 403 THEN "refresh_the_token"
  ELSE IF answer.status = 423 THEN "unlock_the_key"
  ELSE IF answer.status = 409 /\ answer.error = "key_not_backed_up" THEN "protect_the_key"
  ELSE "refused"

(* One call of a tool: what is said, and whether the app has stored anything. *)
Said(words) == [said |-> words, stored |-> FALSE]

Ask(case, route, done) ==
  LET answer == Answer(case, route) IN
    IF Unreachable(case)
      THEN [said |-> "start_the_app", stored |-> Reaches(case) /\ answer.stored]
    ELSE [said |-> IF answer.status # 200 THEN Refused(answer) ELSE done,
          stored |-> answer.stored]

SaveMemory(case) ==
  IF case.token = None THEN Said("enable_agents")
  ELSE IF ~case.text \/ ~case.known_class THEN Said("call_it_differently")
  ELSE Ask(case, "write", "kept")

ReadMemory(case) ==
  IF case.token = None THEN Said("enable_agents")
  ELSE IF case.index < 0 THEN Said("call_it_differently")
  ELSE Ask(case, "read", "the_text")

(* Both tools below ask for the app's state, and first see whether the node   *)
(* is up. Records above the tier are counted, not listed.                     *)
AskState(case, done) ==
  IF ~Unreachable(case) /\ Loopback(case) /\ TokenIsLive(case) /\ ~NodeAnswers(case)
    THEN Said("node_is_down")
    ELSE Ask(case, "state", done)

ListMemories(case) ==
  IF case.token = None THEN Said("enable_agents") ELSE AskState(case, "the_list")

KeepStatus(case) ==
  IF case.token = None THEN Said(IF Unreachable(case) THEN "start_the_app" ELSE "enable_agents")
  ELSE AskState(case, "healthy")

CallTool(case, name) ==
  IF name = "save_memory" THEN SaveMemory(case)
  ELSE IF name = "read_memory" THEN ReadMemory(case)
  ELSE IF name = "list_memories" THEN ListMemories(case)
  ELSE KeepStatus(case)

(* One message in, at most one out. A notification is not answered.           *)
Handle(case, msg) ==
  IF msg.method \in {"initialize", "ping", "tools_list"} THEN Said("a_result")
  ELSE IF msg.method = "tools_call" /\ msg.name \in Tools THEN CallTool(case, msg.name)
  ELSE IF msg.method = "tools_call" THEN Said("no_such_tool")
  ELSE IF msg.method = "not_json" THEN Said("parse_error")
  ELSE IF ~msg.has_id THEN Said("nothing")
  ELSE Said("no_such_method")

-----------------------------------------------------------------------------
(* Each refusal is said of the case it is about, and only then: a model that   *)
(* acts on the words acts on the facts. What was stored is never refused with   *)
(* a reason: a lost reply leaves the model in the dark, and a route that fails  *)
(* after the node has stored tells it of a fault, which promises nothing.      *)
Called(msg, names) == msg.method = "tools_call" /\ msg.name \in names

WordsAreTrue(case, msg) ==
  LET out == Handle(case, msg)
      asked == ~Unreachable(case) /\ Loopback(case) /\ TokenIsLive(case)
  IN /\ out.said = "withheld" <=>
          /\ Called(msg, {"read_memory"}) /\ asked
          /\ ~Locked(case) /\ case.node = "up"
          /\ case.index \in case.records /\ case.granted < case.required
     /\ out.said = "refresh_the_token" => ~TokenIsLive(case) \/ ~Loopback(case)
     /\ out.said = "unlock_the_key" => asked /\ Locked(case)
     /\ out.said = "protect_the_key" => asked /\ ~Locked(case) /\ ~(case.sealed /\ case.backed_up)
     /\ out.said = "the_text" => asked /\ case.granted >= case.required
     /\ out.said = "kept" => out.stored
     /\ out.stored => \/ out.said = "kept" \/ case.link = "reply_lost"
                      \/ out.said = "refused" /\ asked /\ case.fails = "after"
=============================================================================
