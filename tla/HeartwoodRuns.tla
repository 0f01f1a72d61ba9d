----------------------------- MODULE HeartwoodRuns -----------------------------
(* Effort checks of the app (app.py, the hw routes): installing the Heartwood *)
(* tree, one check at a time on a thread of its own, and the event streams    *)
(* that tell the page how it goes. A check puts its events on a queue; a      *)
(* stream takes them off and writes them to its connection.                   *)
EXTENDS Naturals, Sequences, FiniteSets

CONSTANTS
  Checks,      \* bound: run ids
  Streams,     \* bound: connections to /api/hw/events
  Installers,  \* bound: requests to /api/hw/install
  MaxNotes     \* bound: progress events of a check

ASSUME MaxNotes \in Nat

VARIABLES
  tree,        \* what is where the Heartwood tree is looked for
  installer,   \* request -> where it is
  stage,       \* check -> where its thread is; "lost": it could not be started
  verdict,     \* check -> how it concluded
  events,      \* check -> HW_RUNS[id]["q"]
  emitted,     \* ghost: check -> every event it ever put
  stream,      \* connection -> [of, at, event]
  told         \* connection -> the events written to it

runsVars == <<tree, installer, stage, verdict, events, emitted, stream, told>>

NoEvent == "none"
Unopened == [of |-> 0, at |-> "closed", event |-> NoEvent]

RunsInit ==
  /\ tree = "none" /\ installer = [i \in Installers |-> "idle"]
  /\ stage = [c \in Checks |-> "none"] /\ verdict = [c \in Checks |-> NoEvent]
  /\ events = [c \in Checks |-> <<>>] /\ emitted = [c \in Checks |-> <<>>]
  /\ stream = [s \in Streams |-> Unopened] /\ told = [s \in Streams |-> <<>>]

(* ------------------------------- Installing ------------------------------- *)

\* install_heartwood goes on only when nothing is at the destination.
Install(i) ==
  /\ installer[i] = "idle" /\ tree = "none"
  /\ installer' = [installer EXCEPT ![i] = "checked"]
  /\ UNCHANGED <<tree, stage, verdict, events, emitted, stream, told>>

\* git clone makes the directory, and refuses one that has become non-empty.
BeginClone(i) ==
  /\ installer[i] = "checked"
  /\ IF tree = "none"
       THEN tree' = "partial" /\ installer' = [installer EXCEPT ![i] = "cloning"]
       ELSE UNCHANGED tree /\ installer' = [installer EXCEPT ![i] = "idle"]
  /\ UNCHANGED <<stage, verdict, events, emitted, stream, told>>

\* It ends; or fails and removes what it made; or is killed after 180 seconds
\* or with the app, and what it made stays.
EndClone(i) ==
  /\ installer[i] = "cloning"
  /\ tree' \in {"whole", "none", "partial"}
  /\ installer' = [installer EXCEPT ![i] = "idle"]
  /\ UNCHANGED <<stage, verdict, events, emitted, stream, told>>

(* -------------------------------- Checking -------------------------------- *)

Running == {c \in Checks : stage[c] \notin {"none", "done"}}

\* Under HW_LOCK: a check is entered if every other is done.
Register(c) ==
  /\ stage[c] = "none" /\ Running = {}
  /\ stage' = [stage EXCEPT ![c] = "entered"]
  /\ UNCHANGED <<tree, installer, verdict, events, emitted, stream, told>>

StartThread(c) ==
  /\ stage[c] = "entered" /\ stage' = [stage EXCEPT ![c] = "running"]
  /\ UNCHANGED <<tree, installer, verdict, events, emitted, stream, told>>

\* No thread can be started: the entry stays.
StartFails(c) ==
  /\ stage[c] = "entered" /\ stage' = [stage EXCEPT ![c] = "lost"]
  /\ UNCHANGED <<tree, installer, verdict, events, emitted, stream, told>>

Emit(c, e) ==
  /\ events' = [events EXCEPT ![c] = Append(@, e)]
  /\ emitted' = [emitted EXCEPT ![c] = Append(@, e)]

\* A question of the check was answered. Without the tree it gets nowhere.
Note(c) ==
  /\ stage[c] = "running" /\ tree = "whole" /\ Len(emitted[c]) < MaxNotes
  /\ Emit(c, "note")
  /\ UNCHANGED <<tree, installer, stage, verdict, stream, told>>

\* The last event of hw_run, on every path.
Conclude(c, e) ==
  /\ stage[c] = "running"
  /\ e = "done" => Len(emitted[c]) = MaxNotes
  /\ Emit(c, e)
  /\ verdict' = [verdict EXCEPT ![c] = e]
  /\ stage' = [stage EXCEPT ![c] = "concluded"]
  /\ UNCHANGED <<tree, installer, stream, told>>

\* Mutant: done is set at the end of the body, which errors do not reach.
SettleSuccess(c) ==
  /\ stage[c] = "concluded" /\ verdict[c] = "done"
  /\ stage' = [stage EXCEPT ![c] = "done"]
  /\ UNCHANGED <<tree, installer, verdict, events, emitted, stream, told>>

\* finally: st["done"] = True, after the last event is on the queue.
Settle(c) ==
  /\ stage[c] = "concluded" /\ stage' = [stage EXCEPT ![c] = "done"]
  /\ UNCHANGED <<tree, installer, verdict, events, emitted, stream, told>>

(* -------------------------------- Streaming ------------------------------- *)

At(s, place, e) == stream' = [stream EXCEPT ![s].at = place, ![s].event = e]

OpenStream(s, c) ==
  /\ stream[s] = Unopened /\ stage[c] # "none"
  /\ stream' = [stream EXCEPT ![s] = [of |-> c, at |-> "waiting", event |-> NoEvent]]
  /\ UNCHANGED <<tree, installer, stage, verdict, events, emitted, told>>

Take(s) ==
  LET c == stream[s].of IN
  /\ stream[s].at = "waiting" /\ events[c] # <<>>
  /\ At(s, "writing", Head(events[c]))
  /\ events' = [events EXCEPT ![c] = Tail(@)]
  /\ UNCHANGED <<tree, installer, stage, verdict, emitted, told>>

Write(s) ==
  /\ stream[s].at = "writing" /\ At(s, "waiting", NoEvent)
  /\ told' = [told EXCEPT ![s] = Append(@, stream[s].event)]
  /\ UNCHANGED <<tree, installer, stage, verdict, events, emitted>>

\* Half a second without an event.
TimeOut(s) ==
  /\ stream[s].at = "waiting" /\ events[stream[s].of] = <<>>
  /\ At(s, "late", NoEvent)
  /\ UNCHANGED <<tree, installer, stage, verdict, events, emitted, told>>

\* Mutant: a check that is done has nothing more to say.
EndStreamWhenDone(s) ==
  /\ stream[s].at = "late" /\ stage[stream[s].of] = "done"
  /\ At(s, "ended", NoEvent)
  /\ UNCHANGED <<tree, installer, stage, verdict, events, emitted, told>>

\* The check is done, and the queue, looked at again after that, is empty.
EndStream(s) ==
  /\ stream[s].at = "late"
  /\ stage[stream[s].of] = "done" /\ events[stream[s].of] = <<>>
  /\ At(s, "ended", NoEvent)
  /\ UNCHANGED <<tree, installer, stage, verdict, events, emitted, told>>

Ping(s) ==
  /\ stream[s].at = "late"
  /\ ~(stage[stream[s].of] = "done" /\ events[stream[s].of] = <<>>)
  /\ At(s, "waiting", NoEvent)
  /\ UNCHANGED <<tree, installer, stage, verdict, events, emitted, told>>

\* The page closed the connection; an event on its way is lost.
Hangup(s) ==
  /\ stream[s].at \in {"writing", "late"} /\ At(s, "broken", NoEvent)
  /\ UNCHANGED <<tree, installer, stage, verdict, events, emitted, told>>

\* The app ends or is killed, and starts again. The tree is all that stays.
RestartRuns ==
  /\ installer' = [i \in Installers |-> "idle"]
  /\ stage' = [c \in Checks |-> "none"] /\ verdict' = [c \in Checks |-> NoEvent]
  /\ events' = [c \in Checks |-> <<>>] /\ emitted' = [c \in Checks |-> <<>>]
  /\ stream' = [s \in Streams |-> Unopened] /\ told' = [s \in Streams |-> <<>>]
  /\ UNCHANGED tree

CheckStep(c) ==
  \/ StartThread(c) \/ Note(c) \/ \E e \in {"done", "error"} : Conclude(c, e)
  \/ Settle(c)
StreamStep(s) == Take(s) \/ Write(s) \/ TimeOut(s) \/ EndStream(s) \/ Ping(s)

RunsNext ==
  \/ \E i \in Installers : Install(i) \/ BeginClone(i) \/ EndClone(i)
  \/ \E c \in Checks : Register(c) \/ StartFails(c) \/ CheckStep(c)
  \/ \E s \in Streams :
       (\E c \in Checks : OpenStream(s, c)) \/ StreamStep(s) \/ Hangup(s)
  \/ RestartRuns

\* Threads are scheduled, and every call a check makes answers or raises.
RunsSpec ==
  /\ RunsInit /\ [][RunsNext]_runsVars
  /\ \A c \in Checks : WF_runsVars(CheckStep(c))
  /\ \A s \in Streams : WF_runsVars(StreamStep(s))

-----------------------------------------------------------------------------
\* A stream that the app ends, not the page, was told everything, the verdict
\* last, if it was the only one: nothing the check put on the queue between the
\* last time-out and the end of the thread is missed.
StreamToldAll ==
  \A s \in Streams :
    stream[s].at = "ended" /\ (\A u \in Streams \ {s} : stream[u].of # stream[s].of)
      => told[s] = emitted[stream[s].of] /\ verdict[stream[s].of] = told[s][Len(told[s])]

\* A check whose thread was started is done some day, whatever goes wrong in it,
\* so that another can be; and so is every stream that shows it. (Unless the app
\* is restarted before, which ends both.)
EveryCheckEnds ==
  /\ \A c \in Checks : stage[c] = "running" ~> stage[c] \in {"done", "none"}
  /\ \A s \in Streams, c \in Checks :
       (stream[s].of = c /\ stage[c] = "running")
         ~> stream[s].at \in {"ended", "broken", "closed"}
================================================================================
