------------------------------ MODULE Local_proof ------------------------------
(* What runs on the user's own machine: the dispatch channel, the runs of the *)
(* effort checks, and the agent gate. They share nothing but the user, and a  *)
(* theorem here is about one of them, for any values of its constants.        *)
EXTENDS Dispatch, HeartwoodRuns, AgentGate, TLAPS, FiniteSetTheorems,
        WellFoundedInduction

-----------------------------------------------------------------------------
(* The dispatch channel: for any questions, phrases, buckets, tokens,        *)
(* interval and number of accepted questions: types, order, unlinkability    *)
(* and the clock.                                                            *)
Accepted == [question : Questions, token : Tokens \cup {NoToken}]
Outcomes == {"reply", "error"}
Gone == Len(asked) - Len(queue)

-----------------------------------------------------------------------------
(* The types hold in every state.                                            *)
LEMMA TypeInit == Init => TypeOK
BY QuestionAssumption, TimeAssumption, TokenAssumption
   DEF Init, TypeOK, Tickets, CoverBucket, Idle, Modes

(* A step keeps the types.                                                   *)
LEMMA TypeStep == TypeOK /\ [Next]_vars => TypeOK'
<1> USE QuestionAssumption, TimeAssumption, TokenAssumption
<1> SUFFICES ASSUME TypeOK, [Next]_vars PROVE TypeOK'
  OBVIOUS
<1> USE DEF TypeOK, Tickets
<1>1. ASSUME NEW q \in Questions, NEW t \in Tokens \cup {NoToken}, Submit(q, t)
      PROVE  TypeOK'
  <2>1. /\ asked' \in Seq(Accepted) /\ Len(asked') = Len(asked) + 1
        /\ queue' \in Seq(Tickets')
    BY <1>1 DEF Submit, Accepted
  <2>2. seen' \subseteq UNION {Ngrams[p] : p \in Questions}
    BY <1>1 DEF Submit
  <2>3. spent' \subseteq Tokens
    BY <1>1 DEF Submit, Spend
  <2>4. /\ sending' \in Tickets' \cup {Idle, Cover} /\ DOMAIN results' \subseteq Tickets'
        /\ \A k \in DOMAIN results' : results'[k] \in {"reply", "error"}
        /\ mode' \in Modes /\ strict' \in BOOLEAN /\ wait' \in Int /\ wire' \in Nat
    BY <1>1, <2>1 DEF Submit
  <2> QED BY <2>1, <2>2, <2>3, <2>4 DEF Accepted
<1>2. ASSUME NEW q \in Questions, NEW t \in Tokens \cup {NoToken}, RefuseLinked(q, t)
      PROVE  TypeOK'
  BY <1>2 DEF RefuseLinked, Spend
<1>3. ASSUME Pass PROVE TypeOK'
  BY <1>3 DEF Pass
<1>4. ASSUME NextSlot PROVE wait' \in Int
  BY <1>4 DEF NextSlot, Gaps
<1>5. ASSUME queue # <<>>
      PROVE  Head(queue) \in Tickets /\ Tail(queue) \in Seq(Tickets)
  BY <1>5
<1>6. ASSUME TickReal PROVE TypeOK'
  <2>1. asked[Head(queue)] \in Accepted
    <3>1. asked \in Seq(Accepted) /\ Head(queue) \in 1 .. Len(asked)
      BY <1>5, <1>6 DEF TickReal, Accepted
    <3> QED BY <3>1
  <2>2. wire' \in Nat
    <3>1. asked[Head(queue)].question \in Questions
      BY <2>1 DEF Accepted
    <3> QED BY <1>6, <3>1 DEF TickReal
  <2>3. queue' \in Seq(Tickets') /\ sending' \in Tickets' /\ Tickets' = Tickets
    BY <1>5, <1>6 DEF TickReal
  <2> QED BY <1>4, <1>6, <2>2, <2>3 DEF TickReal
<1>7. ASSUME TickCover PROVE TypeOK'
  BY <1>4, <1>7 DEF TickCover, CoverBucket
<1>8. ASSUME TickTooLong PROVE TypeOK'
  BY <1>4, <1>5, <1>8 DEF TickTooLong, Nothing
<1>9. ASSUME NEW outcome \in Outcomes, Answer(outcome) PROVE TypeOK'
  BY <1>9 DEF Answer, Idle, Outcomes
<1>10. ASSUME UNCHANGED vars PROVE TypeOK'
  BY <1>10 DEF vars
<1> QED BY <1>1, <1>2, <1>3, <1>6, <1>7, <1>8, <1>9, <1>10 DEF Next, Tick, Outcomes

(* Types hold for all values of the constants.                               *)
THEOREM TypeCorrect == Spec => []TypeOK
BY TypeInit, TypeStep, PTL DEF Spec

-----------------------------------------------------------------------------
(* Order: what submit() and the tick do to the tickets.                      *)
(* FirstInFirstOut says nothing of the ticket in send(), so it is no         *)
(* invariant of Answer by itself: what is being sent must be known to fit.   *)
Order ==
  /\ FirstInFirstOut
  /\ Gone \in Nat
  /\ sending = Gone /\ Gone # 0 => Fits(Question(Gone))

(* A step keeps the order of the tickets and of what became of them.         *)
LEMMA OrderStep == TypeOK /\ Order /\ [Next]_vars => Order'
<1> USE QuestionAssumption, TimeAssumption, TokenAssumption
<1> SUFFICES ASSUME TypeOK, Order, [Next]_vars PROVE Order'
  OBVIOUS
<1> USE DEF Order, FirstInFirstOut, Gone, Question, Fits
<1>t. asked \in Seq(Accepted) /\ queue \in Seq(Tickets) /\ DOMAIN results \subseteq Tickets
  BY DEF TypeOK, Accepted
<1>1. ASSUME NEW q \in Questions, NEW t \in Tokens \cup {NoToken}, Submit(q, t)
      PROVE  Order'
  <2>1. /\ Len(asked') = Len(asked) + 1 /\ Len(queue') = Len(queue) + 1
        /\ Gone' = Gone /\ results' = results /\ sending' = sending
        /\ \A k \in 1 .. Len(asked) : asked'[k] = asked[k]
    BY <1>1, <1>t DEF Submit, Accepted
  <2>2. \A i \in 1 .. Len(queue') : queue'[i] = Gone' + i
    BY <1>1, <1>t, <2>1 DEF Submit
  <2>3. Gone' <= Len(asked) /\ \A k \in 1 .. Gone' : asked'[k] = asked[k]
    BY <2>1, <1>t
  <2>4. DOMAIN results' \subseteq Nat /\ (sending' = Gone' /\ Gone' # 0 => Fits(Question(Gone)'))
    <3>1. DOMAIN results' \subseteq Nat
      BY <2>1, <1>t DEF Tickets
    <3>2. ASSUME sending' = Gone', Gone' # 0 PROVE Fits(Question(Gone)')
      <4>1. Gone' \in 1 .. Gone' /\ sending = Gone /\ Gone # 0 /\ Gone' = Gone
        BY <2>1, <3>2
      <4>2. asked'[Gone] = asked[Gone] /\ Fits(Question(Gone))
        BY <2>3, <4>1
      <4> QED BY <4>1, <4>2
    <3> QED BY <3>1, <3>2
  <2>5. \A k \in 1 .. Gone' : k = sending' \/ (k \in DOMAIN results' <=> Fits(Question(k)'))
    BY <2>1, <2>3
  <2> QED BY <2>1, <2>2, <2>4, <2>5
<1>2. ASSUME UNCHANGED <<asked, queue, results, sending>>
      PROVE  Order'
  BY <1>2
<1>3. ASSUME queue # <<>>, queue' = Tail(queue), UNCHANGED <<asked, results>>
      PROVE  /\ Head(queue) = Gone + 1 /\ Gone' = Gone + 1 /\ (Gone \in Nat)'
             /\ \A i \in 1 .. Len(queue') : queue'[i] = Gone' + i
  BY <1>3, <1>t
<1>4. ASSUME TickReal PROVE Order'
  <2>1. sending = Idle /\ sending' = Gone' /\ Gone' = Gone + 1
    BY <1>3, <1>4 DEF TickReal, Due
  <2>2. /\ asked' = asked /\ results' = results
        /\ \A k \in DOMAIN results : k \in Nat /\ k <= Gone
    BY <1>4, <1>t, <2>1 DEF TickReal, Tickets
  <2>3. \A k \in 1 .. Gone' : k = sending' \/ (k \in DOMAIN results' <=> Fits(Question(k)'))
    BY <1>3, <1>t, <2>1, <2>2 DEF Idle
  <2>4. \A k \in DOMAIN results' : k <= Gone' /\ k # sending'
    BY <1>3, <1>t, <2>1, <2>2
  <2> QED BY <1>3, <1>4, <2>1, <2>2, <2>3, <2>4 DEF TickReal
<1>5. ASSUME TickCover PROVE Order'
  BY <1>5, <1>t DEF TickCover, Due, Idle, Cover, Tickets
<1>6. ASSUME TickTooLong PROVE Order'
  <2>1. Gone' = Gone + 1 /\ Gone' \notin DOMAIN results /\ ~Fits(asked[Gone'].question)
    BY <1>3, <1>6, <1>t DEF TickTooLong
  <2> QED BY <1>3, <1>6, <1>t, <2>1 DEF TickTooLong, Due, Idle, Tickets
<1>7. ASSUME NEW outcome \in Outcomes, Answer(outcome)
      PROVE  Order'
  <2>1. asked' = asked /\ queue' = queue /\ Gone' = Gone /\ sending' = Idle
    BY <1>7 DEF Answer
  <2>2. CASE sending = Cover
    BY <1>7, <1>t, <2>1, <2>2 DEF Answer, Idle, Cover, Tickets
  <2>3. CASE sending # Cover
    <3>1. sending = Gone /\ DOMAIN results' = DOMAIN results \cup {Gone}
      BY <1>7, <2>3 DEF Answer
    <3>2. Gone # 0
      BY <1>7, <3>1 DEF Answer, Idle
    <3>3. /\ Gone' = Gone /\ Gone \in Nat \ {0} /\ Fits(Question(Gone))
          /\ Gone' \in Nat /\ sending' # Gone' /\ sending' = Idle
      BY <2>1, <3>1, <3>2 DEF Idle
    <3>4. /\ \A i \in 1 .. Len(queue') : queue'[i] = Gone' + i
          /\ DOMAIN results' \subseteq Nat
      BY <1>t, <2>1, <3>1, <3>3 DEF Tickets
    <3>5. \A k \in DOMAIN results' : k <= Gone' /\ k # sending'
      BY <1>t, <2>1, <3>1, <3>3 DEF Idle, Tickets
    <3>6. \A k \in 1 .. Gone' : k \in DOMAIN results' <=> Fits(Question(k)')
      BY <2>1, <3>1, <3>3
    <3> QED BY <3>3, <3>4, <3>5, <3>6
  <2> QED BY <2>2, <2>3
<1> QED BY <1>1, <1>2, <1>4, <1>5, <1>6, <1>7
        DEF Next, Tick, vars, Outcomes, RefuseLinked, Pass

(* Tickets are resolved once, in the order of submission, none is lost.      *)
THEOREM QueueIsFair == Spec => []FirstInFirstOut
<1> USE QuestionAssumption, TimeAssumption, TokenAssumption
<1>1. Init => Order
  BY DEF Init, Order, FirstInFirstOut, Gone, Idle
<1>2. Order => FirstInFirstOut
  BY DEF Order
<1> QED BY <1>1, <1>2, OrderStep, TypeCorrect, PTL DEF Spec

-----------------------------------------------------------------------------
(* What submit() remembers of the accepted questions covers all of them: it  *)
(* is this, and not Unlinkable alone, that a further question preserves.     *)
Remembered ==
  \A k \in Tickets :
    /\ Ngrams[Question(k)] \subseteq seen
    /\ asked[k].token \in spent \cup {NoToken}

(* A step keeps what is remembered, and with it that no two are linked.      *)
LEMMA LinkStep ==
  TypeOK /\ Remembered /\ Unlinkable /\ [Next]_vars => Remembered' /\ Unlinkable'
<1> USE QuestionAssumption, TimeAssumption, TokenAssumption
<1> SUFFICES ASSUME TypeOK, Remembered, Unlinkable, [Next]_vars
             PROVE  Remembered' /\ Unlinkable'
  OBVIOUS
<1> USE DEF Remembered, Unlinkable, Question, Tickets
<1>t. asked \in Seq(Accepted) /\ spent \subseteq Tokens
  BY DEF TypeOK, Accepted
<1>1. ASSUME NEW q \in Questions, NEW t \in Tokens \cup {NoToken}, Submit(q, t)
      PROVE  Remembered' /\ Unlinkable'
  <2> DEFINE new == Len(asked) + 1
  <2>1. /\ Len(asked') = new
        /\ \A k \in 1 .. Len(asked) : asked'[k] = asked[k]
        /\ asked'[new].question = q /\ asked'[new].token = t
        /\ strict' = strict
    BY <1>1, <1>t DEF Submit, Accepted
  <2>2. \A k \in 1 .. Len(asked') : k = new \/ k \in 1 .. Len(asked)
    BY <2>1, <1>t
  <2>3. seen' = seen \cup Ngrams[q] /\ spent \subseteq spent' /\ t \in spent' \cup {NoToken}
    BY <1>1 DEF Submit, Spend
  <2>4. Remembered'
    BY <2>1, <2>2, <2>3
  <2>5. \A k \in 1 .. Len(asked) : asked[k].token = t => t = NoToken
    BY <1>1, <1>t DEF Submit
  <2>6. strict => \A k \in 1 .. Len(asked) : Ngrams[asked[k].question] \cap Ngrams[q] = {}
    BY <1>1 DEF Submit, Linked
  <2>7. Unlinkable'
    BY <2>1, <2>2, <2>5, <2>6
  <2> QED BY <2>4, <2>7
<1>2. ASSUME NEW q \in Questions, NEW t \in Tokens \cup {NoToken}, RefuseLinked(q, t)
      PROVE  Remembered' /\ Unlinkable'
  BY <1>2 DEF RefuseLinked, Spend
<1>3. ASSUME UNCHANGED <<asked, seen, spent, strict>>
      PROVE  Remembered' /\ Unlinkable'
  BY <1>3
<1> QED BY <1>1, <1>2, <1>3
        DEF Next, Tick, vars, Pass, TickReal, TickCover, TickTooLong, Answer

(* A token authorises one question, and strict linkage keeps the accepted    *)
(* questions free of common phrases.                                         *)
THEOREM QuestionsStayUnlinkable == Spec => []Unlinkable
<1> USE QuestionAssumption, TimeAssumption, TokenAssumption
<1>1. Init => Remembered /\ Unlinkable
  BY DEF Init, Remembered, Unlinkable, Tickets
<1> QED BY <1>1, LinkStep, TypeCorrect, PTL DEF Spec

-----------------------------------------------------------------------------
(* A step of the channel is a step of the Metronome, or none that shows, as  *)
(* long as no question longer than the cover has been accepted.              *)
LEMMA ClockStep ==
  TypeOK /\ AsShortAsCover' /\ [Next]_vars => [Clock!Next]_<<wait, wire>>
<1> USE QuestionAssumption, TimeAssumption, TokenAssumption
<1> SUFFICES ASSUME TypeOK, AsShortAsCover', [Next]_vars
             PROVE  [Clock!Next]_<<wait, wire>>
  OBVIOUS
<1>1. ASSUME Pass PROVE Clock!Pass
  BY <1>1 DEF Pass, Clock!Pass
<1>2. ASSUME mode = "constant", NextSlot PROVE wait' = Interval
  BY <1>2 DEF NextSlot, Gaps
<1>3. ASSUME queue # <<>>, asked' = asked
      PROVE  Bucket[Question(Head(queue))] = CoverBucket
  <2>1. Head(queue) \in Tickets
    BY <1>3 DEF TypeOK
  <2> QED BY <1>3, <2>1 DEF AsShortAsCover, Question, Tickets
<1>4. ASSUME TickReal PROVE Clock!Beat
  BY <1>2, <1>3, <1>4 DEF TickReal, Due, Clock!Beat, AsShortAsCover, Question
<1>5. ASSUME TickCover PROVE Clock!Beat
  BY <1>2, <1>5 DEF TickCover, Due, Clock!Beat, AsShortAsCover
<1>6. ASSUME TickTooLong PROVE FALSE
  BY <1>3, <1>6 DEF TickTooLong, Fits, Question, CoverBucket
<1>7. ASSUME UNCHANGED <<wait, wire>> PROVE [Clock!Next]_<<wait, wire>>
  BY <1>7
<1> QED BY <1>1, <1>4, <1>5, <1>6, <1>7
        DEF Next, Tick, vars, Clock!Next, Submit, RefuseLinked, Answer

(* The channel implements the Metronome while its questions are no longer    *)
(* than the cover: what leaves, and when, does not depend on what is asked.  *)
THEOREM ChannelIsAClock == Spec => ImplementsClock
<1> USE QuestionAssumption, TimeAssumption, TokenAssumption
<1>1. Init => Clock!Init
  BY DEF Init, Clock!Init
<1>2. TypeOK /\ [Next]_vars => [AsShortAsCover' => Clock!Next]_<<wait, wire>>
  BY ClockStep
<1> QED BY <1>1, <1>2, TypeCorrect, PTL DEF Spec, ImplementsClock

-----------------------------------------------------------------------------
(* The effort checks: for any number of checks, connections and notes. *)

Events == {"note", "done", "error"}
Stages == {"none", "entered", "lost", "running", "concluded", "done"}
Places == {"closed", "waiting", "writing", "late", "ended", "broken"}
Connections == [of : Checks \cup {0}, at : Places, event : Events \cup {NoEvent}]

RunsTypes ==
  /\ stage \in [Checks -> Stages] /\ verdict \in [Checks -> Events \cup {NoEvent}]
  /\ events \in [Checks -> Seq(Events)] /\ emitted \in [Checks -> Seq(Events)]
  /\ stream \in [Streams -> Connections] /\ told \in [Streams -> Seq(Events)]
  /\ \A s \in Streams :
       /\ stream[s].at # "closed" => stream[s].of \in Checks
       /\ stream[s].at = "writing" => stream[s].event \in Events

(* No other connection that was opened shows the check that s shows. *)
Sole(s) == \A u \in Streams \ {s} : stream[u].at = "closed" \/ stream[u].of # stream[s].of
Unshown(c) == \A u \in Streams : stream[u].at = "closed" \/ stream[u].of # c

(* What s was told, with the event it holds in between. *)
Taken(s) == IF stream[s].at = "writing" THEN Append(told[s], stream[s].event) ELSE told[s]

(* The inductive invariant. What a check put on its queue is still there, or *)
(* the only stream that shows it has taken it, in that order; the last of it *)
(* is the verdict; and a stream ends on an empty queue of a check that is    *)
(* done.                                                                     *)
NothingMissed ==
  /\ \A c \in Checks : Unshown(c) => events[c] = emitted[c]
  /\ \A s \in Streams : stream[s].at = "closed" => told[s] = <<>>
  /\ \A s \in Streams : stream[s].at \in {"waiting", "writing", "late", "ended"} /\ Sole(s) =>
       Taken(s) \o events[stream[s].of] = emitted[stream[s].of]
  /\ \A s \in Streams : stream[s].at = "ended" =>
       stage[stream[s].of] = "done" /\ events[stream[s].of] = <<>>
  /\ \A c \in Checks : stage[c] \in {"concluded", "done"} =>
       emitted[c] # <<>> /\ verdict[c] = emitted[c][Len(emitted[c])]

(* Appending to a list and then to one in front of it is the same.           *)
LEMMA AppendLast ==
  ASSUME NEW S, NEW a \in Seq(S), NEW b \in Seq(S), NEW x \in S
  PROVE  a \o Append(b, x) = Append(a \o b, x)
OBVIOUS

(* The first of one list moved to the end of the list before it.             *)
LEMMA MoveFirst ==
  ASSUME NEW S, NEW a \in Seq(S), NEW b \in Seq(S), b # <<>>
  PROVE  Append(a, Head(b)) \o Tail(b) = a \o b
<1>1. Head(b) \in S /\ Tail(b) \in Seq(S) /\ Len(b) \in Nat \ {0}
      /\ Len(Tail(b)) = Len(b) - 1 /\ Len(a) \in Nat
  OBVIOUS
<1>2. /\ Append(a, Head(b)) \in Seq(S) /\ Len(Append(a, Head(b))) = Len(a) + 1
  BY <1>1
<1> DEFINE l == Append(a, Head(b)) \o Tail(b)
           r == a \o b
<1>3. l \in Seq(S) /\ r \in Seq(S) /\ Len(l) = Len(a) + Len(b) /\ Len(r) = Len(a) + Len(b)
  BY <1>1, <1>2
<1>4. ASSUME NEW i \in 1 .. Len(a) + Len(b) PROVE l[i] = r[i]
  <2>1. CASE i <= Len(a)
    BY <1>1, <1>2, <2>1
  <2>2. CASE i = Len(a) + 1
    BY <1>1, <1>2, <2>2
  <2>3. CASE i > Len(a) + 1
    <3>1. i - Len(a) - 1 \in 1 .. Len(Tail(b))
      BY <1>1, <2>3
    <3>2. l[i] = Tail(b)[i - (Len(a) + 1)]
      BY <1>1, <1>2, <2>3
    <3>3. Tail(b)[i - (Len(a) + 1)] = b[(i - (Len(a) + 1)) + 1]
      BY <1>1, <3>1
    <3>4. r[i] = b[i - Len(a)] /\ (i - (Len(a) + 1)) + 1 = i - Len(a)
      BY <1>1, <2>3
    <3> QED BY <3>2, <3>3, <3>4
  <2> QED BY <1>1, <2>1, <2>2, <2>3
<1> QED BY <1>3, <1>4

(* The types hold at the start.                                              *)
LEMMA RunsTypesInit == RunsInit => RunsTypes
BY DEF RunsInit, RunsTypes, Connections, Unopened, NoEvent, Events, Stages, Places

(* A step keeps them.                                                        *)
LEMMA RunsTypesStep == RunsTypes /\ [RunsNext]_runsVars => RunsTypes'
<1> SUFFICES ASSUME RunsTypes, [RunsNext]_runsVars PROVE RunsTypes'
  OBVIOUS
<1> USE DEF RunsTypes, Connections, NoEvent
<1>1. ASSUME NEW i \in Installers, Install(i) \/ BeginClone(i) \/ EndClone(i) PROVE RunsTypes'
  BY <1>1 DEF Install, BeginClone, EndClone
<1>2. ASSUME NEW c \in Checks, Register(c) \/ StartThread(c) \/ StartFails(c) \/ Settle(c)
      PROVE RunsTypes'
  BY <1>2 DEF Register, StartThread, StartFails, Settle, Stages
<1>3. ASSUME NEW c \in Checks, NEW e \in Events, Emit(c, e)
      PROVE  events' \in [Checks -> Seq(Events)] /\ emitted' \in [Checks -> Seq(Events)]
  BY <1>3 DEF Emit
<1>4. ASSUME NEW c \in Checks, Note(c) PROVE RunsTypes'
  BY <1>3, <1>4 DEF Note, Events
<1>5. ASSUME NEW c \in Checks, NEW e \in {"done", "error"}, Conclude(c, e) PROVE RunsTypes'
  BY <1>3, <1>5 DEF Conclude, Events, Stages
<1>6. ASSUME NEW s \in Streams, NEW c \in Checks, OpenStream(s, c) PROVE RunsTypes'
  BY <1>6 DEF OpenStream, Places
<1>7. ASSUME NEW s \in Streams, Take(s) PROVE RunsTypes'
  <2> DEFINE c == stream[s].of
  <2>1. c \in Checks /\ events[c] \in Seq(Events) /\ events[c] # <<>>
    BY <1>7 DEF Take
  <2>2. Head(events[c]) \in Events /\ Tail(events[c]) \in Seq(Events)
    BY <2>1
  <2>3. stream' \in [Streams -> Connections] /\ events' \in [Checks -> Seq(Events)]
    BY <1>7, <2>1, <2>2 DEF Take, At, Places
  <2>4. \A u \in Streams :
          /\ stream'[u].at # "closed" => stream'[u].of \in Checks
          /\ stream'[u].at = "writing" => stream'[u].event \in Events
    BY <1>7, <2>1, <2>2 DEF Take, At
  <2> QED BY <1>7, <2>3, <2>4 DEF Take
<1>8. ASSUME NEW s \in Streams, Write(s) PROVE RunsTypes'
  <2>1. stream[s] \in Connections /\ stream[s].event \in Events /\ "waiting" \in Places
    BY <1>8 DEF Write, Places
  <2>2. Append(told[s], stream[s].event) \in Seq(Events)
    BY <2>1
  <2>3. told' \in [Streams -> Seq(Events)]
    BY <1>8, <2>2 DEF Write
  <2>4. stream' \in [Streams -> Connections]
    BY <1>8, <2>1 DEF Write, At
  <2>5. \A u \in Streams :
          /\ stream'[u].at # "closed" => stream'[u].of \in Checks
          /\ stream'[u].at = "writing" => stream'[u].event \in Events
    BY <1>8 DEF Write, At
  <2>6. UNCHANGED <<stage, verdict, events, emitted>>
    BY <1>8 DEF Write
  <2> QED BY <2>3, <2>4, <2>5, <2>6
<1>9. ASSUME NEW s \in Streams, TimeOut(s) \/ EndStream(s) \/ Ping(s) \/ Hangup(s)
      PROVE RunsTypes'
  <2>1. PICK place \in {"late", "ended", "waiting", "broken"} : At(s, place, NoEvent)
    BY <1>9 DEF TimeOut, EndStream, Ping, Hangup
  <2>2. stream' \in [Streams -> Connections]
    <3>1. place \in Places /\ stream[s] \in Connections
      BY DEF Places
    <3> QED BY <2>1, <3>1 DEF At
  <2>3. \A u \in Streams :
          /\ stream'[u].at # "closed" => stream'[u].of \in Checks
          /\ stream'[u].at = "writing" => stream'[u].event \in Events
    <3>1. stream[s].at # "closed"
      BY <1>9 DEF TimeOut, EndStream, Ping, Hangup
    <3> QED BY <2>1, <3>1 DEF At
  <2>4. UNCHANGED <<stage, verdict, events, emitted, told>>
    BY <1>9 DEF TimeOut, EndStream, Ping, Hangup
  <2> QED BY <2>2, <2>3, <2>4
<1>10. CASE RestartRuns
  <2>1. Unopened \in Connections /\ Unopened.at = "closed"
    BY DEF Unopened, Places
  <2>2. <<>> \in Seq(Events) /\ "none" \in Stages
    BY DEF Stages
  <2>3. stream' \in [Streams -> Connections] /\ \A u \in Streams : stream'[u] = Unopened
    BY <1>10, <2>1 DEF RestartRuns
  <2> QED BY <1>10, <2>1, <2>2, <2>3 DEF RestartRuns
<1>11. CASE UNCHANGED runsVars
  BY <1>11 DEF runsVars
<1> QED BY <1>1, <1>2, <1>4, <1>5, <1>6, <1>7, <1>8, <1>9, <1>10, <1>11
        DEF RunsNext, CheckStep, StreamStep

(* A step of a check, of a stream, or a restart loses no event.              *)
LEMMA NothingMissedStep ==
  RunsTypes /\ NothingMissed /\ [RunsNext]_runsVars => NothingMissed'
<1> SUFFICES ASSUME RunsTypes, NothingMissed, [RunsNext]_runsVars PROVE NothingMissed'
  OBVIOUS
<1>0. /\ stream \in [Streams -> Connections] /\ told \in [Streams -> Seq(Events)]
      /\ events \in [Checks -> Seq(Events)] /\ emitted \in [Checks -> Seq(Events)]
      /\ stage \in [Checks -> Stages] /\ verdict \in [Checks -> Events \cup {NoEvent}]
      /\ \A s \in Streams : stream[s].at # "closed" => stream[s].of \in Checks
      /\ \A s \in Streams : stream[s].at = "writing" => stream[s].event \in Events
  BY DEF RunsTypes
<1>t. \A s \in Streams : stream[s].at # "closed" => Taken(s) \in Seq(Events)
  BY <1>0 DEF Taken
<1> USE DEF NothingMissed
<1>1. CASE UNCHANGED <<stage, verdict, events, emitted, stream, told>>
  BY <1>1 DEF Unshown, Sole, Taken
<1>2. ASSUME NEW i \in Installers, Install(i) \/ BeginClone(i) \/ EndClone(i)
      PROVE NothingMissed'
  BY <1>1, <1>2 DEF Install, BeginClone, EndClone
<1>3. ASSUME NEW c \in Checks, Register(c) \/ StartThread(c) \/ StartFails(c) \/ Settle(c)
      PROVE NothingMissed'
  <2>1. /\ UNCHANGED <<verdict, events, emitted, stream, told>>
        /\ \A d \in Checks : stage'[d] \in {"concluded", "done"} =>
             stage[d] \in {"concluded", "done"}
        /\ \A d \in Checks : stage[d] = "done" => stage'[d] = "done"
    BY <1>0, <1>3 DEF Register, StartThread, StartFails, Settle
  <2> QED BY <1>0, <2>1 DEF Unshown, Sole, Taken
<1>4. ASSUME NEW c \in Checks, NEW e \in Events, Emit(c, e), stage[c] = "running",
             UNCHANGED <<stream, told>>,
             \A d \in Checks : d # c => stage'[d] = stage[d] /\ verdict'[d] = verdict[d],
             stage'[c] \in {"concluded", "done"} => verdict'[c] = e
      PROVE  NothingMissed'
  <2>1. /\ events'[c] = Append(events[c], e) /\ emitted'[c] = Append(emitted[c], e)
        /\ \A d \in Checks : d # c => events'[d] = events[d] /\ emitted'[d] = emitted[d]
    BY <1>0, <1>4 DEF Emit
  <2>2. \A d \in Checks : Unshown(d)' => events'[d] = emitted'[d]
    <3> SUFFICES ASSUME NEW d \in Checks, Unshown(d)' PROVE events'[d] = emitted'[d]
      OBVIOUS
    <3>1. events[d] = emitted[d]
      BY <1>4 DEF Unshown
    <3>2. CASE d = c
      BY <2>1, <3>1, <3>2
    <3>3. CASE d # c
      BY <2>1, <3>1, <3>3
    <3> QED BY <3>2, <3>3
  <2>3. \A s \in Streams : stream'[s].at = "closed" => told'[s] = <<>>
    BY <1>4
  <2>4. ASSUME NEW s \in Streams, stream[s].at \in {"waiting", "writing", "late", "ended"},
               Sole(s)'
        PROVE  Taken(s)' \o events'[stream'[s].of] = emitted'[stream'[s].of]
    <3>1. Taken(s)' = Taken(s) /\ Sole(s) /\ stream' = stream
      BY <1>4, <2>4 DEF Taken, Sole
    <3>2. Taken(s) \o events[stream[s].of] = emitted[stream[s].of]
      BY <2>4, <3>1
    <3>3. stream[s].of \in Checks /\ Taken(s) \in Seq(Events)
      BY <1>0, <1>t, <2>4
    <3>4. CASE stream[s].of # c
      BY <2>1, <3>1, <3>2, <3>3, <3>4
    <3>5. CASE stream[s].of = c
      <4>1. Taken(s) \o Append(events[c], e) = Append(Taken(s) \o events[c], e)
        BY <1>0, <3>3, AppendLast
      <4> QED BY <2>1, <3>1, <3>2, <3>5, <4>1
    <3> QED BY <3>4, <3>5
  <2>5. \A s \in Streams : stream'[s].at = "ended" =>
          stage'[stream'[s].of] = "done" /\ events'[stream'[s].of] = <<>>
    <3> SUFFICES ASSUME NEW s \in Streams, stream'[s].at = "ended"
                 PROVE  stage'[stream'[s].of] = "done" /\ events'[stream'[s].of] = <<>>
      OBVIOUS
    <3>1. stream' = stream /\ stage[stream[s].of] = "done" /\ stream[s].of # c
      BY <1>4
    <3>2. stream[s].of \in Checks
      BY <1>0, <1>4
    <3> QED BY <1>4, <2>1, <3>1, <3>2
  <2>6. \A d \in Checks : stage'[d] \in {"concluded", "done"} =>
          emitted'[d] # <<>> /\ verdict'[d] = emitted'[d][Len(emitted'[d])]
    <3> SUFFICES ASSUME NEW d \in Checks, stage'[d] \in {"concluded", "done"}
                 PROVE  emitted'[d] # <<>> /\ verdict'[d] = emitted'[d][Len(emitted'[d])]
      OBVIOUS
    <3>1. CASE d # c
      BY <1>4, <2>1, <3>1
    <3>2. CASE d = c
      <4>1. verdict'[c] = e /\ emitted[c] \in Seq(Events)
        BY <1>0, <1>4, <3>2
      <4>2. /\ Append(emitted[c], e) # <<>>
            /\ Append(emitted[c], e)[Len(Append(emitted[c], e))] = e
        BY <4>1
      <4> QED BY <2>1, <3>2, <4>1, <4>2
    <3> QED BY <3>1, <3>2
  <2> QED BY <1>4, <2>2, <2>3, <2>4, <2>5, <2>6
<1>5. ASSUME NEW c \in Checks, Note(c) PROVE NothingMissed'
  BY <1>0, <1>4, <1>5 DEF Note, Events
<1>6. ASSUME NEW c \in Checks, NEW e \in {"done", "error"}, Conclude(c, e)
      PROVE NothingMissed'
  <2>1. /\ e \in Events /\ Emit(c, e) /\ stage[c] = "running" /\ UNCHANGED <<stream, told>>
        /\ stage' = [stage EXCEPT ![c] = "concluded"]
        /\ verdict' = [verdict EXCEPT ![c] = e]
    BY <1>6 DEF Conclude, Events
  <2> QED BY <1>0, <1>4, <2>1
<1>7. ASSUME NEW s \in Streams, NEW c \in Checks, OpenStream(s, c) PROVE NothingMissed'
  <2>1. /\ stream[s].at = "closed" /\ stream'[s].of = c /\ stream'[s].at = "waiting"
        /\ \A u \in Streams : u # s => stream'[u] = stream[u]
        /\ UNCHANGED <<stage, verdict, events, emitted, told>>
    BY <1>0, <1>7 DEF OpenStream, Unopened
  <2>2. \A d \in Checks : Unshown(d)' => Unshown(d)
    BY <2>1 DEF Unshown
  <2>3. ASSUME NEW u \in Streams, u # s, Sole(u)' PROVE Sole(u) /\ Taken(u)' = Taken(u)
    BY <2>1, <2>3 DEF Sole, Taken
  <2>4. Sole(s)' => Unshown(c)
    BY <2>1 DEF Sole, Unshown
  <2>5. Sole(s)' => Taken(s)' \o events'[stream'[s].of] = emitted'[stream'[s].of]
    <3>1. Taken(s)' = <<>> /\ <<>> \o events[c] = events[c]
      BY <1>0, <2>1 DEF Taken
    <3> QED BY <2>1, <2>4, <3>1
  <2>6. \A d \in Checks : Unshown(d)' => events'[d] = emitted'[d]
    BY <2>1, <2>2
  <2>7. ASSUME NEW u \in Streams,
               stream'[u].at \in {"waiting", "writing", "late", "ended"}, Sole(u)'
        PROVE  Taken(u)' \o events'[stream'[u].of] = emitted'[stream'[u].of]
    <3>1. CASE u = s
      BY <2>5, <2>7, <3>1
    <3>2. CASE u # s
      <4>1. stream'[u] = stream[u] /\ Taken(u)' = Taken(u) /\ Sole(u)
        BY <2>1, <2>3, <2>7, <3>2
      <4>2. Taken(u) \o events[stream[u].of] = emitted[stream[u].of]
        BY <2>7, <4>1
      <4> QED BY <2>1, <4>1, <4>2
    <3> QED BY <3>1, <3>2
  <2>8. \A u \in Streams : stream'[u].at = "closed" => told'[u] = <<>>
    BY <2>1
  <2>9. \A u \in Streams : stream'[u].at = "ended" =>
          stage'[stream'[u].of] = "done" /\ events'[stream'[u].of] = <<>>
    BY <2>1
  <2> QED BY <2>1, <2>6, <2>7, <2>8, <2>9
<1>8. ASSUME NEW s \in Streams, stream[s].at \in {"waiting", "writing", "late"},
             stream'[s].of = stream[s].of, stream'[s].at # "closed",
             \A u \in Streams : u # s => stream'[u] = stream[u] /\ told'[u] = told[u],
             \A d \in Checks : d # stream[s].of => events'[d] = events[d],
             UNCHANGED <<stage, verdict, emitted>>,
             events[stream[s].of] = <<>> => events'[stream[s].of] = <<>>,
             stream'[s].at # "broken" =>
               Taken(s)' \o events'[stream[s].of] = Taken(s) \o events[stream[s].of],
             stream'[s].at = "ended" =>
               stage[stream[s].of] = "done" /\ events'[stream[s].of] = <<>>
      PROVE  NothingMissed'
  <2>0. stream[s].of \in Checks
    BY <1>0, <1>8
  <2>1. \A d \in Checks : Unshown(d)' => Unshown(d) /\ d # stream[s].of
    BY <1>8 DEF Unshown
  <2>2. \A u \in Streams : Sole(u)' => Sole(u)
    BY <1>8 DEF Sole
  <2>3. ASSUME NEW u \in Streams, u # s,
               stream'[u].at \in {"waiting", "writing", "late", "ended"}, Sole(u)'
        PROVE  Taken(u)' \o events'[stream'[u].of] = emitted'[stream'[u].of]
    <3>1. Taken(u)' = Taken(u) /\ stream'[u] = stream[u] /\ stream[u].of \in Checks
      BY <1>0, <1>8, <2>3 DEF Taken
    <3>2. stream[u].of # stream[s].of
      BY <1>8, <2>3 DEF Sole
    <3> QED BY <1>8, <2>2, <2>3, <3>1, <3>2
  <2>4. ASSUME stream'[s].at \in {"waiting", "writing", "late", "ended"}, Sole(s)'
        PROVE  Taken(s)' \o events'[stream'[s].of] = emitted'[stream'[s].of]
    BY <1>8, <2>2, <2>4
  <2>5. \A u \in Streams : stream'[u].at = "closed" => told'[u] = <<>>
    BY <1>8
  <2>6. \A u \in Streams : stream'[u].at = "ended" =>
          stage'[stream'[u].of] = "done" /\ events'[stream'[u].of] = <<>>
    <3> SUFFICES ASSUME NEW u \in Streams, u # s, stream'[u].at = "ended"
                 PROVE  stage'[stream'[u].of] = "done" /\ events'[stream'[u].of] = <<>>
      BY <1>8
    <3>1. stream'[u] = stream[u] /\ stage[stream[u].of] = "done"
          /\ events[stream[u].of] = <<>> /\ stream[u].of \in Checks
      BY <1>0, <1>8
    <3> QED BY <1>8, <3>1
  <2> QED BY <1>8, <2>1, <2>3, <2>4, <2>5, <2>6
<1>9. ASSUME NEW s \in Streams, Take(s) PROVE NothingMissed'
  <2> DEFINE c == stream[s].of
  <2>1. stream[s].at = "waiting" /\ c \in Checks /\ events[c] # <<>>
    BY <1>0, <1>9 DEF Take
  <2>2. /\ stream'[s].of = c /\ stream'[s].at = "writing"
        /\ stream'[s].event = Head(events[c]) /\ told' = told
        /\ events'[c] = Tail(events[c])
        /\ \A u \in Streams : u # s => stream'[u] = stream[u]
        /\ \A d \in Checks : d # c => events'[d] = events[d]
        /\ UNCHANGED <<stage, verdict, emitted>>
    BY <1>0, <1>9, <2>1 DEF Take, At, Connections
  <2>3. Taken(s)' \o events'[c] = Taken(s) \o events[c]
    <3>1. Taken(s)' = Append(told[s], Head(events[c])) /\ Taken(s) = told[s]
      BY <2>1, <2>2 DEF Taken
    <3>2. Append(told[s], Head(events[c])) \o Tail(events[c]) = told[s] \o events[c]
      <4>1. told[s] \in Seq(Events) /\ events[c] \in Seq(Events) /\ events[c] # <<>>
        BY <1>0, <2>1
      <4>2. \A a, b \in Seq(Events) :
              b # <<>> => Append(a, Head(b)) \o Tail(b) = a \o b
        BY MoveFirst
      <4> HIDE DEF c
      <4> QED BY <4>1, <4>2
    <3> QED BY <2>2, <3>1, <3>2
  <2> QED BY <1>8, <2>1, <2>2, <2>3
<1>10. ASSUME NEW s \in Streams, Write(s) PROVE NothingMissed'
  <2>1. /\ stream[s].at = "writing" /\ stream'[s].of = stream[s].of
        /\ stream'[s].at = "waiting"
        /\ told'[s] = Append(told[s], stream[s].event)
        /\ \A u \in Streams : u # s => stream'[u] = stream[u] /\ told'[u] = told[u]
        /\ UNCHANGED <<stage, verdict, events, emitted>>
    BY <1>0, <1>10 DEF Write, At, Connections
  <2>2. Taken(s)' = Taken(s)
    BY <2>1 DEF Taken
  <2> QED BY <1>8, <2>1, <2>2
<1>11. ASSUME NEW s \in Streams, TimeOut(s) \/ EndStream(s) \/ Ping(s) \/ Hangup(s)
       PROVE NothingMissed'
  <2>1. /\ stream[s].at \in {"waiting", "writing", "late"} /\ stream'[s].of = stream[s].of
        /\ stream'[s].at \in {"waiting", "late", "ended", "broken"}
        /\ stream[s].at = "writing" => stream'[s].at = "broken"
        /\ stream'[s].at = "ended" => stage[stream[s].of] = "done" /\ events[stream[s].of] = <<>>
        /\ \A u \in Streams : u # s => stream'[u] = stream[u]
        /\ UNCHANGED <<stage, verdict, events, emitted, told>>
    BY <1>0, <1>11 DEF TimeOut, EndStream, Ping, Hangup, At, Connections
  <2>2. stream'[s].at # "broken" => Taken(s)' = Taken(s)
    BY <2>1 DEF Taken
  <2> QED BY <1>8, <2>1, <2>2
<1>12. CASE RestartRuns
  BY <1>12 DEF RestartRuns, Unopened
<1>13. CASE UNCHANGED runsVars
  BY <1>1, <1>13 DEF runsVars
<1> QED BY <1>2, <1>3, <1>5, <1>6, <1>7, <1>9, <1>10, <1>11, <1>12, <1>13
        DEF RunsNext, CheckStep, StreamStep

(* A stream that the app ends, and that alone shows its check, was told all  *)
(* that the check ever said, the verdict last, whenever the check settles    *)
(* between a time-out and the second look at the queue.                      *)
THEOREM StreamsAreToldAll == RunsSpec => []StreamToldAll
<1>1. RunsInit => NothingMissed
  BY DEF RunsInit, NothingMissed, Unopened
<1>2. RunsTypes /\ NothingMissed => StreamToldAll
  <2> SUFFICES ASSUME RunsTypes, NothingMissed, NEW s \in Streams, stream[s].at = "ended",
                      \A u \in Streams \ {s} : stream[u].of # stream[s].of
               PROVE  /\ told[s] = emitted[stream[s].of]
                      /\ verdict[stream[s].of] = told[s][Len(told[s])]
    BY DEF StreamToldAll
  <2>1. Sole(s) /\ Taken(s) = told[s] /\ stream[s].of \in Checks /\ told[s] \in Seq(Events)
    BY DEF Sole, Taken, RunsTypes
  <2>2. told[s] \o events[stream[s].of] = emitted[stream[s].of]
        /\ events[stream[s].of] = <<>> /\ stage[stream[s].of] = "done"
    BY <2>1 DEF NothingMissed
  <2>3. told[s] \o <<>> = told[s]
    BY <2>1
  <2> QED BY <2>1, <2>2, <2>3 DEF NothingMissed
<1> QED BY <1>1, <1>2, RunsTypesInit, RunsTypesStep, NothingMissedStep, PTL DEF RunsSpec

-----------------------------------------------------------------------------
(* The agent gate: for any number of requests, of records, tokens, classes   *)
(* and tiers, any policies and any limits.                                   *)

(* The least of two numbers.                                                 *)
LEMMA MinOfTwo ==
  ASSUME NEW a \in Nat, NEW b \in Nat
  PROVE  Min({a, b}) = IF a <= b THEN a ELSE b
<1>1. \E x \in {a, b} : \A y \in {a, b} : x <= y
  OBVIOUS
<1>2. Min({a, b}) \in {a, b} /\ \A y \in {a, b} : Min({a, b}) <= y
  BY <1>1 DEF Min
<1> QED BY <1>2

(* The greatest of two numbers.                                              *)
LEMMA MaxOfTwo ==
  ASSUME NEW a \in Nat, NEW b \in Nat
  PROVE  Max({a, b}) = IF a >= b THEN a ELSE b
<1>1. \E x \in {a, b} : \A y \in {a, b} : x >= y
  OBVIOUS
<1>2. Max({a, b}) \in {a, b} /\ \A y \in {a, b} : Max({a, b}) >= y
  BY <1>1 DEF Max
<1> QED BY <1>2

(* A set of numbers that is not empty and has a bound has a greatest one. *)
LEMMA Greatest ==
  ASSUME NEW n \in Nat, NEW T \in SUBSET (1 .. n), T # {}
  PROVE  Max(T) \in T
<1> DEFINE R == OpToRel(<, Nat)
           D == {n - x : x \in T}
<1>1. IsWellFoundedOn(R, Nat)
  BY NatLessThanWellFounded
<1>2. D \in SUBSET Nat /\ D # {}
  <2>1. \A x \in T : x \in 1 .. n /\ n - x \in Nat
    OBVIOUS
  <2> QED BY <2>1
<1>3. PICK d \in D : \A e \in D : ~(<<e, d>> \in R)
  <2> HIDE DEF R, D
  <2> QED BY <1>1, <1>2, WFMin
<1>4. \A e \in D : e < d => <<e, d>> \in R
  BY <1>2 DEF OpToRel
<1>5. \A e \in D : ~(e < d)
  <2> HIDE DEF R, D
  <2> QED BY <1>3, <1>4, Zenon
<1>6. PICK x \in T : d = n - x
  BY <1>3
<1>7. \A y \in T : x >= y
  <2> SUFFICES ASSUME NEW y \in T PROVE x >= y
    OBVIOUS
  <2>1. n - y \in D
    OBVIOUS
  <2>2. ~(n - y < n - x)
    BY <1>5, <1>6, <2>1
  <2>3. x \in Nat /\ y \in Nat
    OBVIOUS
  <2> QED BY <2>2, <2>3
<1>8. \E z \in T : \A y \in T : z >= y
  BY <1>7
<1> HIDE DEF R, D
<1> QED BY <1>8 DEF Max

(* A list cut to its last n elements. *)
LEMMA LastOfTypes ==
  ASSUME NEW S, NEW s \in Seq(S), NEW n \in Nat \ {0}
  PROVE  /\ LastOf(s, n) \in Seq(S)
         /\ Len(LastOf(s, n)) = IF n <= Len(s) THEN n ELSE Len(s)
         /\ \A k \in 1 .. Len(LastOf(s, n)) : \E j \in 1 .. Len(s) : LastOf(s, n)[k] = s[j]
<1>1. Len(s) \in Nat
  OBVIOUS
<1> DEFINE m == IF n <= Len(s) THEN n ELSE Len(s)
<1>2. LastOf(s, n) = SubSeq(s, Len(s) - m + 1, Len(s))
  BY <1>1, MinOfTwo DEF LastOf
<1>3. m \in 0 .. Len(s)
  BY <1>1
<1> HIDE DEF m
<1> DEFINE a == Len(s) - m + 1
           l == SubSeq(s, a, Len(s))
<1>4. a \in 1 .. Len(s) + 1
  BY <1>1, <1>3
<1>5. l \in Seq(S) /\ Len(l) = m
  <2>1. \A k \in a .. Len(s) : s[k] \in S
    BY <1>1, <1>4
  <2> QED BY <1>1, <1>3, <1>4, <2>1
<1>6. \A k \in 1 .. m : l[k] = s[a + k - 1] /\ a + k - 1 \in 1 .. Len(s)
  BY <1>1, <1>3, <1>5
<1> HIDE DEF l, a
<1>7. \A k \in 1 .. Len(l) : \E j \in 1 .. Len(s) : l[k] = s[j]
  BY <1>5, <1>6
<1> QED BY <1>2, <1>5, <1>7 DEF m, l, a

-----------------------------------------------------------------------------
USE GateAssumption, LimitAssumption

(* policy.json over the defaults is a policy.                                *)
LEMMA LoadedType ==
  ASSUME policyFile \in Policies \cup {Absent} PROVE Loaded \in Policies
BY DEF Loaded, Policies, Tiers

(* There is always a policy in force.                                        *)
LEMMA InForceType ==
  ASSUME policyFile \in Policies \cup {Absent}, policy \in Policies \cup {Unset}
  PROVE  InForce \in Policies
BY LoadedType DEF InForce

(* What the ghosts see: never more required, nor less granted, than now. *)
LEMMA Watching ==
  ASSUME GateTypeOK, InForce' \in Policies, tier' \in Tiers, Watch
  PROVE  /\ low' \in [Threads -> Policies] /\ high' \in [Threads -> Tiers]
         /\ \A t \in Threads :
              /\ high'[t] >= tier' /\ \A c \in Classes : low'[t][c] <= InForce'[c]
              /\ job[t].op \in {"read", "list"} =>
                   high'[t] >= high[t] /\ \A c \in Classes : low'[t][c] <= low[t][c]
<1> DEFINE p == InForce'
           k == tier'
           L(t) == IF job[t].op \notin {"read", "list"} THEN p
                   ELSE [c \in Classes |-> Min({low[t][c], p[c]})]
           H(t) == IF job[t].op \notin {"read", "list"} THEN k ELSE Max({high[t], k})
<1>1. low' = [t \in Threads |-> L(t)] /\ high' = [t \in Threads |-> H(t)]
  BY DEF Watch
<1>2. p \in Policies /\ k \in Tiers
  OBVIOUS
<1> HIDE DEF p, k
<1>3. ASSUME NEW t \in Threads
      PROVE  /\ L(t) \in Policies /\ H(t) \in Tiers /\ H(t) >= k
             /\ \A c \in Classes : L(t)[c] <= p[c]
             /\ job[t].op \in {"read", "list"} =>
                  H(t) >= high[t] /\ \A c \in Classes : L(t)[c] <= low[t][c]
  <2>1. low[t] \in Policies /\ high[t] \in Tiers
    BY DEF GateTypeOK
  <2>2. \A c \in Classes : low[t][c] \in Nat /\ p[c] \in Nat /\ low[t][c] \in Tiers /\ p[c] \in Tiers
    BY <1>2, <2>1 DEF Policies, Tiers
  <2>3. \A c \in Classes :
          Min({low[t][c], p[c]}) = IF low[t][c] <= p[c] THEN low[t][c] ELSE p[c]
    BY <2>2, MinOfTwo
  <2>4. Max({high[t], k}) = IF high[t] >= k THEN high[t] ELSE k
    BY <1>2, <2>1, MaxOfTwo DEF Tiers
  <2>5. CASE job[t].op \notin {"read", "list"}
    BY <1>2, <2>2, <2>5 DEF Tiers
  <2>6. CASE job[t].op \in {"read", "list"}
    <3>1. L(t) = [c \in Classes |-> IF low[t][c] <= p[c] THEN low[t][c] ELSE p[c]]
      BY <2>3, <2>6
    <3>2. L(t) \in Policies
      BY <1>2, <2>1, <2>2, <3>1 DEF Policies, Tiers
    <3>3. H(t) = IF high[t] >= k THEN high[t] ELSE k
      BY <2>4, <2>6
    <3> HIDE DEF L, H
    <3> QED BY <1>2, <2>1, <2>2, <3>1, <3>2, <3>3 DEF Tiers
  <2> QED BY <2>5, <2>6
<1> HIDE DEF L, H
<1> QED BY <1>1, <1>3 DEF p, k

-----------------------------------------------------------------------------
(* Where a request is fits what it is about, nothing is judged or edited     *)
(* before there is a policy, and one request at most fills it in.            *)
KindOf(p, j) ==
  /\ p = "idle" => j = NoJob
  /\ p = "auth" => j.op \in {"read", "list", "write"}
  /\ p \in {"policy", "fill"} => j.op \in {"read", "list", "change"}
  /\ p \in {"judge", "record", "cut", "send", "sent"} => j.op = "read"
  /\ p \in {"catalogue", "filter", "listed"} => j.op = "list"
  /\ p \in {"put", "load", "save"} => j.op = "write"
  /\ p \in {"mint", "store"} => j.op = "switch"
  /\ p \in {"edit", "grant", "keep"} => j.op = "change"

Control ==
  /\ \A t \in Threads :
       /\ KindOf(pc[t], job[t])
       /\ pc[t] \in {"fill", "edit", "grant", "keep"} => policy # Unset
  /\ \A t, u \in Threads : pc[t] = "fill" /\ pc[u] = "fill" => t = u

Sound == GateTypeOK /\ Control

\* What the ledger is measured by is left alone, or keeps its types.
RecordKept == UNCHANGED record \/ (entered' \in Nat /\ given' \subseteq Rows)

(* A thread without a request.                                               *)
LEMMA NoJobType == NoJob \in Jobs /\ KindOf("idle", NoJob)
BY DEF NoJob, Jobs, KindOf, NoAgentToken

(* At the start no request is anywhere.                                      *)
LEMMA SoundInit == GateInit => Sound
<1> SUFFICES ASSUME GateInit PROVE Sound
  OBVIOUS
<1>1. /\ \A t \in Threads : pc[t] = "idle" /\ job[t] = NoJob
      /\ pc \in [Threads -> Phases] /\ job \in [Threads -> Jobs]
  BY NoJobType DEF GateInit, Phases
<1>2. GateTypeOK
  <2>1. low \in [Threads -> Policies] /\ high \in [Threads -> Tiers]
    BY DEF GateInit, Tiers
  <2>2. <<>> \in Seq(Rows) /\ <<>> \in Seq(Classes) /\ <<>> \in Seq(Entries)
    OBVIOUS
  <2>3. token \in Nat /\ tier \in Tiers /\ minted \in Nat
    BY DEF GateInit, Tiers, NoAgentToken
  <2>4. entered \in Nat /\ given \subseteq Rows
    BY DEF GateInit
  <2> QED BY <1>1, <2>1, <2>2, <2>3, <2>4 DEF GateInit, GateTypeOK
<1> QED BY <1>1, <1>2, NoJobType DEF Sound, Control

(* A request is at one place, and every other where it was. *)
LEMMA SoundStep == Sound /\ [GateNext]_gateVars => Sound'
<1> SUFFICES ASSUME Sound, [GateNext]_gateVars PROVE Sound'
  OBVIOUS
<1>0. GateTypeOK /\ Control
  BY DEF Sound
<1>a. /\ pc \in [Threads -> Phases] /\ job \in [Threads -> Jobs]
      /\ \A t \in Threads : job[t] \in Jobs /\ job = [job EXCEPT ![t] = job[t]]
  BY <1>0 DEF GateTypeOK
<1>q. ASSUME NEW t \in Threads, NEW p \in Phases, NEW j \in Jobs, Watch,
             pc' = [pc EXCEPT ![t] = p], job' = [job EXCEPT ![t] = j],
             KindOf(p, j), p = "fill" => \A u \in Threads : pc[u] # "fill",
             p \in {"fill", "edit", "grant", "keep"} => policy' # Unset,
             policy # Unset => policy' # Unset,
             policy' \in Policies \cup {Unset}, policyFile' \in Policies \cup {Absent},
             on' \in BOOLEAN, token' \in Nat, tier' \in Tiers, minted' \in Nat,
             RecordKept, catalogue' \in Seq(Entries), keep' \in Seq(Classes),
             reads' \in Seq(Rows), revoked' \subseteq Nat
      PROVE  Sound'
  <2>1. pc' \in [Threads -> Phases] /\ job' \in [Threads -> Jobs]
    BY <1>a, <1>q
  <2>2. InForce' \in Policies
    <3>1. (policyFile \in Policies \cup {Absent})' /\ (policy \in Policies \cup {Unset})'
      BY <1>q
    <3>2. Loaded' \in Policies
      BY <3>1 DEF Loaded, Policies, Tiers
    <3> QED BY <3>1, <3>2 DEF InForce
  <2>3. low' \in [Threads -> Policies] /\ high' \in [Threads -> Tiers]
    BY <1>0, <1>q, <2>2, Watching
  <2>4. GateTypeOK'
    <3>1. entered' \in Nat /\ given' \subseteq Rows
      BY <1>0, <1>q DEF RecordKept, record, GateTypeOK
    <3> QED BY <1>q, <2>1, <2>3, <3>1 DEF GateTypeOK
  <2>5. ASSUME NEW u \in Threads
        PROVE  /\ KindOf(pc'[u], job'[u])
               /\ pc'[u] \in {"fill", "edit", "grant", "keep"} => policy' # Unset
    <3>1. CASE u = t
      BY <1>a, <1>q, <3>1
    <3>2. CASE u # t
      BY <1>0, <1>a, <1>q, <3>2 DEF Control
    <3> QED BY <3>1, <3>2
  <2>6. ASSUME NEW u \in Threads, NEW v \in Threads, pc'[u] = "fill", pc'[v] = "fill"
        PROVE  u = v
    BY <1>0, <1>a, <1>q, <2>6 DEF Control
  <2>7. Control'
    <3>1. \A u \in Threads : KindOf(pc[u], job[u])'
      BY <2>5 DEF KindOf
    <3> QED BY <2>5, <2>6, <3>1 DEF Control
  <2> QED BY <2>4, <2>7 DEF Sound
<1>s. ASSUME NEW t \in Threads, NEW p \in Phases, NEW j \in Jobs, Watch,
             pc' = [pc EXCEPT ![t] = p], job' = [job EXCEPT ![t] = j],
             KindOf(p, j), p = "fill" => \A u \in Threads : pc[u] # "fill",
             p \in {"fill", "edit", "grant", "keep"} => policy # Unset,
             UNCHANGED <<memory, disk, minted, revoked>>, RecordKept
      PROVE  Sound'
  <2>1. UNCHANGED <<on, token, tier, policy, reads, policyFile, catalogue, keep>>
    BY <1>s DEF memory, disk
  <2> QED BY <1>0, <1>q, <1>s, <2>1 DEF GateTypeOK
<1>e. ASSUME NEW t \in Threads, End(t), Watch
      PROVE  /\ pc' = [pc EXCEPT ![t] = "idle"] /\ job' = [job EXCEPT ![t] = NoJob]
             /\ "idle" \in Phases
  BY <1>e DEF End, Go, Phases
<1>k. \A t \in Threads : KindOf(pc[t], job[t])
  BY <1>0 DEF Control
<1>n. token \in Nat /\ minted \in Nat /\ entered \in Nat /\ revoked \subseteq Nat
      /\ keep \in Seq(Classes) /\ catalogue \in Seq(Entries) /\ reads \in Seq(Rows)
      /\ given \subseteq Rows /\ (UNCHANGED record => RecordKept)
  BY <1>0 DEF GateTypeOK, RecordKept
<1>1. ASSUME NEW t \in Threads, NEW op \in {"read", "list", "write"}, NEW k \in Nat,
             NEW i \in Nat, NEW c \in Classes, Ask(t, op, k, i, c), Watch
      PROVE  Sound'
  <2> DEFINE j == [job[t] EXCEPT !.op = op, !.token = k, !.read = token,
                                 !.index = i, !.class = c, !.dead = revoked]
  <2>1. j \in Jobs /\ j.op = op
    BY <1>a, <1>n DEF Jobs
  <2>2. job' = [job EXCEPT ![t] = j] /\ pc' = [pc EXCEPT ![t] = "auth"]
    BY <1>1, <1>a DEF Ask, Go
  <2> HIDE DEF j
  <2>3. "auth" \in Phases /\ KindOf("auth", j)
    BY <2>1 DEF Phases, KindOf
  <2> QED BY <1>1, <1>n, <1>s, <2>1, <2>2, <2>3 DEF Ask
<1>2. ASSUME NEW t \in Threads, NEW p \in Phases, pc' = [pc EXCEPT ![t] = p],
             UNCHANGED job, Watch, KindOf(p, job[t]), p \notin {"fill", "edit", "grant", "keep"},
             UNCHANGED <<memory, disk, minted, revoked>>, RecordKept
      PROVE  Sound'
  BY <1>2, <1>a, <1>s
<1>3. ASSUME NEW t \in Threads, Admit(t), Watch PROVE Sound'
  <2>1. PICK p \in {"put", "policy"} :
          pc' = [pc EXCEPT ![t] = p] /\ (p = "put" <=> job[t].op = "write")
    BY <1>3 DEF Admit, Go
  <2>2. p \in Phases /\ KindOf(p, job[t])
    BY <1>3, <1>k, <2>1 DEF Phases, KindOf, Admit
  <2> QED BY <1>2, <1>3, <1>n, <2>1, <2>2 DEF Admit
<1>4. ASSUME NEW t \in Threads, Forbid(t) \/ Withhold(t) \/ Finish(t), Watch PROVE Sound'
  <2>1. End(t) /\ UNCHANGED <<memory, disk, minted, revoked, record>>
    BY <1>4 DEF Forbid, Withhold, Finish
  <2> QED BY <1>4, <1>e, <1>n, <1>s, <2>1, NoJobType
<1>5. ASSUME NEW t \in Threads, FillDefaults(t), Watch PROVE Sound'
  <2>1. /\ pc' = [pc EXCEPT ![t] = "fill"] /\ job' = [job EXCEPT ![t] = job[t]]
        /\ policy = Unset /\ policy' = DefaultPolicy /\ pc[t] = "policy"
        /\ UNCHANGED <<on, token, tier, reads, policyFile, catalogue, keep, minted, revoked, record>>
    BY <1>5, <1>a DEF FillDefaults, Go, disk
  <2>2. "fill" \in Phases /\ KindOf("fill", job[t])
    BY <1>k, <2>1 DEF Phases, KindOf
  <2>3. \A u \in Threads : pc[u] # "fill"
    BY <1>0, <2>1 DEF Control
  <2>4. DefaultPolicy # Unset /\ DefaultPolicy \in Policies
    <3>1. Secret \in DOMAIN DefaultPolicy /\ Secret \notin DOMAIN Unset
      BY DEF Policies, Unset
    <3> QED BY <3>1
  <2> QED BY <1>0, <1>5, <1>a, <1>n, <1>q, <2>1, <2>2, <2>3, <2>4 DEF GateTypeOK
<1>6. ASSUME NEW t \in Threads, FillFromFile(t), Watch PROVE Sound'
  <2> DEFINE j == [job[t] EXCEPT !.policy = policy']
  <2>1. pc[t] = "fill" /\ policy # Unset /\ policy \in Policies
    BY <1>0, <1>6 DEF FillFromFile, Control, GateTypeOK
  <2>2. policy' \in Policies
    BY <1>0, <1>6, <2>1, LoadedType DEF FillFromFile, GateTypeOK
  <2>3. policy' # Unset
    BY <2>2 DEF Policies, Unset
  <2>4. j \in Jobs /\ j.op = job[t].op
    BY <1>a, <2>2 DEF Jobs
  <2>5. job' = [job EXCEPT ![t] = j] /\ pc' = [pc EXCEPT ![t] = AfterPolicy(t)]
    BY <1>6, <1>a DEF FillFromFile, Go
  <2> HIDE DEF j
  <2>6. /\ AfterPolicy(t) \in Phases /\ AfterPolicy(t) # "fill"
        /\ KindOf(AfterPolicy(t), j)
    BY <1>k, <2>1, <2>4 DEF AfterPolicy, KindOf, Phases
  <2>7. UNCHANGED <<on, token, tier, reads, policyFile, catalogue, keep, minted, revoked, record>>
    BY <1>6 DEF FillFromFile, disk
  <2> QED BY <1>0, <1>6, <1>n, <1>q, <2>2, <2>3, <2>4, <2>5, <2>6, <2>7 DEF GateTypeOK
<1>7. ASSUME NEW t \in Threads, CopyPolicy(t), Watch PROVE Sound'
  <2> DEFINE j == [job[t] EXCEPT !.policy = policy,
                                 !.early = \E u \in Threads : pc[u] = "fill"]
  <2>1. pc[t] = "policy" /\ policy # Unset /\ policy \in Policies
    BY <1>0, <1>7 DEF CopyPolicy, GateTypeOK
  <2>2. j \in Jobs /\ j.op = job[t].op
    BY <1>a, <2>1 DEF Jobs
  <2>3. job' = [job EXCEPT ![t] = j] /\ pc' = [pc EXCEPT ![t] = AfterPolicy(t)]
    BY <1>7, <1>a DEF CopyPolicy, Go
  <2> HIDE DEF j
  <2>4. /\ AfterPolicy(t) \in Phases /\ AfterPolicy(t) # "fill"
        /\ KindOf(AfterPolicy(t), j)
    BY <1>k, <2>1, <2>2 DEF AfterPolicy, KindOf, Phases
  <2> QED BY <1>7, <1>n, <1>s, <2>1, <2>2, <2>3, <2>4 DEF CopyPolicy
<1>8. ASSUME NEW t \in Threads, Judge(t), Watch PROVE Sound'
  <2>1. "record" \in Phases /\ KindOf("record", job[t])
    BY <1>8, <1>k DEF Judge, Phases, KindOf
  <2> QED BY <1>2, <1>8, <1>n, <2>1 DEF Judge, Go
<1>9. ASSUME NEW t \in Threads, Record(t), Watch PROVE Sound'
  <2> DEFINE n == entered + 1
             j == [job[t] EXCEPT !.no = n]
  <2>1. n \in Nat /\ entered' = n /\ UNCHANGED given
    BY <1>9, <1>n DEF Record
  <2>2. job' = [job EXCEPT ![t] = j] /\ pc' = [pc EXCEPT ![t] = "cut"] /\ pc[t] = "record"
    BY <1>9, <1>a, <2>1 DEF Record, Go
  <2>3. reads' \in Seq(Rows)
    <3>1. Row(t) \in Rows
      BY <1>a, <2>1 DEF Jobs, Row, Rows
    <3> QED BY <1>9, <1>n, <3>1 DEF Record
  <2> HIDE DEF n
  <2>4. j \in Jobs /\ j.op = job[t].op
    BY <1>a, <2>1 DEF Jobs
  <2> HIDE DEF j
  <2>5. "cut" \in Phases /\ KindOf("cut", j)
    BY <1>k, <2>2, <2>4 DEF Phases, KindOf
  <2>6. RecordKept /\ UNCHANGED <<on, token, tier, policy, policyFile, catalogue, keep, minted, revoked>>
    BY <1>9, <1>n, <2>1 DEF Record, disk, RecordKept
  <2> QED BY <1>0, <1>9, <1>n, <1>q, <2>2, <2>3, <2>4, <2>5, <2>6 DEF GateTypeOK
<1>27. ASSUME NEW t \in Threads, Cut(t), Watch PROVE Sound'
  <2>1. "send" \in Phases /\ KindOf("send", job[t])
    BY <1>27, <1>k DEF Cut, Phases, KindOf
  <2>2. reads' \in Seq(Rows)
    BY <1>27, <1>n, LastOfTypes DEF Cut
  <2>3. /\ pc' = [pc EXCEPT ![t] = "send"] /\ job' = [job EXCEPT ![t] = job[t]]
        /\ UNCHANGED <<on, token, tier, policy, policyFile, catalogue, keep, minted, revoked, record>>
    BY <1>27, <1>a DEF Cut, Go, disk
  <2> QED BY <1>0, <1>27, <1>a, <1>n, <1>q, <2>1, <2>2, <2>3 DEF GateTypeOK
<1>10. ASSUME NEW t \in Threads, Send(t), Watch PROVE Sound'
  <2>1. "sent" \in Phases /\ KindOf("sent", job[t])
    BY <1>10, <1>k DEF Send, Phases, KindOf
  <2>2. RecordKept
    <3>1. Handed(t) \in Rows
      BY <1>10, <1>a, <1>n DEF Handed, Rows, Jobs, Send
    <3>2. given' = given \cup {Handed(t)} /\ entered' = entered
      BY <1>10 DEF Send
    <3> QED BY <1>n, <3>1, <3>2 DEF RecordKept
  <2>3. /\ pc' = [pc EXCEPT ![t] = "sent"]
        /\ UNCHANGED job /\ UNCHANGED <<memory, disk, minted, revoked>>
    BY <1>10 DEF Send, Go
  <2> QED BY <1>2, <1>10, <2>1, <2>2, <2>3
<1>11. ASSUME NEW t \in Threads, ReadCatalogue(t) \/ LoadCatalogue(t), Watch PROVE Sound'
  <2> DEFINE j == [job[t] EXCEPT !.entries = catalogue]
  <2>1. j \in Jobs /\ j.op = job[t].op
    BY <1>a, <1>n DEF Jobs
  <2>2. PICK p \in {"filter", "save"} :
          /\ pc' = [pc EXCEPT ![t] = p] /\ (p = "save" <=> pc[t] = "load")
    BY <1>11 DEF ReadCatalogue, LoadCatalogue, Go
  <2>3. job' = [job EXCEPT ![t] = j] /\ UNCHANGED <<memory, disk, minted, revoked, record>>
        /\ pc[t] \in {"load", "catalogue"}
    BY <1>11, <1>a DEF ReadCatalogue, LoadCatalogue
  <2> HIDE DEF j
  <2>4. p \in Phases /\ KindOf(p, j)
    BY <1>k, <2>1, <2>2, <2>3 DEF Phases, KindOf
  <2> QED BY <1>11, <1>n, <1>s, <2>1, <2>2, <2>3, <2>4
<1>12. ASSUME NEW t \in Threads, SendList(t), Watch PROVE Sound'
  <2> DEFINE S == {i \in 1..job[t].index : tier >= job[t].policy[Listed(job[t].entries, i)]}
             j == [job[t] EXCEPT !.shown = S]
  <2>1. S \subseteq Nat
    BY <1>a DEF Jobs
  <2>2. job' = [job EXCEPT ![t] = j]
    BY <1>12, <1>a DEF SendList
  <2> HIDE DEF S
  <2>3. j \in Jobs /\ j.op = job[t].op
    BY <1>a, <2>1 DEF Jobs
  <2> HIDE DEF j
  <2>4. "listed" \in Phases /\ KindOf("listed", j)
    BY <1>12, <1>k, <2>3 DEF SendList, Phases, KindOf
  <2> QED BY <1>12, <1>n, <1>s, <2>2, <2>3, <2>4 DEF SendList, Go
<1>13. ASSUME NEW t \in Threads, NEW c \in Classes, PageWrite(t, c), Watch PROVE Sound'
  <2> DEFINE j == [job[t] EXCEPT !.op = "write", !.class = c]
  <2>1. j \in Jobs /\ j.op = "write"
    BY <1>a DEF Jobs
  <2>2. job' = [job EXCEPT ![t] = j] /\ pc' = [pc EXCEPT ![t] = "put"]
    BY <1>13, <1>a DEF PageWrite, Go
  <2> HIDE DEF j
  <2>3. "put" \in Phases /\ KindOf("put", j)
    BY <2>1 DEF Phases, KindOf
  <2> QED BY <1>13, <1>n, <1>s, <2>1, <2>2, <2>3 DEF PageWrite
<1>14. ASSUME NEW t \in Threads, Put(t), Watch PROVE Sound'
  <2> DEFINE j == [job[t] EXCEPT !.index = Len(keep) + 1]
  <2>0. Len(keep) + 1 \in Nat /\ Append(keep, job[t].class) \in Seq(Classes)
    BY <1>a, <1>n DEF Jobs
  <2>1. j \in Jobs /\ j.op = job[t].op
    BY <1>a, <2>0 DEF Jobs
  <2>2. job' = [job EXCEPT ![t] = j] /\ pc' = [pc EXCEPT ![t] = "load"]
    BY <1>14, <1>a DEF Put, Go
  <2> HIDE DEF j
  <2>3. "load" \in Phases /\ KindOf("load", j)
    BY <1>14, <1>k, <2>1 DEF Phases, KindOf, Put
  <2>4. /\ keep' \in Seq(Classes)
        /\ UNCHANGED <<on, token, tier, policy, reads, policyFile, catalogue, minted, revoked, record>>
    BY <1>14, <2>0 DEF Put, memory
  <2> QED BY <1>0, <1>14, <1>n, <1>q, <2>1, <2>2, <2>3, <2>4 DEF GateTypeOK
<1>15. ASSUME NEW t \in Threads, SaveCatalogue(t), Watch PROVE Sound'
  <2> DEFINE new == LastOf(Append(job[t].entries, NewEntry(t)), CatalogueLimit)
  <2>1. new \in Seq(Entries)
    <3>1. NewEntry(t) \in Entries /\ job[t].entries \in Seq(Entries)
      BY <1>a DEF NewEntry, Entries, Jobs
    <3>2. Append(job[t].entries, NewEntry(t)) \in Seq(Entries)
      BY <3>1
    <3> QED BY <3>2, LastOfTypes
  <2>2. catalogue' \in {new, <<>>}
    BY <1>15 DEF SaveCatalogue, Written
  <2> HIDE DEF new
  <2>3. catalogue' \in Seq(Entries)
    <3>1. <<>> \in Seq(Entries)
      OBVIOUS
    <3> QED BY <2>1, <2>2, <3>1
  <2>4. UNCHANGED <<on, token, tier, policy, reads, policyFile, keep, minted, revoked, record>>
    BY <1>15 DEF SaveCatalogue, memory
  <2>5. End(t)
    BY <1>15 DEF SaveCatalogue
  <2> QED BY <1>0, <1>15, <1>e, <1>n, <1>q, <2>3, <2>4, <2>5, NoJobType DEF GateTypeOK
<1>16. ASSUME NEW t \in Threads, NEW b \in BOOLEAN, Switch(t, b), Watch PROVE Sound'
  <2> DEFINE j == [job[t] EXCEPT !.op = "switch", !.old = token]
  <2>1. j \in Jobs /\ j.op = "switch"
    BY <1>a, <1>n DEF Jobs
  <2>2. job' = [job EXCEPT ![t] = j] /\ pc' = [pc EXCEPT ![t] = "mint"]
    BY <1>16, <1>a DEF Switch, Go
  <2> HIDE DEF j
  <2>3. "mint" \in Phases /\ KindOf("mint", j)
    BY <2>1 DEF Phases, KindOf
  <2>4. /\ on' \in BOOLEAN
        /\ UNCHANGED <<token, tier, policy, reads, policyFile, catalogue, keep, minted, revoked, record>>
    BY <1>16 DEF Switch, disk
  <2> QED BY <1>0, <1>16, <1>n, <1>q, <2>1, <2>2, <2>3, <2>4 DEF GateTypeOK
<1>17. ASSUME NEW t \in Threads, Mint(t), Watch PROVE Sound'
  <2>1. PICK j \in Jobs : j.op = job[t].op /\ job' = [job EXCEPT ![t] = j]
    <3>1. CASE on
      <4> DEFINE j == [job[t] EXCEPT !.token = minted']
      <4>1. job' = [job EXCEPT ![t] = j] /\ minted' = minted + 1
        BY <1>17, <1>a, <3>1 DEF Mint
      <4>2. minted' \in Nat
        BY <1>n, <4>1
      <4>3. j \in Jobs /\ j.op = job[t].op
        BY <1>a, <4>2 DEF Jobs
      <4> HIDE DEF j
      <4> QED BY <4>1, <4>3
    <3>2. CASE ~on
      BY <1>17, <1>a, <3>2 DEF Mint
    <3> QED BY <3>1, <3>2
  <2>2. minted' \in Nat
    BY <1>17, <1>n DEF Mint
  <2>3. pc' = [pc EXCEPT ![t] = "store"] /\ "store" \in Phases /\ KindOf("store", j)
    BY <1>17, <1>k, <2>1 DEF Mint, Go, Phases, KindOf
  <2>4. UNCHANGED <<on, token, tier, policy, reads, policyFile, catalogue, keep, revoked, record>>
    BY <1>17 DEF Mint, memory, disk
  <2> QED BY <1>0, <1>17, <1>n, <1>q, <2>1, <2>2, <2>3, <2>4 DEF GateTypeOK
<1>18. ASSUME NEW t \in Threads, StoreToken(t), Watch PROVE Sound'
  <2>1. token' \in Nat /\ revoked' \subseteq Nat
    BY <1>18, <1>a, <1>n DEF StoreToken, Jobs
  <2>2. /\ End(t)
        /\ UNCHANGED <<on, tier, policy, reads, policyFile, catalogue, keep, minted, record>>
    BY <1>18 DEF StoreToken, disk
  <2> QED BY <1>0, <1>18, <1>e, <1>n, <1>q, <2>1, <2>2, NoJobType DEF GateTypeOK
<1>19. ASSUME NEW t \in Threads, NEW e \in Edits, Change(t, e), Watch PROVE Sound'
  <2> DEFINE j == [job[t] EXCEPT !.op = "change", !.edit = {e}]
  <2>1. j \in Jobs /\ j.op = "change"
    BY <1>a DEF Jobs
  <2>2. job' = [job EXCEPT ![t] = j] /\ pc' = [pc EXCEPT ![t] = "policy"]
    BY <1>19, <1>a DEF Change, Go
  <2> HIDE DEF j
  <2>3. "policy" \in Phases /\ KindOf("policy", j)
    BY <2>1 DEF Phases, KindOf
  <2> QED BY <1>19, <1>n, <1>s, <2>1, <2>2, <2>3 DEF Change
<1>20. ASSUME NEW t \in Threads, EditPolicy(t), Watch PROVE Sound'
  <2>1. pc[t] = "edit" /\ policy # Unset /\ policy \in Policies
    BY <1>0, <1>20 DEF EditPolicy, Control, GateTypeOK
  <2>2. PICK e \in job[t].edit : policy' = [e.policy EXCEPT ![Secret] = policy[Secret]]
    BY <1>20 DEF EditPolicy
  <2>3. e.policy \in Policies
    BY <1>a DEF Jobs
  <2>4. policy' \in Policies
    BY <2>1, <2>2, <2>3 DEF Policies
  <2>5. policy' # Unset
    BY <2>4 DEF Policies, Unset
  <2>6. /\ pc' = [pc EXCEPT ![t] = "grant"] /\ job' = [job EXCEPT ![t] = job[t]]
        /\ UNCHANGED <<on, token, tier, reads, policyFile, catalogue, keep, minted, revoked, record>>
    BY <1>20, <1>a DEF EditPolicy, Go, disk
  <2>7. "grant" \in Phases /\ KindOf("grant", job[t])
    BY <1>k, <2>1 DEF Phases, KindOf
  <2> QED BY <1>0, <1>20, <1>a, <1>n, <1>q, <2>4, <2>5, <2>6, <2>7 DEF GateTypeOK
<1>21. ASSUME NEW t \in Threads, GrantTier(t), Watch PROVE Sound'
  <2>1. pc[t] = "grant" /\ policy # Unset
    BY <1>0, <1>21 DEF GrantTier, Control
  <2>2. tier' \in Tiers
    BY <1>21, <1>a DEF GrantTier, Jobs
  <2>3. /\ pc' = [pc EXCEPT ![t] = "keep"] /\ job' = [job EXCEPT ![t] = job[t]]
        /\ UNCHANGED <<on, token, policy, reads, policyFile, catalogue, keep, minted, revoked, record>>
    BY <1>21, <1>a DEF GrantTier, Go, disk
  <2>4. "keep" \in Phases /\ KindOf("keep", job[t])
    BY <1>k, <2>1 DEF Phases, KindOf
  <2> QED BY <1>0, <1>21, <1>a, <1>n, <1>q, <2>1, <2>2, <2>3, <2>4 DEF GateTypeOK
<1>22. ASSUME NEW t \in Threads, SavePolicy(t), Watch PROVE Sound'
  <2>1. pc[t] = "keep" /\ policy # Unset /\ policy \in Policies
    BY <1>0, <1>22 DEF SavePolicy, Control, GateTypeOK
  <2>2. policyFile' \in Policies \cup {Absent}
    BY <1>22, <2>1 DEF SavePolicy, Written
  <2>3. /\ End(t)
        /\ UNCHANGED <<on, token, tier, policy, reads, catalogue, keep, minted, revoked, record>>
    BY <1>22 DEF SavePolicy, memory
  <2> QED BY <1>0, <1>22, <1>e, <1>n, <1>q, <2>1, <2>2, <2>3, NoJobType DEF GateTypeOK
<1>23. CASE Restart /\ Watch
  <2>1. /\ on' = FALSE /\ token' = 0 /\ tier' = 0 /\ policy' = Unset /\ reads' = <<>>
        /\ entered' = 0 /\ given' = {} /\ revoked' \subseteq Nat
        /\ UNCHANGED <<policyFile, catalogue, keep, minted>>
    BY <1>23, <1>n DEF Restart, disk, NoAgentToken
  <2>2. /\ pc' \in [Threads -> Phases] /\ job' \in [Threads -> Jobs]
        /\ \A t \in Threads : pc'[t] = "idle" /\ job'[t] = NoJob
    BY <1>23, NoJobType DEF Restart, Phases
  <2>3. InForce' = Loaded' /\ Loaded' \in Policies /\ tier' \in Tiers
    <3>1. (policyFile \in Policies \cup {Absent})'
      BY <1>0, <2>1 DEF GateTypeOK
    <3>2. Loaded' \in Policies
      BY <3>1 DEF Loaded, Policies, Tiers
    <3> QED BY <2>1, <3>2 DEF InForce, Tiers
  <2>4. low' \in [Threads -> Policies] /\ high' \in [Threads -> Tiers]
    BY <1>0, <1>23, <2>3, Watching
  <2>5. GateTypeOK'
    <3>1. <<>> \in Seq(Rows)
      OBVIOUS
    <3> QED BY <1>0, <1>n, <2>1, <2>2, <2>3, <2>4, <3>1 DEF GateTypeOK
  <2>6. Control'
    BY <2>2, NoJobType DEF Control, KindOf
  <2> QED BY <2>5, <2>6 DEF Sound
<1>24. CASE UNCHANGED gateVars
  BY <1>0, <1>24 DEF gateVars, memory, disk, ghosts, record, Sound, GateTypeOK, Control, KindOf
<1>25. ASSUME NEW t \in Threads, Request(t), Watch PROVE Sound'
  <2>1. ASSUME NEW k \in 1..MaxTokens, NEW i \in 1..MaxRecords, AskRead(t, k, i)
        PROVE  Sound'
    <3>1. k \in Nat /\ i \in Nat /\ keep[i] \in Classes
      BY <1>n, <2>1 DEF AskRead
    <3> QED BY <1>1, <1>25, <2>1, <3>1 DEF AskRead
  <2>2. ASSUME NEW k \in 1..MaxTokens, AskList(t, k) PROVE Sound'
    <3>1. k \in Nat /\ Len(keep) \in Nat /\ Secret \in Classes
      BY <1>n
    <3> QED BY <1>1, <1>25, <2>2, <3>1 DEF AskList
  <2>3. ASSUME NEW k \in 1..MaxTokens, NEW c \in Classes, AskWrite(t, k, c) PROVE Sound'
    BY <1>1, <1>25, <2>3 DEF AskWrite
  <2> QED BY <1>3, <1>4, <1>5, <1>6, <1>7, <1>8, <1>9, <1>10, <1>11, <1>12, <1>13, <1>14,
             <1>15, <1>16, <1>17, <1>18, <1>19, <1>20, <1>21, <1>22, <1>25, <1>27,
             <2>1, <2>2, <2>3 DEF Request
<1> QED BY <1>23, <1>24, <1>25 DEF GateNext

(* Every state has its types, whatever two requests do at once: policies are *)
(* full and keep the secret class at the top, and what is catalogued, read   *)
(* or revoked has the type the handlers expect.                              *)
THEOREM AgentTypeCorrect == GateSpec => []GateTypeOK
<1>1. Sound => GateTypeOK
  BY DEF Sound
<1> QED BY SoundInit, SoundStep, <1>1, PTL DEF GateSpec

-----------------------------------------------------------------------------
(* The rows of the ledger rise, and none is from after the last that was     *)
(* entered. A row is accounted for while it is there, or once newer ones     *)
(* fill the ledger.                                                          *)
Rising(s, n) ==
  /\ s \in Seq(Rows) /\ \A k \in 1..Len(s) : s[k].no <= n
  /\ \A i, k \in 1..Len(s) : i < k => s[i].no < s[k].no

Accounted(r, s) ==
  \/ \E k \in 1..Len(s) : s[k] = r
  \/ Len(s) >= ReadsLimit /\ \A k \in 1..Len(s) : s[k].no > r.no

\* The rows of what was handed over, and of what is about to be.
Owed == given \cup {Handed(t) : t \in {u \in Threads : pc[u] \in {"cut", "send"}}}

Ledger ==
  /\ Rising(reads, entered)
  /\ \A r \in Owed : r \in Rows /\ r.no <= entered /\ Accounted(r, reads)

(* A row that is entered is there, and every other is as it was or older.    *)
LEMMA RowEntered ==
  ASSUME NEW s, NEW n \in Nat, Rising(s, n), NEW w \in Rows, w.no = n + 1
  PROVE  /\ Rising(Append(s, w), n + 1) /\ Accounted(w, Append(s, w))
         /\ \A r \in Rows : r.no <= n /\ Accounted(r, s) => Accounted(r, Append(s, w))
<1> DEFINE q == Append(s, w)
           m == Len(s)
<1>1. s \in Seq(Rows) /\ m \in Nat /\ \A k \in 1..m : s[k] \in Rows
  BY DEF Rising
<1>2. /\ q \in Seq(Rows) /\ Len(q) = m + 1 /\ q[m + 1] = w
      /\ \A k \in 1..m : q[k] = s[k]
  BY <1>1
<1>3. /\ \A k \in 1..m : s[k].no <= n /\ s[k].no \in Nat
      /\ \A i, k \in 1..m : i < k => s[i].no < s[k].no
  BY <1>1 DEF Rising, Rows
<1> HIDE DEF q, m
<1>4. \A k \in 1..(m + 1) : k \in 1..m \/ k = m + 1
  BY <1>1
<1>5. Rising(q, n + 1)
  <2>1. \A k \in 1..(m + 1) : q[k].no <= n + 1
    BY <1>2, <1>3, <1>4
  <2>2. ASSUME NEW i \in 1..(m + 1), NEW k \in 1..(m + 1), i < k PROVE q[i].no < q[k].no
    <3>1. i \in 1..m
      BY <1>1, <2>2
    <3>2. CASE k \in 1..m
      BY <1>2, <1>3, <2>2, <3>1, <3>2
    <3>3. CASE k = m + 1
      BY <1>2, <1>3, <3>1, <3>3
    <3> QED BY <1>4, <3>2, <3>3
  <2> QED BY <1>2, <2>1, <2>2 DEF Rising
<1>6. Accounted(w, q)
  <2>1. m + 1 \in 1..Len(q) /\ q[m + 1] = w
    BY <1>1, <1>2
  <2> QED BY <2>1 DEF Accounted
<1>7. ASSUME NEW r \in Rows, r.no <= n, Accounted(r, s) PROVE Accounted(r, q)
  <2>1. CASE \E k \in 1..m : s[k] = r
    <3>1. PICK k \in 1..m : s[k] = r
      BY <2>1
    <3>2. k \in 1..Len(q) /\ q[k] = r
      BY <1>1, <1>2, <3>1
    <3> QED BY <3>2 DEF Accounted
  <2>2. CASE m >= ReadsLimit /\ \A k \in 1..m : s[k].no > r.no
    <3>1. r.no \in Nat
      BY DEF Rows
    <3>2. \A k \in 1..Len(q) : q[k].no > r.no
      BY <1>2, <1>4, <1>7, <2>2, <3>1
    <3>3. Len(q) >= ReadsLimit
      BY <1>1, <1>2, <2>2
    <3> QED BY <3>2, <3>3 DEF Accounted
  <2> QED BY <1>7, <2>1, <2>2 DEF Accounted, m
<1> QED BY <1>5, <1>6, <1>7 DEF q

(* A row that is cut off leaves a full ledger of newer ones behind it.       *)
LEMMA RowsCut ==
  ASSUME NEW s, NEW n \in Nat, Rising(s, n)
  PROVE  /\ Rising(LastOf(s, ReadsLimit), n)
         /\ \A r \in Rows : Accounted(r, s) => Accounted(r, LastOf(s, ReadsLimit))
<1> DEFINE m == Len(s)
           l == IF ReadsLimit <= m THEN ReadsLimit ELSE m
           d == m - l
           q == LastOf(s, ReadsLimit)
<1>1. s \in Seq(Rows) /\ m \in Nat /\ \A k \in 1..m : s[k] \in Rows
  BY DEF Rising
<1>2. q \in Seq(Rows) /\ Len(q) = l
  BY <1>1, LastOfTypes
<1>3. q = SubSeq(s, d + 1, m)
  <2>1. Min({ReadsLimit, m}) = l
    BY <1>1, MinOfTwo
  <2> HIDE DEF l
  <2> QED BY <2>1 DEF LastOf
<1>4. l \in Nat /\ d \in Nat /\ m = d + l /\ l <= m /\ (d # 0 => l = ReadsLimit)
  BY <1>1
<1> HIDE DEF l, d
<1>5. ASSUME NEW k \in 1..l PROVE q[k] = s[d + k] /\ d + k \in 1..m
  <2>1. k \in Nat /\ k >= 1 /\ k <= l /\ d + 1 + k - 1 = d + k /\ d + k \in 1..m
    BY <1>1, <1>4
  <2>2. d + 1 \in 1..(m + 1) /\ k \in 1..(m - (d + 1) + 1)
    BY <1>1, <1>4, <2>1
  <2>3. SubSeq(s, d + 1, m)[k] = s[d + 1 + k - 1]
    BY <1>1, <2>2
  <2> HIDE DEF q
  <2> QED BY <1>3, <2>1, <2>3
<1>6. /\ \A k \in 1..m : s[k].no <= n /\ s[k].no \in Nat
      /\ \A i, k \in 1..m : i < k => s[i].no < s[k].no
  BY <1>1 DEF Rising, Rows
<1> HIDE DEF q, m
<1>7. Rising(q, n)
  <2>1. \A k \in 1..l : q[k].no <= n
    BY <1>5, <1>6
  <2>2. ASSUME NEW i \in 1..l, NEW k \in 1..l, i < k PROVE q[i].no < q[k].no
    <3>1. d + i < d + k
      BY <1>4, <2>2
    <3> QED BY <1>5, <1>6, <3>1
  <2> QED BY <1>2, <2>1, <2>2 DEF Rising
<1>8. ASSUME NEW r \in Rows, Accounted(r, s) PROVE Accounted(r, q)
  <2>1. CASE \E k \in 1..m : s[k] = r
    <3>1. PICK k \in 1..m : s[k] = r
      BY <2>1
    <3>2. CASE k > d
      <4>1. k - d \in 1..l /\ d + (k - d) = k
        BY <1>1, <1>4, <3>2
      <4>2. q[k - d] = r
        BY <1>5, <3>1, <4>1
      <4> QED BY <1>2, <4>1, <4>2 DEF Accounted
    <3>3. CASE k <= d
      <4>1. l = ReadsLimit
        BY <1>4, <3>3
      <4>2. ASSUME NEW i \in 1..l PROVE q[i].no > r.no
        <5>1. d + i \in 1..m /\ k < d + i /\ q[i] = s[d + i]
          BY <1>4, <1>5, <3>3
        <5> QED BY <1>6, <3>1, <5>1
      <4> QED BY <1>2, <1>4, <4>1, <4>2 DEF Accounted
    <3> QED BY <1>4, <3>2, <3>3
  <2>2. CASE m >= ReadsLimit /\ \A k \in 1..m : s[k].no > r.no
    <3>1. \A k \in 1..l : q[k].no > r.no
      BY <1>5, <2>2
    <3>2. l = ReadsLimit
      BY <2>2 DEF l
    <3> QED BY <1>2, <3>1, <3>2 DEF Accounted
  <2> QED BY <1>8, <2>1, <2>2 DEF Accounted, m
<1> QED BY <1>7, <1>8 DEF q

\* Nothing is done to the ledger; t is not about to, the others are where they were.
Quiet(t) ==
  /\ UNCHANGED <<reads, record>>
  /\ \E p \in Phases \ {"cut", "send"} : pc' = [pc EXCEPT ![t] = p]
  /\ \A u \in Threads \ {t} : job'[u] = job[u]

(* A request changes no job but its own.                                     *)
LEMMA OthersKeepTheirs ==
  ASSUME Sound, NEW t \in Threads, Request(t)
  PROVE  \A u \in Threads \ {t} : job'[u] = job[u]
<1> SUFFICES ASSUME NEW u \in Threads \ {t} PROVE job'[u] = job[u]
  OBVIOUS
<1>0. job \in [Threads -> Jobs]
  BY DEF Sound, GateTypeOK
<1>1. ASSUME NEW op, NEW k, NEW i, NEW c, Ask(t, op, k, i, c) PROVE job'[u] = job[u]
  BY <1>0, <1>1 DEF Ask
<1>2. ASSUME Admit(t) \/ FillDefaults(t) \/ Judge(t) \/ Cut(t) \/ Send(t) \/ EditPolicy(t)
             \/ GrantTier(t)
      PROVE  job'[u] = job[u]
  BY <1>2 DEF Admit, FillDefaults, Judge, Cut, Send, EditPolicy, GrantTier
<1>3. ASSUME Forbid(t) \/ Withhold(t) \/ SaveCatalogue(t) \/ StoreToken(t) \/ SavePolicy(t)
             \/ Finish(t)
      PROVE  job'[u] = job[u]
  BY <1>0, <1>3 DEF Forbid, Withhold, SaveCatalogue, StoreToken, SavePolicy, Finish, End
<1>4. ASSUME FillFromFile(t) \/ CopyPolicy(t) PROVE job'[u] = job[u]
  BY <1>0, <1>4 DEF FillFromFile, CopyPolicy
<1>5. ASSUME Record(t) \/ ReadCatalogue(t) \/ LoadCatalogue(t) \/ Put(t) PROVE job'[u] = job[u]
  BY <1>0, <1>5 DEF Record, ReadCatalogue, LoadCatalogue, Put
<1>6. ASSUME SendList(t) PROVE job'[u] = job[u]
  BY <1>0, <1>6 DEF SendList
<1>7. ASSUME NEW c, PageWrite(t, c) PROVE job'[u] = job[u]
  BY <1>0, <1>7 DEF PageWrite
<1>8. ASSUME NEW b, Switch(t, b) PROVE job'[u] = job[u]
  BY <1>0, <1>8 DEF Switch
<1>9. ASSUME NEW e, Change(t, e) PROVE job'[u] = job[u]
  BY <1>0, <1>9 DEF Change
<1>10. ASSUME Mint(t) PROVE job'[u] = job[u]
  BY <1>0, <1>10 DEF Mint
<1> QED BY <1>1, <1>2, <1>3, <1>4, <1>5, <1>6, <1>7, <1>8, <1>9, <1>10
        DEF Request, AskRead, AskList, AskWrite

(* A request enters a read, cuts the ledger, hands a text over, or does      *)
(* nothing to it and is then not about to.                                   *)
LEMMA LedgerSteps ==
  ASSUME Sound, NEW t \in Threads, Request(t)
  PROVE  Record(t) \/ Cut(t) \/ Send(t) \/ Quiet(t)
<1>0. ASSUME NEW p \in Phases \ {"cut", "send"}, Go(t, p), UNCHANGED <<reads, record>> PROVE Quiet(t)
  BY <1>0, OthersKeepTheirs DEF Go, Quiet
<1>1. {"idle", "auth", "policy", "fill", "judge", "record", "sent", "catalogue", "filter",
       "listed", "put", "load", "save", "mint", "store", "edit", "grant", "keep"}
        \subseteq Phases \ {"cut", "send"}
  BY DEF Phases
<1>2. ASSUME End(t), UNCHANGED <<reads, record>> PROVE Quiet(t)
  BY <1>0, <1>1, <1>2 DEF End
<1>3. ASSUME UNCHANGED memory PROVE UNCHANGED reads
  BY <1>3 DEF memory
<1>4. ASSUME NEW op, NEW k, NEW i, NEW c, Ask(t, op, k, i, c) PROVE Quiet(t)
  <2>1. Go(t, "auth") /\ UNCHANGED <<reads, record>>
    BY <1>3, <1>4 DEF Ask
  <2> QED BY <1>0, <1>1, <2>1
<1>5. ASSUME Admit(t) PROVE Quiet(t)
  <2>1. PICK p \in {"put", "policy"} : Go(t, p)
    BY <1>5 DEF Admit
  <2> QED BY <1>0, <1>1, <1>3, <1>5, <2>1 DEF Admit
<1>6. ASSUME FillFromFile(t) \/ CopyPolicy(t) PROVE Quiet(t)
  <2>1. PICK p \in {"judge", "catalogue", "edit"} : Go(t, p)
    BY <1>6 DEF FillFromFile, CopyPolicy, AfterPolicy
  <2> QED BY <1>0, <1>1, <1>3, <1>6, <2>1 DEF FillFromFile, CopyPolicy
<1>7. ASSUME Forbid(t) \/ Withhold(t) \/ SaveCatalogue(t) \/ StoreToken(t) \/ SavePolicy(t)
             \/ Finish(t)
      PROVE  Quiet(t)
  <2>1. End(t) /\ UNCHANGED <<reads, record>>
    BY <1>3, <1>7 DEF Forbid, Withhold, SaveCatalogue, StoreToken, SavePolicy, Finish
  <2> QED BY <1>2, <2>1
<1>8. ASSUME FillDefaults(t) PROVE Quiet(t)
  BY <1>0, <1>1, <1>8 DEF FillDefaults
<1>9. ASSUME Judge(t) PROVE Quiet(t)
  BY <1>0, <1>1, <1>3, <1>9 DEF Judge
<1>10. ASSUME ReadCatalogue(t) PROVE Quiet(t)
  BY <1>0, <1>1, <1>3, <1>10 DEF ReadCatalogue
<1>11. ASSUME SendList(t) PROVE Quiet(t)
  <2>1. Go(t, "listed") /\ UNCHANGED <<reads, record>>
    BY <1>3, <1>11 DEF SendList
  <2> QED BY <1>0, <1>1, <2>1
<1>12. ASSUME NEW c, PageWrite(t, c) PROVE Quiet(t)
  <2>1. Go(t, "put") /\ UNCHANGED <<reads, record>>
    BY <1>3, <1>12 DEF PageWrite
  <2> QED BY <1>0, <1>1, <2>1
<1>13. ASSUME Put(t) PROVE Quiet(t)
  <2>1. Go(t, "load") /\ UNCHANGED <<reads, record>>
    BY <1>3, <1>13 DEF Put
  <2> QED BY <1>0, <1>1, <2>1
<1>14. ASSUME LoadCatalogue(t) PROVE Quiet(t)
  BY <1>0, <1>1, <1>3, <1>14 DEF LoadCatalogue
<1>15. ASSUME NEW b, Switch(t, b) PROVE Quiet(t)
  <2>1. Go(t, "mint") /\ UNCHANGED <<reads, record>>
    BY <1>15 DEF Switch
  <2> QED BY <1>0, <1>1, <2>1
<1>16. ASSUME Mint(t) PROVE Quiet(t)
  <2>1. Go(t, "store") /\ UNCHANGED <<reads, record>>
    BY <1>3, <1>16 DEF Mint
  <2> QED BY <1>0, <1>1, <2>1
<1>17. ASSUME NEW e, Change(t, e) PROVE Quiet(t)
  <2>1. Go(t, "policy") /\ UNCHANGED <<reads, record>>
    BY <1>3, <1>17 DEF Change
  <2> QED BY <1>0, <1>1, <2>1
<1>18. ASSUME EditPolicy(t) PROVE Quiet(t)
  BY <1>0, <1>1, <1>18 DEF EditPolicy
<1>19. ASSUME GrantTier(t) PROVE Quiet(t)
  BY <1>0, <1>1, <1>19 DEF GrantTier
<1>20. Record(t) \/ Cut(t) \/ Send(t) \/ Quiet(t)
  BY <1>4, <1>5, <1>6, <1>7, <1>8, <1>9, <1>10, <1>11, <1>12, <1>13, <1>14, <1>15, <1>16,
     <1>17, <1>18, <1>19 DEF Request, AskRead, AskList, AskWrite
<1> QED BY <1>20 DEF Quiet

(* An empty ledger of no reads.                                              *)
LEMMA LedgerInit == GateInit => Ledger
<1> SUFFICES ASSUME GateInit PROVE Ledger
  OBVIOUS
<1>1. Owed = {}
  BY DEF GateInit, Owed
<1>2. reads = <<>> /\ reads \in Seq(Rows) /\ Len(reads) = 0
  BY DEF GateInit
<1> QED BY <1>1, <1>2 DEF Ledger, Rising

(* A step keeps an account of every text that was or will be handed over.    *)
LEMMA LedgerStep == Sound /\ Ledger /\ [GateNext]_gateVars => Ledger'
<1> SUFFICES ASSUME Sound, Ledger, [GateNext]_gateVars PROVE Ledger'
  OBVIOUS
<1>0. /\ pc \in [Threads -> Phases] /\ job \in [Threads -> Jobs] /\ entered \in Nat
      /\ given \subseteq Rows
  BY DEF Sound, GateTypeOK
<1>1. /\ Rising(reads, entered)
      /\ \A r \in Owed : r \in Rows /\ r.no <= entered /\ Accounted(r, reads)
  BY DEF Ledger
<1>2. ASSUME NEW t \in Threads, Record(t) PROVE Ledger'
  <2> DEFINE w == Row(t)
  <2>1. /\ w \in Rows /\ w.no = entered + 1 /\ entered' = entered + 1
        /\ reads' = Append(reads, w) /\ given' = given
    BY <1>0, <1>2 DEF Record, Row, Rows, Jobs
  <2>2. Owed' \subseteq Owed \cup {w}
    <3>1. Handed(t)' = w
      BY <1>0, <1>2 DEF Record, Handed, Row, Jobs
    <3>2. ASSUME NEW u \in Threads, u # t, pc'[u] \in {"cut", "send"} PROVE Handed(u)' \in Owed
      <4>1. pc'[u] = pc[u] /\ job'[u] = job[u]
        BY <1>0, <1>2, <3>2 DEF Record, Go
      <4>2. Handed(u)' = Handed(u)
        BY <4>1 DEF Handed
      <4> QED BY <3>2, <4>1, <4>2 DEF Owed
    <3> QED BY <2>1, <3>1, <3>2 DEF Owed
  <2> HIDE DEF w
  <2>3. /\ Rising(reads', entered') /\ Accounted(w, reads')
        /\ \A r \in Rows : r.no <= entered /\ Accounted(r, reads) => Accounted(r, reads')
    BY <1>0, <1>1, <2>1, RowEntered
  <2>4. \A r \in Owed \cup {w} : r \in Rows /\ r.no <= entered' /\ Accounted(r, reads')
    <3>1. \A r \in Rows : r.no \in Nat
      BY DEF Rows
    <3>2. \A r \in Owed : r.no <= entered'
      BY <1>0, <1>1, <2>1, <3>1
    <3> QED BY <1>0, <1>1, <2>1, <2>3, <3>2
  <2>5. \A r \in Owed' : (r \in Rows /\ r.no <= entered /\ Accounted(r, reads))'
    BY <2>2, <2>4 DEF Accounted
  <2>6. Rising(reads, entered)'
    BY <2>3 DEF Rising
  <2> QED BY <2>5, <2>6 DEF Ledger
<1>3. ASSUME NEW t \in Threads, Cut(t) PROVE Ledger'
  <2>1. /\ reads' = LastOf(reads, ReadsLimit) /\ job' = job /\ entered' = entered
        /\ given' = given /\ pc[t] = "cut" /\ pc' = [pc EXCEPT ![t] = "send"]
    BY <1>3 DEF Cut, Go, record
  <2>2. Owed' \subseteq Owed
    BY <1>0, <2>1 DEF Owed, Handed
  <2>3. /\ Rising(reads', entered')
        /\ \A r \in Rows : Accounted(r, reads) => Accounted(r, reads')
    BY <1>0, <1>1, <2>1, RowsCut
  <2>4. \A r \in Owed' : (r \in Rows /\ r.no <= entered /\ Accounted(r, reads))'
    BY <1>1, <2>1, <2>2, <2>3 DEF Accounted
  <2>5. Rising(reads, entered)'
    BY <2>3 DEF Rising
  <2> QED BY <2>4, <2>5 DEF Ledger
<1>4. ASSUME UNCHANGED <<reads, entered>>, Owed' \subseteq Owed PROVE Ledger'
  <2>1. \A r \in Owed' : (r \in Rows /\ r.no <= entered /\ Accounted(r, reads))'
    BY <1>1, <1>4 DEF Accounted
  <2>2. Rising(reads, entered)'
    BY <1>1, <1>4 DEF Rising
  <2> QED BY <2>1, <2>2 DEF Ledger
<1>5. ASSUME NEW t \in Threads, Send(t) PROVE Ledger'
  <2>1. /\ reads' = reads /\ entered' = entered /\ job' = job /\ pc[t] = "send"
        /\ pc' = [pc EXCEPT ![t] = "sent"] /\ given' = given \cup {Handed(t)}
    BY <1>5 DEF Send, Go, memory
  <2>2. Owed' \subseteq Owed
    BY <1>0, <2>1 DEF Owed, Handed
  <2> QED BY <1>4, <2>1, <2>2
<1>6. ASSUME UNCHANGED <<reads, record>>, NEW t \in Threads,
             \A u \in Threads \ {t} : pc'[u] = pc[u] /\ job'[u] = job[u],
             pc'[t] \notin {"cut", "send"}
      PROVE  Ledger'
  <2>1. UNCHANGED <<reads, entered, given>>
    BY <1>6 DEF record
  <2>2. Owed' \subseteq Owed
    <3>1. \A u \in Threads : pc'[u] \in {"cut", "send"} =>
            pc[u] \in {"cut", "send"} /\ Handed(u)' = Handed(u)
      BY <1>6 DEF Handed
    <3> QED BY <2>1, <3>1 DEF Owed
  <2> QED BY <1>4, <2>1, <2>2
<1>7. ASSUME NEW t \in Threads, Request(t) PROVE Ledger'
  <2>1. ASSUME Quiet(t) PROVE Ledger'
    <3>1. UNCHANGED <<reads, record>> /\ pc'[t] \notin {"cut", "send"}
      BY <1>0, <2>1 DEF Quiet
    <3>2. \A u \in Threads \ {t} : pc'[u] = pc[u] /\ job'[u] = job[u]
      BY <1>0, <2>1 DEF Quiet
    <3> QED BY <1>6, <3>1, <3>2
  <2> QED BY <1>2, <1>3, <1>5, <1>7, <2>1, LedgerSteps
<1>8. CASE Restart
  <2>1. Owed' = {} /\ reads' = <<>>
    BY <1>8 DEF Restart, Owed
  <2>2. reads' \in Seq(Rows) /\ Len(reads') = 0
    BY <2>1
  <2> QED BY <2>1, <2>2 DEF Ledger, Rising
<1>9. CASE UNCHANGED gateVars
  <2>1. UNCHANGED <<reads, entered, given, pc, job>>
    BY <1>9 DEF gateVars, memory, ghosts, record
  <2>2. Owed' = Owed
    BY <2>1 DEF Owed, Handed
  <2> QED BY <1>4, <2>1, <2>2
<1> QED BY <1>7, <1>8, <1>9 DEF GateNext

(* Every text that was handed to an agent has a row of its own in the ledger *)
(* with its record and its class, unless newer reads fill the ledger,        *)
(* however many requests run at once and wherever one of them breaks off.    *)
THEOREM EveryReadIsRecorded == GateSpec => []ReadsAreRecorded
<1>1. Ledger => ReadsAreRecorded
  <2> SUFFICES ASSUME Ledger, NEW r \in given
               PROVE  \/ r \in Range(reads)
                      \/ Len(reads) >= ReadsLimit /\ \A n \in Range(reads) : n.no > r.no
    BY DEF ReadsAreRecorded
  <2>1. reads \in Seq(Rows) /\ Accounted(r, reads)
    BY DEF Ledger, Owed, Rising
  <2>2. Range(reads) = {reads[k] : k \in 1..Len(reads)}
    BY <2>1 DEF Range
  <2> QED BY <2>1, <2>2 DEF Accounted
<1> QED BY SoundInit, SoundStep, LedgerInit, LedgerStep, <1>1, PTL DEF GateSpec

-----------------------------------------------------------------------------
(* Whose token is which: the one in force was minted and is not revoked, the *)
(* one that a request holds was in force when it came in, and one that was   *)
(* minted and is still to be stored nobody else has.                         *)
Held(p, j) ==
  /\ j.old <= minted /\ j.token <= minted /\ j.read \notin j.dead
  /\ p = "mint" => j.token = NoAgentToken
  /\ j.op \in {"read", "list", "write"} /\ j.token # NoAgentToken /\ p # "auth"
       => j.read = j.token

Storing(t) == pc[t] = "store" /\ job[t].token # NoAgentToken

Fresh(t) ==
  /\ job[t].token # token /\ job[t].token \notin revoked
  /\ \A u \in Threads : job[u].old # job[t].token
  /\ \A u \in Threads \ {t} : Storing(u) => job[u].token # job[t].token

TokensApart ==
  /\ token <= minted /\ revoked \subseteq 1..minted /\ token \notin revoked
  /\ \A t \in Threads : Held(pc[t], job[t]) /\ (Storing(t) => Fresh(t))

(* At the start there is no token.                                           *)
LEMMA TokensInit == GateInit => TokensApart
BY DEF GateInit, TokensApart, Held, Storing, NoJob, NoAgentToken

(* A request that neither mints nor stores: what it holds stays apart.       *)
LEMMA TokensKept ==
  ASSUME Sound, TokensApart, UNCHANGED <<token, minted, revoked>>,
         NEW t \in Threads, NEW p \in Phases, NEW j \in Jobs, p # "store",
         pc' = [pc EXCEPT ![t] = p], job' = [job EXCEPT ![t] = j],
         Held(p, j), j.old \in {job[t].old, NoAgentToken, token}
  PROVE  TokensApart'
<1>0. /\ pc \in [Threads -> Phases] /\ job \in [Threads -> Jobs]
      /\ token \in Nat /\ minted \in Nat /\ revoked \subseteq Nat
  BY DEF Sound, GateTypeOK
<1>1. \A u \in Threads \ {t} : pc'[u] = pc[u] /\ job'[u] = job[u]
  BY <1>0
<1>2. pc'[t] = p /\ job'[t] = j
  BY <1>0
<1>3. token' = token /\ minted' = minted /\ revoked' = revoked
  OBVIOUS
<1>4. ASSUME NEW u \in Threads PROVE Held(pc[u], job[u])'
  <2>1. CASE u = t
    <3>1. Held(p, j)
      OBVIOUS
    <3> QED BY <1>2, <1>3, <2>1, <3>1 DEF Held
  <2>2. CASE u # t
    <3>1. Held(pc[u], job[u])
      BY DEF TokensApart
    <3> QED BY <1>1, <1>3, <2>2, <3>1 DEF Held
  <2> QED BY <2>1, <2>2
<1>5. ASSUME NEW u \in Threads, Storing(u)' PROVE Fresh(u)'
  <2>1. u # t /\ pc'[u] = pc[u] /\ job'[u] = job[u]
    BY <1>1, <1>2, <1>5 DEF Storing
  <2>2. Storing(u) /\ Fresh(u)
    BY <1>5, <2>1 DEF Storing, TokensApart
  <2>3. /\ job[u].token # token /\ job[u].token \notin revoked /\ job[u].token # NoAgentToken
        /\ \A v \in Threads : job[v].old # job[u].token
        /\ \A v \in Threads \ {u} :
             pc[v] = "store" /\ job[v].token # NoAgentToken => job[v].token # job[u].token
    BY <2>2 DEF Storing, Fresh
  <2>4. \A v \in Threads : job'[v].old # job[u].token
    BY <1>1, <1>2, <2>3
  <2>5. \A v \in Threads \ {u} :
          pc'[v] = "store" /\ job'[v].token # NoAgentToken => job'[v].token # job[u].token
    BY <1>1, <1>2, <2>3
  <2>6. \A v \in Threads : Storing(v)' <=> pc'[v] = "store" /\ job'[v].token # NoAgentToken
    BY DEF Storing
  <2>7. \A v \in Threads \ {u} : Storing(v)' => job'[v].token # job'[u].token
    BY <2>1, <2>5, <2>6
  <2>8. job'[u].token # token' /\ job'[u].token \notin revoked'
    BY <1>3, <2>1, <2>3
  <2> QED BY <2>1, <2>4, <2>7, <2>8 DEF Fresh
<1>6. \A u \in Threads : Held(pc[u], job[u])'
  BY <1>4
<1>7. \A u \in Threads : Storing(u)' => Fresh(u)'
  BY <1>5
<1>8. token' <= minted' /\ revoked' \subseteq 1..minted' /\ token' \notin revoked'
  BY <1>3 DEF TokensApart
<1> QED BY <1>6, <1>7, <1>8 DEF TokensApart, Storing, Fresh, Held

(* A token that was just minted nobody has.                                  *)
LEMMA TokensMinted ==
  ASSUME Sound, TokensApart, NEW t \in Threads, Mint(t)
  PROVE  TokensApart'
<1>0. /\ pc \in [Threads -> Phases] /\ job \in [Threads -> Jobs]
      /\ token \in Nat /\ minted \in Nat /\ revoked \subseteq Nat
      /\ \A u \in Threads : job[u] \in Jobs
  BY DEF Sound, GateTypeOK
<1>1. /\ token' = token /\ revoked' = revoked /\ pc[t] = "mint"
      /\ pc' = [pc EXCEPT ![t] = "store"]
  BY DEF Mint, memory, Go
<1>2. Held(pc[t], job[t]) /\ job[t].op = "switch" /\ job[t].token = NoAgentToken
  BY <1>1 DEF TokensApart, Held, Sound, Control, KindOf
<1>3. CASE on
  <2> DEFINE n == minted + 1
  <2>1. minted' = n /\ job' = [job EXCEPT ![t].token = n]
    BY <1>3 DEF Mint
  <2>2. n \in Nat /\ n > minted /\ n # 0
    BY <1>0
  <2> HIDE DEF n
  <2>3. \A u \in Threads \ {t} : pc'[u] = pc[u] /\ job'[u] = job[u]
    BY <1>0, <1>1, <2>1
  <2>4. /\ pc'[t] = "store" /\ job'[t].token = n
        /\ job'[t].op = job[t].op /\ job'[t].old = job[t].old
        /\ job'[t].read = job[t].read /\ job'[t].dead = job[t].dead
    BY <1>0, <1>1, <2>1 DEF Jobs
  <2>5. \A u \in Threads :
          /\ Held(pc[u], job[u]) /\ job[u].token \in Nat /\ job[u].old \in Nat
          /\ job'[u].old = job[u].old
    BY <1>0, <2>3, <2>4 DEF TokensApart, Jobs
  <2>6. \A u \in Threads : job[u].token # n /\ job[u].old # n
    <3>1. \A u \in Threads : job[u].token <= minted /\ job[u].old <= minted
      BY <2>5 DEF Held
    <3> QED BY <1>0, <2>2, <2>5, <3>1
  <2>7. token # n /\ n \notin revoked
    BY <1>0, <2>2 DEF TokensApart
  <2>8. ASSUME NEW u \in Threads PROVE Held(pc[u], job[u])'
    <3>1. CASE u = t
      BY <1>0, <1>2, <2>1, <2>2, <2>4, <2>5, <3>1 DEF Held
    <3>2. CASE u # t
      BY <1>0, <2>1, <2>2, <2>3, <2>5, <3>2 DEF Held
    <3> QED BY <3>1, <3>2
  <2>9. ASSUME NEW u \in Threads, Storing(u)' PROVE Fresh(u)'
    <3>0. \A v \in Threads : Storing(v)' <=> pc'[v] = "store" /\ job'[v].token # NoAgentToken
      BY DEF Storing
    <3>1. CASE u = t
      <4>1. \A v \in Threads \ {t} : job'[v].token # n
        BY <2>3, <2>6
      <4>2. \A v \in Threads : job'[v].old # n
        BY <2>5, <2>6
      <4> QED BY <1>1, <2>4, <2>7, <3>1, <4>1, <4>2 DEF Fresh
    <3>2. CASE u # t
      <4>1. Storing(u) /\ Fresh(u) /\ job'[u] = job[u]
        BY <2>3, <2>9, <3>0, <3>2 DEF Storing, TokensApart
      <4>2. /\ job[u].token # token /\ job[u].token \notin revoked
            /\ \A v \in Threads : job[v].old # job[u].token
            /\ \A v \in Threads \ {u} :
                 pc[v] = "store" /\ job[v].token # NoAgentToken => job[v].token # job[u].token
        BY <4>1 DEF Storing, Fresh
      <4>3. \A v \in Threads \ {u} : Storing(v)' => job'[v].token # job'[u].token
        BY <2>3, <2>4, <2>6, <3>0, <4>1, <4>2
      <4>4. \A v \in Threads : job'[v].old # job'[u].token
        BY <2>5, <4>1, <4>2
      <4> QED BY <1>1, <4>1, <4>2, <4>3, <4>4 DEF Fresh
    <3> QED BY <3>1, <3>2
  <2>10. token' <= minted' /\ revoked' \subseteq 1..minted' /\ token' \notin revoked'
    BY <1>0, <1>1, <2>1, <2>2 DEF TokensApart
  <2>11. \A u \in Threads : Held(pc[u], job[u])'
    BY <2>8
  <2>12. \A u \in Threads : Storing(u)' => Fresh(u)'
    BY <2>9
  <2> QED BY <2>10, <2>11, <2>12 DEF TokensApart, Storing, Fresh, Held
<1>4. CASE ~on
  <2>1. minted' = minted /\ job' = job
    BY <1>4 DEF Mint
  <2>2. \A u \in Threads \ {t} : pc'[u] = pc[u]
    BY <1>0, <1>1
  <2>3. pc'[t] = "store"
    BY <1>0, <1>1
  <2>4. ASSUME NEW u \in Threads PROVE Held(pc[u], job[u])'
    <3>1. Held(pc[u], job[u])
      BY DEF TokensApart
    <3>2. CASE u = t
      BY <1>2, <2>1, <2>3, <3>1, <3>2 DEF Held
    <3>3. CASE u # t
      BY <2>1, <2>2, <3>1, <3>3 DEF Held
    <3> QED BY <3>2, <3>3
  <2>5. \A u \in Threads : Storing(u)' <=> Storing(u)
    BY <1>1, <1>2, <2>1, <2>2, <2>3 DEF Storing
  <2>6. ASSUME NEW u \in Threads, Storing(u)' PROVE Fresh(u)'
    <3>1. Fresh(u)
      BY <2>5, <2>6 DEF TokensApart
    <3> QED BY <1>1, <2>1, <2>5, <3>1 DEF Fresh
  <2>7. \A u \in Threads : Held(pc[u], job[u])'
    BY <2>4
  <2>8. \A u \in Threads : Storing(u)' => Fresh(u)'
    BY <2>6
  <2>9. token' <= minted' /\ revoked' \subseteq 1..minted' /\ token' \notin revoked'
    BY <1>1, <2>1 DEF TokensApart
  <2> QED BY <2>7, <2>8, <2>9 DEF TokensApart, Storing, Fresh, Held
<1> QED BY <1>3, <1>4

(* The token that is stored replaces one that is then revoked.               *)
LEMMA TokensStored ==
  ASSUME Sound, TokensApart, NEW t \in Threads, StoreToken(t)
  PROVE  TokensApart'
<1>0. /\ pc \in [Threads -> Phases] /\ job \in [Threads -> Jobs]
      /\ token \in Nat /\ minted \in Nat /\ revoked \subseteq Nat /\ job[t] \in Jobs
  BY DEF Sound, GateTypeOK
<1> DEFINE k == job[t].token
           o == job[t].old
<1>1. /\ token' = k /\ minted' = minted /\ pc[t] = "store"
      /\ revoked' = revoked \cup ({o} \ {NoAgentToken})
      /\ pc' = [pc EXCEPT ![t] = "idle"] /\ job' = [job EXCEPT ![t] = NoJob]
  BY DEF StoreToken, End, Go
<1>2. k \in Nat /\ o \in Nat /\ k <= minted /\ o <= minted
  BY <1>0 DEF Jobs, TokensApart, Held
<1>3. k # 0 => k \notin revoked /\ k # o
               /\ \A u \in Threads \ {t} : Storing(u) => job[u].token # k
  BY <1>1 DEF TokensApart, Storing, Fresh, NoAgentToken
<1> HIDE DEF k, o
<1>4. revoked' \subseteq 1..minted' /\ token' \notin revoked' /\ token' <= minted'
  <2>1. revoked \subseteq 1..minted
    BY DEF TokensApart
  <2> QED BY <1>0, <1>1, <1>2, <1>3, <2>1 DEF NoAgentToken
<1>5. \A u \in Threads \ {t} : pc'[u] = pc[u] /\ job'[u] = job[u]
  BY <1>0, <1>1
<1>6. pc'[t] = "idle" /\ job'[t] = NoJob
  BY <1>0, <1>1
<1>7. ASSUME NEW u \in Threads PROVE Held(pc[u], job[u])'
  <2>1. CASE u = t
    BY <1>0, <1>1, <1>6, <2>1 DEF Held, NoJob, NoAgentToken
  <2>2. CASE u # t
    <3>1. Held(pc[u], job[u])
      BY DEF TokensApart
    <3> QED BY <1>1, <1>5, <2>2, <3>1 DEF Held
  <2> QED BY <2>1, <2>2
<1>8. ASSUME NEW u \in Threads, Storing(u)' PROVE Fresh(u)'
  <2>0. \A v \in Threads : Storing(v)' <=> pc'[v] = "store" /\ job'[v].token # NoAgentToken
    BY DEF Storing
  <2>1. u # t /\ pc'[u] = pc[u] /\ job'[u] = job[u]
    BY <1>5, <1>6, <1>8, <2>0
  <2>2. Storing(u) /\ Fresh(u)
    BY <1>8, <2>0, <2>1 DEF Storing, TokensApart
  <2>3. /\ job[u].token \notin revoked /\ job[u].token # NoAgentToken
        /\ \A v \in Threads : job[v].old # job[u].token
        /\ \A v \in Threads \ {u} :
             pc[v] = "store" /\ job[v].token # NoAgentToken => job[v].token # job[u].token
    BY <2>2 DEF Storing, Fresh
  <2>4. job[u].token # k
    BY <1>1, <2>1, <2>3 DEF k
  <2>5. job[u].token # o
    BY <2>3 DEF o
  <2>6. job'[u].token # token' /\ job'[u].token \notin revoked'
    BY <1>1, <2>1, <2>3, <2>4, <2>5
  <2>7. \A v \in Threads : job'[v].old # job'[u].token
    BY <1>5, <1>6, <2>1, <2>3 DEF NoJob
  <2>8. \A v \in Threads \ {u} : Storing(v)' => job'[v].token # job'[u].token
    BY <1>5, <1>6, <2>0, <2>1, <2>3
  <2> QED BY <2>6, <2>7, <2>8 DEF Fresh
<1>9. \A u \in Threads : Held(pc[u], job[u])'
  BY <1>7
<1>10. \A u \in Threads : Storing(u)' => Fresh(u)'
  BY <1>8
<1> QED BY <1>4, <1>9, <1>10 DEF TokensApart, Storing, Fresh, Held

(* A step of any request, or a restart, keeps the tokens apart.              *)
LEMMA TokensStep == Sound /\ TokensApart /\ [GateNext]_gateVars => TokensApart'
<1> SUFFICES ASSUME Sound, TokensApart, [GateNext]_gateVars PROVE TokensApart'
  OBVIOUS
<1>0. /\ pc \in [Threads -> Phases] /\ job \in [Threads -> Jobs]
      /\ token \in Nat /\ minted \in Nat /\ revoked \subseteq Nat
      /\ \A t \in Threads : job[t] \in Jobs /\ job = [job EXCEPT ![t] = job[t]]
  BY DEF Sound, GateTypeOK
<1>1. /\ token <= minted /\ revoked \subseteq 1..minted /\ token \notin revoked
      /\ \A t \in Threads : Held(pc[t], job[t]) /\ KindOf(pc[t], job[t])
  BY DEF TokensApart, Sound, Control
<1>m. ASSUME UNCHANGED memory PROVE UNCHANGED token
  BY <1>m DEF memory
<1>p. {"idle", "auth", "policy", "fill", "judge", "record", "cut", "send", "sent", "catalogue",
       "filter", "listed", "put", "load", "save", "mint", "edit", "grant", "keep"}
        = Phases \ {"store"}
  BY DEF Phases
<1>k. ASSUME NEW t \in Threads, NEW p \in Phases \ {"store", "mint", "auth"}, NEW j \in Jobs,
             Go(t, p), job' = [job EXCEPT ![t] = j], UNCHANGED <<token, minted, revoked>>,
             pc[t] \notin {"idle", "auth"}, j.op = job[t].op, j.old = job[t].old,
             j.token = job[t].token, j.read = job[t].read, j.dead = job[t].dead
      PROVE  TokensApart'
  <2>1. Held(pc[t], job[t]) /\ pc[t] # "auth"
    BY <1>1, <1>k
  <2>2. Held(p, j)
    BY <1>k, <2>1 DEF Held
  <2>3. pc' = [pc EXCEPT ![t] = p]
    BY <1>k DEF Go
  <2> QED BY <1>k, <2>2, <2>3, TokensKept
<1>s. ASSUME NEW t \in Threads, NEW p \in Phases \ {"store", "mint", "auth"},
             Go(t, p), job' = job, UNCHANGED <<token, minted, revoked>>,
             pc[t] \notin {"idle", "auth"}
      PROVE  TokensApart'
  BY <1>0, <1>k, <1>s
<1>e. ASSUME NEW t \in Threads, End(t), UNCHANGED <<token, minted, revoked>>
      PROVE  TokensApart'
  <2>1. pc' = [pc EXCEPT ![t] = "idle"] /\ job' = [job EXCEPT ![t] = NoJob]
    BY <1>e DEF End, Go
  <2>2. Held("idle", NoJob) /\ NoJob.old = NoAgentToken
    BY <1>0 DEF Held, NoJob, NoAgentToken
  <2> QED BY <1>e, <1>p, <2>1, <2>2, NoJobType, TokensKept
<1>i. ASSUME NEW t \in Threads, pc[t] = "idle"
      PROVE  job[t] = NoJob
  BY <1>1, <1>i DEF KindOf
<1>2. ASSUME NEW t \in Threads, NEW op \in {"read", "list", "write"}, NEW k \in 1..MaxTokens,
             NEW i \in Nat, NEW c \in Classes, k <= minted, Ask(t, op, k, i, c)
      PROVE  TokensApart'
  <2> DEFINE j == [job[t] EXCEPT !.op = op, !.token = k, !.read = token,
                                 !.index = i, !.class = c, !.dead = revoked]
  <2>0. k \in Nat
    OBVIOUS
  <2>1. j \in Jobs /\ j.token = k /\ j.read = token /\ j.dead = revoked /\ j.old = job[t].old
    BY <1>0, <2>0 DEF Jobs
  <2>2. job' = [job EXCEPT ![t] = j] /\ pc' = [pc EXCEPT ![t] = "auth"]
        /\ UNCHANGED <<token, minted, revoked>>
    BY <1>0, <1>2, <1>m DEF Ask, Go
  <2> HIDE DEF j
  <2>3. Held("auth", j)
    BY <1>0, <1>1, <1>2, <2>1 DEF Held
  <2> QED BY <1>p, <2>1, <2>2, <2>3, TokensKept
<1>3. ASSUME NEW t \in Threads, Admit(t) PROVE TokensApart'
  <2>1. PICK p \in {"put", "policy"} : pc' = [pc EXCEPT ![t] = p]
    BY <1>3 DEF Admit, Go
  <2>2. /\ job' = [job EXCEPT ![t] = job[t]] /\ UNCHANGED <<token, minted, revoked>>
        /\ job[t].read = job[t].token
    BY <1>0, <1>3, <1>m DEF Admit
  <2>3. Held(p, job[t])
    BY <1>1, <2>1, <2>2 DEF Held
  <2> QED BY <1>0, <1>p, <2>1, <2>2, <2>3, TokensKept
<1>4. ASSUME NEW t \in Threads, Forbid(t) \/ Withhold(t) \/ Finish(t) \/ SaveCatalogue(t)
                                 \/ SavePolicy(t)
      PROVE  TokensApart'
  <2>1. End(t) /\ UNCHANGED <<token, minted, revoked>>
    BY <1>4, <1>m DEF Forbid, Withhold, Finish, SaveCatalogue, SavePolicy
  <2> QED BY <1>e, <2>1
<1>5. ASSUME NEW t \in Threads, FillDefaults(t) PROVE TokensApart'
  <2>1. Go(t, "fill") /\ job' = job /\ UNCHANGED <<token, minted, revoked>> /\ pc[t] = "policy"
    BY <1>5 DEF FillDefaults
  <2> QED BY <1>p, <1>s, <2>1
<1>6. ASSUME NEW t \in Threads, NEW f \in Policies, NEW b \in BOOLEAN,
             job' = [job EXCEPT ![t].policy = f, ![t].early = b],
             UNCHANGED <<token, minted, revoked>>,
             pc[t] \in {"policy", "fill"}, Go(t, AfterPolicy(t))
      PROVE  TokensApart'
  <2> DEFINE j == [job[t] EXCEPT !.policy = f, !.early = b]
  <2>1. job' = [job EXCEPT ![t] = j]
    BY <1>0, <1>6
  <2>2. /\ j \in Jobs /\ j.op = job[t].op /\ j.old = job[t].old
        /\ j.token = job[t].token /\ j.read = job[t].read /\ j.dead = job[t].dead
    BY <1>0 DEF Jobs
  <2> HIDE DEF j
  <2>3. AfterPolicy(t) \in {"judge", "catalogue", "edit"}
    BY DEF AfterPolicy
  <2> QED BY <1>6, <1>k, <1>p, <2>1, <2>2, <2>3
<1>7. ASSUME NEW t \in Threads, FillFromFile(t) PROVE TokensApart'
  <2>1. policy # Unset /\ policy \in Policies /\ policyFile \in Policies \cup {Absent}
    BY <1>7 DEF FillFromFile, Sound, Control, GateTypeOK
  <2>2. policy' \in Policies
    BY <1>7, <2>1, LoadedType DEF FillFromFile
  <2> DEFINE f == policy'
             b == job[t].early
  <2>3. job' = [job EXCEPT ![t].policy = f, ![t].early = b] /\ b \in BOOLEAN
    BY <1>0, <1>7 DEF FillFromFile, Jobs
  <2>4. UNCHANGED <<token, minted, revoked>> /\ pc[t] = "fill" /\ Go(t, AfterPolicy(t))
    BY <1>7 DEF FillFromFile
  <2> HIDE DEF b
  <2> QED BY <1>6, <2>2, <2>3, <2>4
<1>8. ASSUME NEW t \in Threads, CopyPolicy(t) PROVE TokensApart'
  <2> DEFINE b == \E u \in Threads : pc[u] = "fill"
  <2>1. policy \in Policies
    BY <1>8 DEF CopyPolicy, Sound, GateTypeOK
  <2>2. job' = [job EXCEPT ![t].policy = policy, ![t].early = b] /\ b \in BOOLEAN
    BY <1>8 DEF CopyPolicy
  <2>3. UNCHANGED <<token, minted, revoked>> /\ pc[t] = "policy" /\ Go(t, AfterPolicy(t))
    BY <1>8, <1>m DEF CopyPolicy
  <2> HIDE DEF b
  <2> QED BY <1>6, <2>1, <2>2, <2>3
<1>9. ASSUME NEW t \in Threads, Judge(t) \/ Cut(t) \/ Send(t) \/ EditPolicy(t) \/ GrantTier(t)
      PROVE  TokensApart'
  <2>1. PICK p \in {"record", "send", "sent", "grant", "keep"} : Go(t, p)
    BY <1>9 DEF Judge, Cut, Send, EditPolicy, GrantTier
  <2>2. job' = job /\ UNCHANGED <<token, minted, revoked>>
    BY <1>9, <1>m DEF Judge, Cut, Send, EditPolicy, GrantTier
  <2>3. pc[t] \notin {"idle", "auth"}
    BY <1>9 DEF Judge, Cut, Send, EditPolicy, GrantTier
  <2> QED BY <1>p, <1>s, <2>1, <2>2, <2>3
<1>20. ASSUME NEW t \in Threads, Record(t) PROVE TokensApart'
  <2> DEFINE n == entered + 1
             j == [job[t] EXCEPT !.no = n]
  <2>1. n \in Nat /\ entered' = n
    BY <1>20 DEF Record, Sound, GateTypeOK
  <2>2. job' = [job EXCEPT ![t] = j] /\ Go(t, "cut") /\ pc[t] = "record"
        /\ UNCHANGED <<token, minted, revoked>>
    BY <1>0, <1>20, <2>1 DEF Record
  <2> HIDE DEF n
  <2>3. /\ j \in Jobs /\ j.op = job[t].op /\ j.old = job[t].old
        /\ j.token = job[t].token /\ j.read = job[t].read /\ j.dead = job[t].dead
    BY <1>0, <2>1 DEF Jobs
  <2> HIDE DEF j
  <2> QED BY <1>k, <1>p, <2>2, <2>3
<1>10. ASSUME NEW t \in Threads, ReadCatalogue(t) \/ LoadCatalogue(t) PROVE TokensApart'
  <2> DEFINE j == [job[t] EXCEPT !.entries = catalogue]
  <2>1. catalogue \in Seq(Entries)
    BY DEF Sound, GateTypeOK
  <2>2. /\ j \in Jobs /\ j.op = job[t].op /\ j.old = job[t].old
        /\ j.token = job[t].token /\ j.read = job[t].read /\ j.dead = job[t].dead
    BY <1>0, <2>1 DEF Jobs
  <2>3. PICK p \in {"filter", "save"} : Go(t, p)
    BY <1>10 DEF ReadCatalogue, LoadCatalogue
  <2>4. /\ job' = [job EXCEPT ![t] = j] /\ UNCHANGED <<token, minted, revoked>>
        /\ pc[t] \notin {"idle", "auth"}
    BY <1>0, <1>10, <1>m DEF ReadCatalogue, LoadCatalogue
  <2> HIDE DEF j
  <2> QED BY <1>k, <1>p, <2>2, <2>3, <2>4
<1>11. ASSUME NEW t \in Threads, SendList(t) PROVE TokensApart'
  <2> DEFINE S == {i \in 1..job[t].index : tier >= job[t].policy[Listed(job[t].entries, i)]}
             j == [job[t] EXCEPT !.shown = S]
  <2>1. S \subseteq Nat
    BY <1>0 DEF Jobs
  <2>2. job' = [job EXCEPT ![t] = j]
    BY <1>0, <1>11 DEF SendList
  <2> HIDE DEF S
  <2>3. /\ j \in Jobs /\ j.op = job[t].op /\ j.old = job[t].old
        /\ j.token = job[t].token /\ j.read = job[t].read /\ j.dead = job[t].dead
    BY <1>0, <2>1 DEF Jobs
  <2>4. Go(t, "listed") /\ UNCHANGED <<token, minted, revoked>> /\ pc[t] = "filter"
    BY <1>11, <1>m DEF SendList
  <2> HIDE DEF j
  <2> QED BY <1>k, <1>p, <2>2, <2>3, <2>4
<1>12. ASSUME NEW t \in Threads, Put(t) PROVE TokensApart'
  <2> DEFINE j == [job[t] EXCEPT !.index = Len(keep) + 1]
  <2>1. Len(keep) + 1 \in Nat
    BY DEF Sound, GateTypeOK
  <2>2. /\ j \in Jobs /\ j.op = job[t].op /\ j.old = job[t].old
        /\ j.token = job[t].token /\ j.read = job[t].read /\ j.dead = job[t].dead
    BY <1>0, <2>1 DEF Jobs
  <2>3. /\ Go(t, "load") /\ job' = [job EXCEPT ![t] = j] /\ UNCHANGED <<token, minted, revoked>>
        /\ pc[t] = "put"
    BY <1>0, <1>12, <1>m DEF Put
  <2> HIDE DEF j
  <2> QED BY <1>k, <1>p, <2>2, <2>3
<1>13. ASSUME NEW t \in Threads, NEW p \in {"put", "policy"}, NEW j \in Jobs, pc[t] = "idle",
              Go(t, p), job' = [job EXCEPT ![t] = j], UNCHANGED <<token, minted, revoked>>,
              j.token = job[t].token, j.old = job[t].old, j.read = job[t].read, j.dead = job[t].dead
       PROVE  TokensApart'
  <2>1. job[t].token = NoAgentToken
    BY <1>i, <1>13 DEF NoJob
  <2>2. Held(p, j)
    BY <1>1, <1>13, <2>1 DEF Held
  <2> QED BY <1>p, <1>13, <2>2, TokensKept DEF Go
<1>14. ASSUME NEW t \in Threads, NEW c \in Classes, PageWrite(t, c) PROVE TokensApart'
  <2> DEFINE j == [job[t] EXCEPT !.op = "write", !.class = c]
  <2>1. /\ j \in Jobs /\ j.token = job[t].token /\ j.old = job[t].old
        /\ j.read = job[t].read /\ j.dead = job[t].dead
    BY <1>0 DEF Jobs
  <2>2. /\ pc[t] = "idle" /\ Go(t, "put") /\ UNCHANGED <<token, minted, revoked>>
        /\ job' = [job EXCEPT ![t] = j]
    BY <1>0, <1>14, <1>m DEF PageWrite
  <2> HIDE DEF j
  <2> QED BY <1>13, <2>1, <2>2
<1>15. ASSUME NEW t \in Threads, NEW e \in Edits, Change(t, e) PROVE TokensApart'
  <2> DEFINE j == [job[t] EXCEPT !.op = "change", !.edit = {e}]
  <2>1. /\ j \in Jobs /\ j.token = job[t].token /\ j.old = job[t].old
        /\ j.read = job[t].read /\ j.dead = job[t].dead
    BY <1>0 DEF Jobs
  <2>2. /\ pc[t] = "idle" /\ Go(t, "policy") /\ UNCHANGED <<token, minted, revoked>>
        /\ job' = [job EXCEPT ![t] = j]
    BY <1>0, <1>15, <1>m DEF Change
  <2> HIDE DEF j
  <2> QED BY <1>13, <2>1, <2>2
<1>16. ASSUME NEW t \in Threads, NEW b \in BOOLEAN, Switch(t, b) PROVE TokensApart'
  <2> DEFINE j == [job[t] EXCEPT !.op = "switch", !.old = token]
  <2>1. /\ j \in Jobs /\ j.token = job[t].token /\ j.old = token /\ j.op = "switch"
        /\ j.read = job[t].read /\ j.dead = job[t].dead
    BY <1>0 DEF Jobs
  <2>2. /\ pc' = [pc EXCEPT ![t] = "mint"] /\ UNCHANGED <<token, minted, revoked>>
        /\ job' = [job EXCEPT ![t] = j] /\ pc[t] = "idle"
    BY <1>0, <1>16 DEF Switch, Go
  <2> HIDE DEF j
  <2>3. job[t].token = NoAgentToken
    BY <1>i, <2>2 DEF NoJob
  <2>4. Held("mint", j)
    BY <1>1, <2>1, <2>3 DEF Held
  <2> QED BY <1>p, <2>1, <2>2, <2>4, TokensKept
<1>17. CASE Restart
  <2>1. /\ token' = 0 /\ minted' = minted
        /\ revoked' = IF token = 0 THEN revoked ELSE revoked \cup {token}
        /\ \A t \in Threads : pc'[t] = "idle" /\ job'[t] = NoJob
    BY <1>17 DEF Restart, NoAgentToken
  <2>2. \A t \in Threads : Held(pc[t], job[t])' /\ ~Storing(t)'
    BY <1>0, <2>1 DEF Held, Storing, NoJob, NoAgentToken
  <2>3. token' <= minted' /\ revoked' \subseteq 1..minted' /\ token' \notin revoked'
    BY <1>0, <1>1, <2>1
  <2> QED BY <2>2, <2>3 DEF TokensApart, Held, Storing
<1>18. CASE UNCHANGED gateVars
  BY <1>18 DEF gateVars, memory, disk, ghosts, TokensApart, Held, Storing, Fresh
<1>19. ASSUME NEW t \in Threads, Request(t) PROVE TokensApart'
  <2>1. ASSUME NEW k \in 1..MaxTokens, NEW i \in 1..MaxRecords, AskRead(t, k, i)
        PROVE  TokensApart'
    <3>1. i \in Nat /\ keep[i] \in Classes /\ k <= minted
      BY <1>0, <2>1 DEF AskRead, Sound, GateTypeOK
    <3> QED BY <1>2, <2>1, <3>1 DEF AskRead
  <2>2. ASSUME NEW k \in 1..MaxTokens, AskList(t, k) PROVE TokensApart'
    <3>1. Len(keep) \in Nat /\ Secret \in Classes /\ k <= minted
      BY <1>0, <2>2 DEF AskList, Sound, GateTypeOK
    <3> QED BY <1>2, <2>2, <3>1 DEF AskList
  <2>3. ASSUME NEW k \in 1..MaxTokens, NEW c \in Classes, AskWrite(t, k, c) PROVE TokensApart'
    <3>1. k <= minted
      BY <1>0, <2>3 DEF AskWrite
    <3> QED BY <1>2, <2>3, <3>1 DEF AskWrite
  <2> QED BY <1>3, <1>4, <1>5, <1>7, <1>8, <1>9, <1>10, <1>11, <1>12, <1>14, <1>15, <1>16,
             <1>19, <1>20, <2>1, <2>2, <2>3, TokensMinted, TokensStored DEF Request
<1> QED BY <1>17, <1>18, <1>19 DEF GateNext

(* Once a switch has been answered, no request that comes in with a token    *)
(* from before it is let in, whoever else is turning the switch meanwhile.   *)
THEOREM RevokedStaysDead == GateSpec => []RevokedTokenIsDead
<1>1. TokensApart => RevokedTokenIsDead
  BY DEF TokensApart, Held, RevokedTokenIsDead
<1> QED BY SoundInit, SoundStep, TokensInit, TokensStep, <1>1, PTL DEF GateSpec

-----------------------------------------------------------------------------
(* The catalogue may lack a record, and whole runs of records when two       *)
(* writers met; what it does say of one is the class that was sealed. The    *)
(* records on the node are r.                                                *)
TrueEntry(e, r) == e.index \in 1..Len(r) /\ r[e.index] = e.class
TrueList(s, r) == \A k \in 1..Len(s) : TrueEntry(s[k], r)

Truthful(p, j, r) ==
  /\ TrueList(j.entries, r)
  /\ p \in {"load", "save"} => TrueEntry([index |-> j.index, class |-> j.class], r)
  /\ j.op = "list" => j.index <= Len(r)
  /\ j.shown \subseteq 1..Len(r)

CatalogueIsTrue ==
  TrueList(catalogue, keep) /\ \A t \in Threads : Truthful(pc[t], job[t], keep)

(* What the catalogue says of a record is its class, or that it is secret.   *)
LEMMA ListedIsTrue ==
  ASSUME NEW r, NEW s \in Seq(Entries), TrueList(s, r), NEW i
  PROVE  Listed(s, i) = Secret \/ Listed(s, i) = r[i]
<1> DEFINE known == {k \in 1..Len(s) : s[k].index = i}
<1>1. Listed(s, i) = IF known = {} THEN Secret ELSE s[Max(known)].class
  BY DEF Listed
<1>2. known # {} => Max(known) \in known
  <2>1. Len(s) \in Nat /\ known \in SUBSET (1..Len(s))
    OBVIOUS
  <2> HIDE DEF known
  <2> QED BY <2>1, Greatest
<1>3. \A k \in known : s[k].class = r[i]
  BY DEF TrueList, TrueEntry
<1> HIDE DEF known
<1> QED BY <1>1, <1>2, <1>3

(* Records are only added, and what was true of one stays so.                *)
LEMMA TrueLater ==
  ASSUME NEW r \in Seq(Classes), NEW c \in Classes, NEW q, q \in {r, Append(r, c)}
  PROVE  /\ q \in Seq(Classes) /\ Len(q) \in Nat /\ Len(r) \in Nat /\ Len(r) <= Len(q)
         /\ \A i \in 1..Len(r) : i \in 1..Len(q) /\ q[i] = r[i]
         /\ \A e : TrueEntry(e, r) => TrueEntry(e, q)
         /\ \A s : TrueList(s, r) => TrueList(s, q)
         /\ \A p : \A j \in Jobs : Truthful(p, j, r) => Truthful(p, j, q)
<1>1. /\ q \in Seq(Classes) /\ Len(q) \in Nat /\ Len(r) \in Nat /\ Len(r) <= Len(q)
      /\ \A i \in 1..Len(r) : i \in 1..Len(q) /\ q[i] = r[i]
  OBVIOUS
<1>2. \A e : TrueEntry(e, r) => TrueEntry(e, q)
  BY <1>1 DEF TrueEntry
<1>3. \A s : TrueList(s, r) => TrueList(s, q)
  BY <1>2 DEF TrueList
<1>4. ASSUME NEW p, NEW j \in Jobs, Truthful(p, j, r) PROVE Truthful(p, j, q)
  <2>1. TrueList(j.entries, q)
    BY <1>3, <1>4 DEF Truthful
  <2>2. p \in {"load", "save"} => TrueEntry([index |-> j.index, class |-> j.class], q)
    BY <1>2, <1>4 DEF Truthful
  <2>3. j.op = "list" => j.index <= Len(q)
    BY <1>1, <1>4 DEF Truthful, Jobs
  <2>4. j.shown \subseteq 1..Len(q)
    BY <1>1, <1>4 DEF Truthful
  <2> QED BY <2>1, <2>2, <2>3, <2>4 DEF Truthful
<1> QED BY <1>1, <1>2, <1>3, <1>4

(* An empty catalogue says nothing.                                          *)
LEMMA CatalogueInit == GateInit => CatalogueIsTrue
BY DEF GateInit, CatalogueIsTrue, Truthful, TrueList, NoJob

(* A step of one request: the others rely on nothing that it changed.        *)
LEMMA CatalogueKept ==
  ASSUME Sound, CatalogueIsTrue, NEW c \in Classes, keep' \in {keep, Append(keep, c)},
         TrueList(catalogue', keep'), NEW t \in Threads, NEW p \in Phases, NEW j \in Jobs,
         pc' = [pc EXCEPT ![t] = p], job' = [job EXCEPT ![t] = j], Truthful(p, j, keep')
  PROVE  CatalogueIsTrue'
<1>0. pc \in [Threads -> Phases] /\ job \in [Threads -> Jobs] /\ keep \in Seq(Classes)
  BY DEF Sound, GateTypeOK
<1>1. ASSUME NEW u \in Threads PROVE Truthful(pc'[u], job'[u], keep')
  <2>1. CASE u = t
    BY <1>0, <2>1
  <2>2. CASE u # t
    <3>1. pc'[u] = pc[u] /\ job'[u] = job[u] /\ job[u] \in Jobs
      BY <1>0, <2>2
    <3>2. Truthful(pc[u], job[u], keep)
      BY DEF CatalogueIsTrue
    <3> DEFINE q == keep'
    <3>3. q \in {keep, Append(keep, c)}
      OBVIOUS
    <3> HIDE DEF q
    <3>4. Truthful(pc[u], job[u], q)
      BY <1>0, <3>1, <3>2, <3>3, TrueLater
    <3> QED BY <3>1, <3>4 DEF q
  <2> QED BY <2>1, <2>2
<1> QED BY <1>1 DEF CatalogueIsTrue

(* A step of any request, or a restart, keeps what is catalogued true.       *)
LEMMA CatalogueStep == Sound /\ CatalogueIsTrue /\ [GateNext]_gateVars => CatalogueIsTrue'
<1> SUFFICES ASSUME Sound, CatalogueIsTrue, [GateNext]_gateVars PROVE CatalogueIsTrue'
  OBVIOUS
<1>0. /\ pc \in [Threads -> Phases] /\ job \in [Threads -> Jobs] /\ keep \in Seq(Classes)
      /\ \A t \in Threads : job[t] \in Jobs /\ job = [job EXCEPT ![t] = job[t]]
      /\ token \in Nat /\ minted \in Nat /\ revoked \subseteq Nat /\ Len(keep) \in Nat
  BY DEF Sound, GateTypeOK
<1>1. /\ TrueList(catalogue, keep) /\ catalogue \in Seq(Entries)
      /\ \A t \in Threads : Truthful(pc[t], job[t], keep) /\ KindOf(pc[t], job[t])
  BY DEF CatalogueIsTrue, Sound, Control, GateTypeOK
<1>m. ASSUME UNCHANGED disk PROVE UNCHANGED <<catalogue, keep>>
  BY <1>m DEF disk
<1>p. /\ {"idle", "auth", "policy", "fill", "judge", "record", "cut", "send", "sent", "catalogue",
          "filter", "listed", "put", "mint", "store", "edit", "grant", "keep"}
           = Phases \ {"load", "save"}
      /\ {"load", "save"} \subseteq Phases
  BY DEF Phases
<1>n. Truthful("idle", NoJob, keep) /\ Truthful("idle", NoJob, keep')
  BY DEF Truthful, TrueList, NoJob
<1>k. ASSUME NEW t \in Threads, NEW p \in Phases \ {"load", "save"}, NEW j \in Jobs,
             Go(t, p), job' = [job EXCEPT ![t] = j], UNCHANGED <<catalogue, keep>>,
             j.entries = job[t].entries, j.shown \subseteq 1..Len(keep),
             j.op = "list" => j.index <= Len(keep)
      PROVE  CatalogueIsTrue'
  <2>1. Truthful(p, j, keep)
    BY <1>1, <1>k DEF Truthful
  <2>2. /\ pc' = [pc EXCEPT ![t] = p] /\ TrueList(catalogue', keep') /\ Truthful(p, j, keep')
        /\ keep' \in {keep, Append(keep, Secret)}
    BY <1>1, <1>k, <2>1 DEF Go
  <2> QED BY <1>k, <2>2, CatalogueKept
<1>s. ASSUME NEW t \in Threads, NEW p \in Phases \ {"load", "save"},
             Go(t, p), job' = job, UNCHANGED <<catalogue, keep>>
      PROVE  CatalogueIsTrue'
  <2>1. job[t].shown \subseteq 1..Len(keep) /\ (job[t].op = "list" => job[t].index <= Len(keep))
    BY <1>1 DEF Truthful
  <2> QED BY <1>0, <1>k, <1>s, <2>1
<1>e. ASSUME NEW t \in Threads, End(t), UNCHANGED keep, TrueList(catalogue', keep)
      PROVE  CatalogueIsTrue'
  <2>1. pc' = [pc EXCEPT ![t] = "idle"] /\ job' = [job EXCEPT ![t] = NoJob]
    BY <1>e DEF End, Go
  <2>2. keep' \in {keep, Append(keep, Secret)} /\ TrueList(catalogue', keep')
    BY <1>e
  <2> QED BY <1>n, <1>p, <2>1, <2>2, NoJobType, CatalogueKept
<1>2. ASSUME NEW t \in Threads, NEW op \in {"read", "list", "write"}, NEW k \in Nat,
             NEW i \in Nat, NEW c \in Classes, op = "list" => i <= Len(keep), Ask(t, op, k, i, c)
      PROVE  CatalogueIsTrue'
  <2> DEFINE j == [job[t] EXCEPT !.op = op, !.token = k, !.read = token,
                                 !.index = i, !.class = c, !.dead = revoked]
  <2>1. /\ j \in Jobs /\ j.op = op /\ j.index = i
        /\ j.entries = job[t].entries /\ j.shown = job[t].shown
    BY <1>0 DEF Jobs
  <2>2. job' = [job EXCEPT ![t] = j] /\ Go(t, "auth") /\ UNCHANGED <<catalogue, keep>>
    BY <1>0, <1>2, <1>m DEF Ask
  <2> HIDE DEF j
  <2>3. j.shown \subseteq 1..Len(keep)
    BY <1>1, <2>1 DEF Truthful
  <2> QED BY <1>2, <1>k, <1>p, <2>1, <2>2, <2>3
<1>3. ASSUME NEW t \in Threads, Admit(t) PROVE CatalogueIsTrue'
  <2>1. PICK p \in {"put", "policy"} : Go(t, p)
    BY <1>3 DEF Admit
  <2>2. job' = job /\ UNCHANGED <<catalogue, keep>>
    BY <1>3, <1>m DEF Admit
  <2> QED BY <1>p, <1>s, <2>1, <2>2
<1>4. ASSUME NEW t \in Threads, Forbid(t) \/ Withhold(t) \/ Finish(t) \/ StoreToken(t)
                                 \/ SavePolicy(t)
      PROVE  CatalogueIsTrue'
  <2>1. End(t) /\ UNCHANGED <<catalogue, keep>>
    BY <1>4, <1>m DEF Forbid, Withhold, Finish, StoreToken, SavePolicy
  <2> QED BY <1>1, <1>e, <2>1
<1>5. ASSUME NEW t \in Threads, FillDefaults(t) PROVE CatalogueIsTrue'
  <2>1. Go(t, "fill") /\ job' = job /\ UNCHANGED <<catalogue, keep>>
    BY <1>5, <1>m DEF FillDefaults
  <2> QED BY <1>p, <1>s, <2>1
<1>6. ASSUME NEW t \in Threads, NEW f \in Policies, NEW b \in BOOLEAN,
             job' = [job EXCEPT ![t].policy = f, ![t].early = b],
             UNCHANGED <<catalogue, keep>>, Go(t, AfterPolicy(t))
      PROVE  CatalogueIsTrue'
  <2> DEFINE j == [job[t] EXCEPT !.policy = f, !.early = b]
  <2>1. job' = [job EXCEPT ![t] = j]
    BY <1>0, <1>6
  <2>2. /\ j \in Jobs /\ j.op = job[t].op /\ j.index = job[t].index
        /\ j.entries = job[t].entries /\ j.shown = job[t].shown
    BY <1>0 DEF Jobs
  <2> HIDE DEF j
  <2>3. AfterPolicy(t) \in {"judge", "catalogue", "edit"}
    BY DEF AfterPolicy
  <2>4. j.shown \subseteq 1..Len(keep) /\ (j.op = "list" => j.index <= Len(keep))
    BY <1>1, <2>2 DEF Truthful
  <2> QED BY <1>6, <1>k, <1>p, <2>1, <2>2, <2>3, <2>4
<1>7. ASSUME NEW t \in Threads, FillFromFile(t) PROVE CatalogueIsTrue'
  <2>1. policy # Unset /\ policy \in Policies /\ policyFile \in Policies \cup {Absent}
    BY <1>7 DEF FillFromFile, Sound, Control, GateTypeOK
  <2>2. policy' \in Policies
    BY <1>7, <2>1, LoadedType DEF FillFromFile
  <2> DEFINE f == policy'
             b == job[t].early
  <2>3. job' = [job EXCEPT ![t].policy = f, ![t].early = b] /\ b \in BOOLEAN
    BY <1>0, <1>7 DEF FillFromFile, Jobs
  <2>4. UNCHANGED <<catalogue, keep>> /\ Go(t, AfterPolicy(t))
    BY <1>7, <1>m DEF FillFromFile
  <2> HIDE DEF b
  <2> QED BY <1>6, <2>2, <2>3, <2>4
<1>8. ASSUME NEW t \in Threads, CopyPolicy(t) PROVE CatalogueIsTrue'
  <2> DEFINE b == \E u \in Threads : pc[u] = "fill"
  <2>1. policy \in Policies
    BY <1>8 DEF CopyPolicy, Sound, GateTypeOK
  <2>2. job' = [job EXCEPT ![t].policy = policy, ![t].early = b] /\ b \in BOOLEAN
    BY <1>8 DEF CopyPolicy
  <2>3. UNCHANGED <<catalogue, keep>> /\ Go(t, AfterPolicy(t))
    BY <1>8, <1>m DEF CopyPolicy
  <2> HIDE DEF b
  <2> QED BY <1>6, <2>1, <2>2, <2>3
<1>9. ASSUME NEW t \in Threads, Judge(t) \/ Cut(t) \/ Send(t) \/ EditPolicy(t) \/ GrantTier(t)
      PROVE  CatalogueIsTrue'
  <2>1. PICK p \in {"record", "send", "sent", "grant", "keep"} : Go(t, p)
    BY <1>9 DEF Judge, Cut, Send, EditPolicy, GrantTier
  <2>2. job' = job /\ UNCHANGED <<catalogue, keep>>
    BY <1>9, <1>m DEF Judge, Cut, Send, EditPolicy, GrantTier
  <2> QED BY <1>p, <1>s, <2>1, <2>2
<1>22. ASSUME NEW t \in Threads, Record(t) PROVE CatalogueIsTrue'
  <2> DEFINE n == entered + 1
             j == [job[t] EXCEPT !.no = n]
  <2>1. n \in Nat /\ entered' = n
    BY <1>22 DEF Record, Sound, GateTypeOK
  <2>2. job' = [job EXCEPT ![t] = j] /\ Go(t, "cut") /\ UNCHANGED <<catalogue, keep>>
    BY <1>0, <1>22, <1>m, <2>1 DEF Record
  <2> HIDE DEF n
  <2>3. /\ j \in Jobs /\ j.op = job[t].op /\ j.index = job[t].index
        /\ j.entries = job[t].entries /\ j.shown = job[t].shown
    BY <1>0, <2>1 DEF Jobs
  <2> HIDE DEF j
  <2>4. j.shown \subseteq 1..Len(keep) /\ (j.op = "list" => j.index <= Len(keep))
    BY <1>1, <2>3 DEF Truthful
  <2> QED BY <1>k, <1>p, <2>2, <2>3, <2>4
<1>10. ASSUME NEW t \in Threads, ReadCatalogue(t) \/ LoadCatalogue(t) PROVE CatalogueIsTrue'
  <2> DEFINE j == [job[t] EXCEPT !.entries = catalogue]
  <2>1. /\ j \in Jobs /\ j.op = job[t].op /\ j.index = job[t].index /\ j.class = job[t].class
        /\ j.entries = catalogue /\ j.shown = job[t].shown
    BY <1>0, <1>1 DEF Jobs
  <2>2. PICK p \in {"filter", "save"} :
          pc' = [pc EXCEPT ![t] = p] /\ (p = "save" <=> pc[t] = "load")
    BY <1>10 DEF ReadCatalogue, LoadCatalogue, Go
  <2>3. job' = [job EXCEPT ![t] = j] /\ UNCHANGED <<catalogue, keep>>
    BY <1>0, <1>10, <1>m DEF ReadCatalogue, LoadCatalogue
  <2> HIDE DEF j
  <2>4. Truthful(p, j, keep)
    BY <1>1, <2>1, <2>2 DEF Truthful
  <2>5. /\ TrueList(catalogue', keep') /\ Truthful(p, j, keep')
        /\ keep' \in {keep, Append(keep, Secret)}
    BY <1>1, <2>3, <2>4
  <2> QED BY <1>p, <2>1, <2>2, <2>3, <2>5, CatalogueKept
<1>11. ASSUME NEW t \in Threads, SendList(t) PROVE CatalogueIsTrue'
  <2> DEFINE S == {i \in 1..job[t].index : tier >= job[t].policy[Listed(job[t].entries, i)]}
             j == [job[t] EXCEPT !.shown = S]
  <2>1. S \subseteq 1..job[t].index
    OBVIOUS
  <2>2. job' = [job EXCEPT ![t] = j] /\ Go(t, "listed") /\ UNCHANGED <<catalogue, keep>>
        /\ pc[t] = "filter"
    BY <1>0, <1>11, <1>m DEF SendList
  <2> HIDE DEF S
  <2>3. job[t].index \in Nat /\ S \subseteq Nat
    BY <1>0, <2>1 DEF Jobs
  <2>4. /\ j \in Jobs /\ j.op = job[t].op /\ j.index = job[t].index /\ j.shown = S
        /\ j.entries = job[t].entries
    BY <1>0, <2>3 DEF Jobs
  <2> HIDE DEF j
  <2>5. job[t].index <= Len(keep)
    BY <1>1, <2>2 DEF Truthful, KindOf
  <2>6. j.shown \subseteq 1..Len(keep)
    BY <1>0, <2>1, <2>3, <2>4, <2>5
  <2> QED BY <1>k, <1>p, <2>2, <2>4, <2>5, <2>6
<1>12. ASSUME NEW t \in Threads, Put(t) PROVE CatalogueIsTrue'
  <2> DEFINE n == Len(keep) + 1
             c == job[t].class
             q == Append(keep, c)
             j == [job[t] EXCEPT !.index = n]
  <2>1. c \in Classes /\ n \in Nat /\ job[t].op = "write"
    BY <1>0, <1>1, <1>12 DEF Jobs, Put, KindOf
  <2>2. n \in 1..Len(q) /\ q[n] = c
    BY <1>0, <2>1
  <2>3. keep' = q /\ job' = [job EXCEPT ![t] = j] /\ pc' = [pc EXCEPT ![t] = "load"]
        /\ catalogue' = catalogue
    BY <1>0, <1>12 DEF Put, Go
  <2> HIDE DEF n
  <2>4. /\ j \in Jobs /\ j.op = job[t].op /\ j.index = n /\ j.class = c
        /\ j.entries = job[t].entries /\ j.shown = job[t].shown
    BY <1>0, <2>1 DEF Jobs
  <2> HIDE DEF c, j
  <2>5. q \in {keep, Append(keep, c)}
    OBVIOUS
  <2> HIDE DEF q
  <2>6. /\ TrueList(catalogue, q) /\ TrueList(job[t].entries, q)
        /\ Len(keep) <= Len(q) /\ Len(q) \in Nat
    <3>1. TrueList(job[t].entries, keep)
      BY <1>1 DEF Truthful
    <3>2. /\ Len(q) \in Nat /\ Len(keep) <= Len(q)
          /\ \A s : TrueList(s, keep) => TrueList(s, q)
      BY <1>0, <2>1, <2>5, TrueLater
    <3> QED BY <1>1, <3>1, <3>2
  <2>7. TrueEntry([index |-> j.index, class |-> j.class], q)
    BY <2>2, <2>4 DEF TrueEntry
  <2>8. j.shown \subseteq 1..Len(q)
    <3>1. job[t].shown \subseteq 1..Len(keep)
      BY <1>1 DEF Truthful
    <3>2. 1..Len(keep) \subseteq 1..Len(q)
      BY <1>0, <2>6
    <3> QED BY <2>4, <3>1, <3>2
  <2>9. Truthful("load", j, q)
    BY <2>1, <2>4, <2>6, <2>7, <2>8 DEF Truthful
  <2> QED BY <1>p, <2>1, <2>3, <2>4, <2>5, <2>6, <2>9, CatalogueKept
<1>13. ASSUME NEW t \in Threads, SaveCatalogue(t) PROVE CatalogueIsTrue'
  <2> DEFINE s == Append(job[t].entries, NewEntry(t))
             l == LastOf(s, CatalogueLimit)
  <2>1. End(t) /\ keep' = keep /\ catalogue' \in {l, <<>>} /\ pc[t] = "save"
    BY <1>13 DEF SaveCatalogue, Written
  <2>2. job[t].entries \in Seq(Entries) /\ NewEntry(t) \in Entries
    BY <1>0 DEF Jobs, Entries, NewEntry
  <2>3. TrueList(job[t].entries, keep) /\ TrueEntry(NewEntry(t), keep)
    BY <1>1, <2>1 DEF Truthful, NewEntry
  <2>4. s \in Seq(Entries) /\ \A k \in 1..Len(s) : TrueEntry(s[k], keep)
    BY <2>2, <2>3 DEF TrueList
  <2> HIDE DEF s
  <2>5. \A k \in 1..Len(l) : \E i \in 1..Len(s) : l[k] = s[i]
    BY <2>4, LastOfTypes
  <2> HIDE DEF l
  <2>6. TrueList(l, keep) /\ TrueList(<<>>, keep)
    BY <2>4, <2>5 DEF TrueList
  <2> QED BY <1>e, <2>1, <2>6
<1>14. ASSUME NEW t \in Threads, NEW p \in {"put", "policy", "mint"}, NEW j \in Jobs,
              Go(t, p), job' = [job EXCEPT ![t] = j], UNCHANGED <<catalogue, keep>>,
              j.op # "list", j.entries = job[t].entries, j.shown = job[t].shown
       PROVE  CatalogueIsTrue'
  <2>1. j.shown \subseteq 1..Len(keep)
    BY <1>1, <1>14 DEF Truthful
  <2> QED BY <1>14, <1>k, <1>p, <2>1
<1>15. ASSUME NEW t \in Threads, NEW c \in Classes, PageWrite(t, c) PROVE CatalogueIsTrue'
  <2> DEFINE j == [job[t] EXCEPT !.op = "write", !.class = c]
  <2>1. j \in Jobs /\ j.op = "write" /\ j.entries = job[t].entries /\ j.shown = job[t].shown
    BY <1>0 DEF Jobs
  <2>2. Go(t, "put") /\ UNCHANGED <<catalogue, keep>> /\ job' = [job EXCEPT ![t] = j]
    BY <1>0, <1>15, <1>m DEF PageWrite
  <2> HIDE DEF j
  <2> QED BY <1>14, <2>1, <2>2
<1>16. ASSUME NEW t \in Threads, NEW e \in Edits, Change(t, e) PROVE CatalogueIsTrue'
  <2> DEFINE j == [job[t] EXCEPT !.op = "change", !.edit = {e}]
  <2>1. j \in Jobs /\ j.op = "change" /\ j.entries = job[t].entries /\ j.shown = job[t].shown
    BY <1>0 DEF Jobs
  <2>2. Go(t, "policy") /\ UNCHANGED <<catalogue, keep>> /\ job' = [job EXCEPT ![t] = j]
    BY <1>0, <1>16, <1>m DEF Change
  <2> HIDE DEF j
  <2> QED BY <1>14, <2>1, <2>2
<1>17. ASSUME NEW t \in Threads, NEW b \in BOOLEAN, Switch(t, b) PROVE CatalogueIsTrue'
  <2> DEFINE j == [job[t] EXCEPT !.op = "switch", !.old = token]
  <2>1. j \in Jobs /\ j.op = "switch" /\ j.entries = job[t].entries /\ j.shown = job[t].shown
    BY <1>0 DEF Jobs
  <2>2. Go(t, "mint") /\ UNCHANGED <<catalogue, keep>> /\ job' = [job EXCEPT ![t] = j]
    BY <1>0, <1>17, <1>m DEF Switch
  <2> HIDE DEF j
  <2> QED BY <1>14, <2>1, <2>2
<1>18. ASSUME NEW t \in Threads, Mint(t) PROVE CatalogueIsTrue'
  <2>1. Go(t, "store") /\ UNCHANGED <<catalogue, keep>>
    BY <1>18, <1>m DEF Mint
  <2>2. CASE on
    <3> DEFINE n == minted + 1
               j == [job[t] EXCEPT !.token = n]
    <3>1. job' = [job EXCEPT ![t] = j] /\ n \in Nat
      BY <1>0, <1>18, <2>2 DEF Mint
    <3> HIDE DEF n
    <3>2. /\ j \in Jobs /\ j.op = job[t].op /\ j.index = job[t].index
          /\ j.entries = job[t].entries /\ j.shown = job[t].shown
      BY <1>0, <3>1 DEF Jobs
    <3> HIDE DEF j
    <3>3. j.shown \subseteq 1..Len(keep) /\ (j.op = "list" => j.index <= Len(keep))
      BY <1>1, <3>2 DEF Truthful
    <3> QED BY <1>k, <1>p, <2>1, <3>1, <3>2, <3>3
  <2>3. CASE ~on
    <3>1. job' = job
      BY <1>18, <2>3 DEF Mint
    <3> QED BY <1>p, <1>s, <2>1, <3>1
  <2> QED BY <2>2, <2>3
<1>19. CASE Restart
  <2>1. /\ keep' = keep /\ catalogue' = catalogue
        /\ \A t \in Threads : pc'[t] = "idle" /\ job'[t] = NoJob
    BY <1>19 DEF Restart, disk
  <2>2. \A t \in Threads : Truthful(pc'[t], job'[t], keep')
    BY <1>n, <2>1
  <2> QED BY <1>1, <2>1, <2>2 DEF CatalogueIsTrue
<1>20. CASE UNCHANGED gateVars
  BY <1>20 DEF gateVars, memory, disk, ghosts, CatalogueIsTrue
<1>21. ASSUME NEW t \in Threads, Request(t) PROVE CatalogueIsTrue'
  <2>0. \A k \in 1..MaxTokens : k \in Nat
    OBVIOUS
  <2>1. ASSUME NEW k \in 1..MaxTokens, NEW i \in 1..MaxRecords, AskRead(t, k, i)
        PROVE  CatalogueIsTrue'
    <3>1. i \in Nat /\ keep[i] \in Classes
      BY <1>0, <2>1 DEF AskRead
    <3> QED BY <1>2, <2>0, <2>1, <3>1 DEF AskRead
  <2>2. ASSUME NEW k \in 1..MaxTokens, AskList(t, k) PROVE CatalogueIsTrue'
    <3>1. Len(keep) \in Nat /\ Len(keep) <= Len(keep) /\ Secret \in Classes
      BY <1>0
    <3> QED BY <1>2, <2>0, <2>2, <3>1 DEF AskList
  <2>3. ASSUME NEW k \in 1..MaxTokens, NEW c \in Classes, AskWrite(t, k, c)
        PROVE  CatalogueIsTrue'
    BY <1>2, <2>0, <2>3 DEF AskWrite
  <2> QED BY <1>3, <1>4, <1>5, <1>7, <1>8, <1>9, <1>10, <1>11, <1>12, <1>13, <1>15, <1>16,
             <1>17, <1>18, <1>21, <1>22, <2>1, <2>2, <2>3 DEF Request
<1> QED BY <1>19, <1>20, <1>21 DEF GateNext

-----------------------------------------------------------------------------
(* While a request is judged, no class was ever required at more than the    *)
(* policy it goes by; once it is let past, its class was cleared.            *)
Judging == {"judge", "record", "cut", "send", "sent", "catalogue", "filter", "listed"}

Permitted(p, j, lo, hi, r) ==
  ~j.early =>
    /\ p \in Judging => \A c \in Classes : lo[c] <= j.policy[c]
    /\ p \in {"record", "cut", "send", "sent"} => lo[j.class] <= hi
    /\ p = "listed" => \A i \in j.shown : lo[r[i]] <= hi

AllPermitted == \A t \in Threads : Permitted(pc[t], job[t], low[t], high[t], keep)

(* At the start nothing is judged.                                           *)
LEMMA PermittedInit == GateInit => AllPermitted
BY DEF GateInit, AllPermitted, Permitted, Judging

(* What was permitted stays so while less is required, more is granted and   *)
(* records are added.                                                        *)
LEMMA PermittedLater ==
  ASSUME NEW p, NEW j \in Jobs, NEW lo \in Policies, NEW lo1 \in Policies,
         NEW hi \in Tiers, NEW hi1 \in Tiers, NEW r \in Seq(Classes), NEW q,
         \A c \in Classes : lo1[c] <= lo[c], hi1 >= hi,
         \A i \in 1..Len(r) : q[i] = r[i], j.shown \subseteq 1..Len(r),
         Permitted(p, j, lo, hi, r)
  PROVE  Permitted(p, j, lo1, hi1, q)
<1>1. /\ \A c \in Classes : lo[c] \in Nat /\ lo1[c] \in Nat /\ j.policy[c] \in Nat
      /\ hi \in Nat /\ hi1 \in Nat /\ j.class \in Classes
  BY DEF Policies, Tiers, Jobs
<1>2. ASSUME ~j.early, p \in Judging, NEW c \in Classes PROVE lo1[c] <= j.policy[c]
  <2>1. lo[c] <= j.policy[c]
    BY <1>2 DEF Permitted
  <2> QED BY <1>1, <2>1
<1>3. ASSUME ~j.early, p \in {"record", "cut", "send", "sent"} PROVE lo1[j.class] <= hi1
  <2>1. lo[j.class] <= hi /\ lo1[j.class] <= lo[j.class]
    BY <1>1, <1>3 DEF Permitted
  <2> QED BY <1>1, <2>1
<1>4. ASSUME ~j.early, p = "listed", NEW i \in j.shown PROVE lo1[q[i]] <= hi1
  <2>1. lo[r[i]] <= hi /\ q[i] = r[i] /\ r[i] \in Classes
    BY <1>4 DEF Permitted
  <2> QED BY <1>1, <2>1
<1> QED BY <1>2, <1>3, <1>4 DEF Permitted

(* Every state has a policy in force.                                        *)
LEMMA InForceNext == Sound' => InForce' \in Policies
<1> SUFFICES ASSUME Sound' PROVE InForce' \in Policies
  OBVIOUS
<1>1. policyFile' \in Policies \cup {Absent} /\ policy' \in Policies \cup {Unset}
  BY DEF Sound, GateTypeOK
<1>2. Loaded' \in Policies
  BY <1>1 DEF Loaded, Policies, Tiers
<1> QED BY <1>1, <1>2 DEF InForce

(* A step of one request takes back no permission of another.                *)
LEMMA PermittedKept ==
  ASSUME Sound, Sound', CatalogueIsTrue, AllPermitted, Watch,
         NEW c \in Classes, keep' \in {keep, Append(keep, c)},
         NEW t \in Threads, NEW p \in Phases, NEW j \in Jobs,
         pc' = [pc EXCEPT ![t] = p], job' = [job EXCEPT ![t] = j],
         Permitted(p, j, low'[t], high'[t], keep')
  PROVE  AllPermitted'
<1>0. pc \in [Threads -> Phases] /\ job \in [Threads -> Jobs] /\ keep \in Seq(Classes)
  BY DEF Sound, GateTypeOK
<1>1. InForce' \in Policies /\ tier' \in Tiers /\ GateTypeOK
  BY InForceNext DEF Sound, GateTypeOK
<1>2. /\ low' \in [Threads -> Policies] /\ high' \in [Threads -> Tiers]
      /\ \A u \in Threads : job[u].op \in {"read", "list"} =>
           high'[u] >= high[u] /\ \A d \in Classes : low'[u][d] <= low[u][d]
  BY <1>1, Watching
<1>3. low \in [Threads -> Policies] /\ high \in [Threads -> Tiers]
  BY <1>1 DEF GateTypeOK
<1>4. ASSUME NEW u \in Threads
      PROVE  Permitted(pc'[u], job'[u], low'[u], high'[u], keep')
  <2>1. CASE u = t
    BY <1>0, <2>1
  <2>2. CASE u # t
    <3>1. pc'[u] = pc[u] /\ job'[u] = job[u] /\ job[u] \in Jobs
      BY <1>0, <2>2
    <3>2. CASE pc[u] \notin Judging
      BY <3>1, <3>2 DEF Permitted, Judging
    <3>3. CASE pc[u] \in Judging
      <4>1. job[u].op \in {"read", "list"}
        BY <3>3 DEF Sound, Control, KindOf, Judging
      <4>2. high'[u] >= high[u] /\ \A d \in Classes : low'[u][d] <= low[u][d]
        BY <1>2, <4>1
      <4>3. job[u].shown \subseteq 1..Len(keep)
        BY DEF CatalogueIsTrue, Truthful
      <4>4. Permitted(pc[u], job[u], low[u], high[u], keep)
        BY DEF AllPermitted
      <4> DEFINE q == keep'
      <4>5. \A i \in 1..Len(keep) : q[i] = keep[i]
        BY <1>0
      <4>6. /\ low[u] \in Policies /\ low'[u] \in Policies
            /\ high[u] \in Tiers /\ high'[u] \in Tiers
        BY <1>2, <1>3
      <4> HIDE DEF q
      <4>7. Permitted(pc[u], job[u], low'[u], high'[u], q)
        BY <1>0, <3>1, <4>2, <4>3, <4>4, <4>5, <4>6, PermittedLater
      <4> QED BY <3>1, <4>7 DEF q
    <3> QED BY <3>2, <3>3
  <2> QED BY <2>1, <2>2
<1> QED BY <1>4 DEF AllPermitted

(* A step of any request, or a restart, permits nothing that is not cleared. *)
LEMMA PermittedStep ==
  Sound /\ Sound' /\ CatalogueIsTrue /\ AllPermitted /\ [GateNext]_gateVars => AllPermitted'
<1> SUFFICES ASSUME Sound, Sound', CatalogueIsTrue, AllPermitted, [GateNext]_gateVars
             PROVE  AllPermitted'
  OBVIOUS
<1>0. /\ pc \in [Threads -> Phases] /\ job \in [Threads -> Jobs] /\ keep \in Seq(Classes)
      /\ \A t \in Threads : job[t] \in Jobs /\ job = [job EXCEPT ![t] = job[t]]
      /\ pc' \in [Threads -> Phases] /\ job' \in [Threads -> Jobs]
      /\ low \in [Threads -> Policies] /\ high \in [Threads -> Tiers]
      /\ tier \in Tiers /\ tier' \in Tiers /\ GateTypeOK
  BY DEF Sound, GateTypeOK
<1>1. /\ \A t \in Threads : Permitted(pc[t], job[t], low[t], high[t], keep)
      /\ \A t \in Threads : Truthful(pc[t], job[t], keep) /\ KindOf(pc[t], job[t])
      /\ InForce' \in Policies
  BY InForceNext DEF AllPermitted, CatalogueIsTrue, Sound, Control
<1>2. ASSUME Watch, NEW t \in Threads
      PROVE  /\ low'[t] \in Policies /\ high'[t] \in Tiers
             /\ high'[t] >= tier' /\ \A c \in Classes : low'[t][c] <= InForce'[c]
             /\ job[t].op \in {"read", "list"} =>
                  high'[t] >= high[t] /\ \A c \in Classes : low'[t][c] <= low[t][c]
  BY <1>0, <1>1, <1>2, Watching
<1>3. ASSUME NEW t \in Threads
      PROVE  pc' = [pc EXCEPT ![t] = pc'[t]] /\ job' = [job EXCEPT ![t] = job'[t]]
             <=> \A u \in Threads \ {t} : pc'[u] = pc[u] /\ job'[u] = job[u]
  BY <1>0
\* A request that is not judged, before or after.
<1>n. ASSUME Watch, NEW c \in Classes, keep' \in {keep, Append(keep, c)},
             NEW t \in Threads, NEW p \in Phases \ Judging, pc' = [pc EXCEPT ![t] = p],
             \A u \in Threads \ {t} : job'[u] = job[u]
      PROVE  AllPermitted'
  <2> DEFINE j == job'[t]
  <2>1. j \in Jobs /\ job' = [job EXCEPT ![t] = j]
    BY <1>0, <1>n
  <2> HIDE DEF j
  <2>2. Permitted(p, j, low'[t], high'[t], keep')
    BY DEF Permitted, Judging
  <2> QED BY <1>n, <2>1, <2>2, PermittedKept
<1>p. /\ {"idle", "auth", "policy", "fill", "put", "load", "save", "mint", "store",
          "edit", "grant", "keep"} = Phases \ Judging
      /\ Judging \subseteq Phases
  BY DEF Phases, Judging
<1>d. ASSUME UNCHANGED disk PROVE UNCHANGED keep
  BY <1>d DEF disk
<1>k. ASSUME UNCHANGED keep PROVE keep' \in {keep, Append(keep, Secret)}
  BY <1>k
<1>4. ASSUME Watch, NEW t \in Threads, NEW p \in Phases \ Judging, Go(t, p), UNCHANGED keep,
             \A u \in Threads \ {t} : job'[u] = job[u]
      PROVE  AllPermitted'
  BY <1>4, <1>k, <1>n DEF Go
<1>5. ASSUME Watch, NEW t \in Threads, End(t), UNCHANGED keep PROVE AllPermitted'
  BY <1>0, <1>4, <1>5, <1>p DEF End
<1>6. ASSUME Watch, NEW t \in Threads, NEW op, NEW k, NEW i, NEW c, Ask(t, op, k, i, c)
      PROVE  AllPermitted'
  <2>1. Go(t, "auth") /\ UNCHANGED keep
    BY <1>6, <1>d DEF Ask
  <2>2. \A u \in Threads \ {t} : job'[u] = job[u]
    BY <1>0, <1>6 DEF Ask
  <2> QED BY <1>4, <1>6, <1>p, <2>1, <2>2
<1>7. ASSUME Watch, NEW t \in Threads, Admit(t) \/ FillDefaults(t) \/ EditPolicy(t) \/ GrantTier(t)
      PROVE  AllPermitted'
  <2>1. PICK p \in {"put", "policy", "fill", "grant", "keep"} : Go(t, p)
    BY <1>7 DEF Admit, FillDefaults, EditPolicy, GrantTier
  <2>2. job' = job /\ UNCHANGED keep
    BY <1>7, <1>d DEF Admit, FillDefaults, EditPolicy, GrantTier
  <2> QED BY <1>4, <1>7, <1>p, <2>1, <2>2
<1>8. ASSUME Watch, NEW t \in Threads, Forbid(t) \/ Withhold(t) \/ Finish(t) \/ StoreToken(t)
                                        \/ SavePolicy(t) \/ SaveCatalogue(t)
      PROVE  AllPermitted'
  <2>1. End(t) /\ UNCHANGED keep
    BY <1>8, <1>d DEF Forbid, Withhold, Finish, StoreToken, SavePolicy, SaveCatalogue
  <2> QED BY <1>5, <1>8, <2>1
<1>9. ASSUME Watch, NEW t \in Threads, LoadCatalogue(t) PROVE AllPermitted'
  <2>1. Go(t, "save") /\ UNCHANGED keep /\ \A u \in Threads \ {t} : job'[u] = job[u]
    BY <1>0, <1>9, <1>d DEF LoadCatalogue
  <2> QED BY <1>4, <1>9, <1>p, <2>1
<1>10. ASSUME Watch, NEW t \in Threads, NEW c \in Classes, PageWrite(t, c) PROVE AllPermitted'
  <2>1. Go(t, "put") /\ UNCHANGED keep /\ \A u \in Threads \ {t} : job'[u] = job[u]
    BY <1>0, <1>10, <1>d DEF PageWrite
  <2> QED BY <1>4, <1>10, <1>p, <2>1
<1>11. ASSUME Watch, NEW t \in Threads, NEW e \in Edits, Change(t, e) PROVE AllPermitted'
  <2>1. Go(t, "policy") /\ UNCHANGED keep /\ \A u \in Threads \ {t} : job'[u] = job[u]
    BY <1>0, <1>11, <1>d DEF Change
  <2> QED BY <1>4, <1>11, <1>p, <2>1
<1>12. ASSUME Watch, NEW t \in Threads, NEW b \in BOOLEAN, Switch(t, b) PROVE AllPermitted'
  <2>1. Go(t, "mint") /\ UNCHANGED keep /\ \A u \in Threads \ {t} : job'[u] = job[u]
    BY <1>0, <1>12, <1>d DEF Switch
  <2> QED BY <1>4, <1>12, <1>p, <2>1
<1>13. ASSUME Watch, NEW t \in Threads, Mint(t) PROVE AllPermitted'
  <2>1. Go(t, "store") /\ UNCHANGED keep
    BY <1>13, <1>d DEF Mint
  <2>2. \A u \in Threads \ {t} : job'[u] = job[u]
    <3>1. CASE on
      BY <1>0, <1>13, <3>1 DEF Mint
    <3>2. CASE ~on
      BY <1>13, <3>2 DEF Mint
    <3> QED BY <3>1, <3>2
  <2> QED BY <1>4, <1>13, <1>p, <2>1, <2>2
<1>14. ASSUME Watch, NEW t \in Threads, Put(t) PROVE AllPermitted'
  <2>1. /\ pc' = [pc EXCEPT ![t] = "load"] /\ job[t].class \in Classes
        /\ keep' \in {keep, Append(keep, job[t].class)}
        /\ \A u \in Threads \ {t} : job'[u] = job[u]
    BY <1>0, <1>14 DEF Put, Go, Jobs
  <2> QED BY <1>14, <1>n, <1>p, <2>1
\* A request that is judged.
<1>j. ASSUME Watch, UNCHANGED keep, NEW t \in Threads, NEW p \in Judging, NEW j \in Jobs,
             Go(t, p), job' = [job EXCEPT ![t] = j], Permitted(p, j, low'[t], high'[t], keep)
      PROVE  AllPermitted'
  BY <1>j, <1>k, <1>p, PermittedKept DEF Go
<1>15. ASSUME Watch, NEW t \in Threads, pc[t] \in Judging, NEW p \in Phases,
              UNCHANGED keep, NEW j \in Jobs, Permitted(p, j, low[t], high[t], keep),
              j.shown \subseteq 1..Len(keep)
       PROVE  Permitted(p, j, low'[t], high'[t], keep)
  <2>1. job[t].op \in {"read", "list"}
    BY <1>1, <1>15 DEF KindOf, Judging
  <2>2. high'[t] >= high[t] /\ \A d \in Classes : low'[t][d] <= low[t][d]
    BY <1>2, <1>15, <2>1
  <2>3. low'[t] \in Policies /\ high'[t] \in Tiers /\ low[t] \in Policies /\ high[t] \in Tiers
    BY <1>0, <1>2, <1>15
  <2>4. \A i \in 1..Len(keep) : keep[i] = keep[i]
    OBVIOUS
  <2> QED BY <1>0, <1>15, <2>2, <2>3, <2>4, PermittedLater
<1>16. ASSUME Watch, NEW t \in Threads, FillFromFile(t) PROVE AllPermitted'
  <2> DEFINE j == job'[t]
             p == pc'[t]
  <2>1. j \in Jobs /\ p \in Phases /\ job' = [job EXCEPT ![t] = j] /\ Go(t, p)
    BY <1>0, <1>16 DEF FillFromFile, Go
  <2>2. UNCHANGED keep /\ pc[t] = "fill" /\ p \in {"judge", "catalogue", "edit"}
        /\ \A u \in Threads \ {t} : pc'[u] = pc[u]
    BY <1>0, <1>16, <1>d DEF FillFromFile, Go, AfterPolicy
  <2>3. policy' # Unset
    <3>1. policy # Unset /\ policyFile \in Policies \cup {Absent}
      BY <1>0, <1>16 DEF FillFromFile, Sound, Control, GateTypeOK
    <3>2. policyFile # Absent => policy' \in Policies
      BY <1>16, <3>1, LoadedType DEF FillFromFile
    <3> QED BY <1>16, <3>1, <3>2 DEF FillFromFile, Policies, Unset
  <2>4. \A u \in Threads : pc'[u] # "fill"
    BY <2>2 DEF Sound, Control
  <2>5. InForce' = policy' /\ j.policy = policy'
    <3>1. InForce' = IF policy' = Unset \/ \E u \in Threads : pc'[u] = "fill"
                     THEN Loaded' ELSE policy'
      BY DEF InForce
    <3>2. j.policy = policy'
      BY <1>0, <1>16 DEF FillFromFile, Jobs
    <3> QED BY <2>3, <2>4, <3>1, <3>2
  <2>6. \A c \in Classes : low'[t][c] <= j.policy[c]
    BY <1>2, <1>16, <2>5
  <2> HIDE DEF j, p
  <2>7. Permitted(p, j, low'[t], high'[t], keep)
    BY <2>2, <2>6 DEF Permitted
  <2>8. CASE p = "edit"
    BY <1>0, <1>4, <1>16, <1>p, <2>1, <2>2, <2>8
  <2>9. CASE p \in Judging
    BY <1>16, <1>j, <2>1, <2>2, <2>7, <2>9
  <2> QED BY <2>2, <2>8, <2>9 DEF Judging
<1>17. ASSUME Watch, NEW t \in Threads, CopyPolicy(t) PROVE AllPermitted'
  <2> DEFINE j == job'[t]
             p == pc'[t]
  <2>1. j \in Jobs /\ p \in Phases /\ job' = [job EXCEPT ![t] = j] /\ Go(t, p)
    BY <1>0, <1>17 DEF CopyPolicy, Go
  <2>2. UNCHANGED keep /\ p \in {"judge", "catalogue", "edit"} /\ policy' = policy
        /\ policy # Unset /\ \A u \in Threads \ {t} : pc'[u] = pc[u]
    BY <1>0, <1>17, <1>d DEF CopyPolicy, Go, AfterPolicy, memory
  <2>3. j.policy = policy /\ (~j.early => \A u \in Threads : pc[u] # "fill")
    <3> DEFINE b == \E u \in Threads : pc[u] = "fill"
               n == [job[t] EXCEPT !.policy = policy, !.early = b]
    <3>1. job' = [job EXCEPT ![t].policy = policy, ![t].early = b]
      BY <1>17 DEF CopyPolicy
    <3>2. ~b => \A u \in Threads : pc[u] # "fill"
      OBVIOUS
    <3> HIDE DEF b
    <3>3. j = n
      BY <1>0, <3>1
    <3>4. n.policy = policy /\ n.early = b
      BY <1>0 DEF Jobs
    <3> HIDE DEF n, j
    <3> QED BY <3>2, <3>3, <3>4
  <2>4. ~j.early => InForce' = policy
    <3>1. InForce' = IF policy' = Unset \/ \E u \in Threads : pc'[u] = "fill"
                     THEN Loaded' ELSE policy'
      BY DEF InForce
    <3>2. ~j.early => \A u \in Threads : pc'[u] # "fill"
      BY <2>2, <2>3
    <3> QED BY <2>2, <3>1, <3>2
  <2>5. ~j.early => \A c \in Classes : low'[t][c] <= j.policy[c]
    BY <1>2, <1>17, <2>3, <2>4
  <2> HIDE DEF j, p
  <2>6. Permitted(p, j, low'[t], high'[t], keep)
    BY <2>2, <2>5 DEF Permitted
  <2>7. CASE p = "edit"
    BY <1>0, <1>4, <1>17, <1>p, <2>1, <2>2, <2>7
  <2>8. CASE p \in Judging
    BY <1>17, <1>j, <2>1, <2>2, <2>6, <2>8
  <2> QED BY <2>2, <2>7, <2>8 DEF Judging
<1>18. ASSUME Watch, NEW t \in Threads, Judge(t) PROVE AllPermitted'
  <2> DEFINE j == job[t]
  <2>1. /\ pc[t] = "judge" /\ tier >= j.policy[j.class] /\ Go(t, "record")
        /\ UNCHANGED <<tier, keep>> /\ job' = [job EXCEPT ![t] = j] /\ j \in Jobs
    BY <1>0, <1>18, <1>d DEF Judge, Required, memory
  <2>2. j.shown \subseteq 1..Len(keep) /\ pc[t] \in Judging
    BY <1>1, <2>1 DEF Truthful, Judging
  <2>3. Permitted(pc[t], j, low'[t], high'[t], keep)
    BY <1>0, <1>1, <1>15, <1>18, <2>1, <2>2
  <2>4. ~j.early => low'[t][j.class] <= high'[t]
    <3>1. ~j.early => low'[t][j.class] <= j.policy[j.class]
      BY <2>1, <2>2, <2>3 DEF Permitted, Jobs
    <3>2. high'[t] >= tier /\ low'[t] \in Policies /\ high'[t] \in Tiers
      BY <1>2, <1>18, <2>1
    <3>3. low'[t][j.class] \in Nat /\ j.policy[j.class] \in Nat /\ high'[t] \in Nat /\ tier \in Nat
      BY <1>0, <2>1, <3>2 DEF Policies, Tiers, Jobs
    <3> QED BY <2>1, <3>1, <3>2, <3>3
  <2> HIDE DEF j
  <2>5. Permitted("record", j, low'[t], high'[t], keep)
    BY <2>1, <2>2, <2>3, <2>4 DEF Permitted, Judging
  <2>6. "record" \in Judging
    BY DEF Judging
  <2> QED BY <1>18, <1>j, <2>1, <2>5, <2>6
<1>19. ASSUME Watch, NEW t \in Threads, Record(t) \/ Cut(t) \/ Send(t) PROVE AllPermitted'
  <2> DEFINE n == entered + 1
             j == IF Record(t) THEN [job[t] EXCEPT !.no = n] ELSE job[t]
  <2>1. PICK p \in {"cut", "send", "sent"} : Go(t, p)
    BY <1>19 DEF Record, Cut, Send
  <2>2. n \in Nat /\ (Record(t) => entered' = n)
    BY <1>0 DEF Record, GateTypeOK
  <2>3. /\ pc[t] \in {"record", "cut", "send"} /\ UNCHANGED keep
        /\ job' = [job EXCEPT ![t] = j] /\ job[t] \in Jobs
    <3>1. CASE Record(t)
      BY <1>0, <1>d, <2>2, <3>1 DEF Record
    <3>2. CASE ~Record(t) /\ (Cut(t) \/ Send(t))
      BY <1>0, <1>d, <3>2 DEF Cut, Send
    <3> QED BY <1>19, <3>1, <3>2
  <2> HIDE DEF n
  <2>4. /\ j \in Jobs /\ j.policy = job[t].policy /\ j.early = job[t].early
        /\ j.class = job[t].class /\ j.shown = job[t].shown
    BY <2>2, <2>3 DEF Jobs
  <2> HIDE DEF j
  <2>5. job[t].shown \subseteq 1..Len(keep) /\ pc[t] \in Judging /\ p \in Judging
    BY <1>1, <2>1, <2>3 DEF Truthful, Judging
  <2>6. Permitted(pc[t], job[t], low'[t], high'[t], keep)
    BY <1>0, <1>1, <1>15, <1>19, <2>3, <2>5
  <2>7. Permitted(p, j, low'[t], high'[t], keep)
    BY <2>1, <2>3, <2>4, <2>5, <2>6 DEF Permitted
  <2> QED BY <1>19, <1>j, <2>1, <2>3, <2>4, <2>5, <2>7
<1>20. ASSUME Watch, NEW t \in Threads, ReadCatalogue(t) PROVE AllPermitted'
  <2> DEFINE j == [job[t] EXCEPT !.entries = catalogue]
  <2>1. /\ j \in Jobs /\ j.policy = job[t].policy /\ j.early = job[t].early
        /\ j.shown = job[t].shown
    <3>1. catalogue \in Seq(Entries)
      BY <1>0 DEF GateTypeOK
    <3>2. job[t] \in Jobs
      BY <1>0
    <3>3. j \in Jobs
      BY <3>1, <3>2 DEF Jobs
    <3>4. j.policy = job[t].policy /\ j.early = job[t].early /\ j.shown = job[t].shown
      BY <3>2 DEF Jobs
    <3> QED BY <3>3, <3>4
  <2>2. /\ pc[t] = "catalogue" /\ UNCHANGED keep /\ Go(t, "filter")
        /\ job' = [job EXCEPT ![t] = j]
    BY <1>0, <1>20, <1>d DEF ReadCatalogue
  <2> HIDE DEF j
  <2>3. job[t].shown \subseteq 1..Len(keep) /\ pc[t] \in Judging /\ "filter" \in Judging
    BY <1>1, <2>2 DEF Truthful, Judging
  <2>4. Permitted(pc[t], job[t], low'[t], high'[t], keep)
    BY <1>0, <1>1, <1>15, <1>20, <2>2, <2>3
  <2>5. Permitted("filter", j, low'[t], high'[t], keep)
    BY <2>1, <2>2, <2>3, <2>4 DEF Permitted
  <2> QED BY <1>20, <1>j, <2>1, <2>2, <2>3, <2>5
<1>21. ASSUME Watch, NEW t \in Threads, SendList(t) PROVE AllPermitted'
  <2> DEFINE o == job[t]
             S == {i \in 1..o.index : tier >= o.policy[Listed(o.entries, i)]}
             j == [o EXCEPT !.shown = S]
  <2>1. /\ pc[t] = "filter" /\ UNCHANGED <<tier, keep>> /\ Go(t, "listed")
        /\ job' = [job EXCEPT ![t] = j] /\ o.op = "list" /\ o \in Jobs
    BY <1>0, <1>1, <1>21, <1>d DEF SendList, memory, KindOf
  <2>2. o.index <= Len(keep) /\ TrueList(o.entries, keep) /\ o.entries \in Seq(Entries)
        /\ o.index \in Nat /\ Len(keep) \in Nat /\ o.shown \subseteq 1..Len(keep)
    <3>1. /\ o.index <= Len(keep) /\ TrueList(o.entries, keep)
          /\ o.shown \subseteq 1..Len(keep)
      BY <1>1, <2>1 DEF Truthful
    <3>2. o.entries \in Seq(Entries) /\ o.index \in Nat
      BY <1>0 DEF Jobs
    <3> QED BY <1>0, <3>1, <3>2
  <2>3. \A i \in S : i \in 1..Len(keep) /\ tier >= o.policy[Listed(o.entries, i)]
    BY <2>2
  <2>4. S \subseteq Nat
    BY <2>2
  <2> HIDE DEF S
  <2>5. j \in Jobs /\ j.shown = S /\ j.early = o.early /\ j.policy = o.policy
    BY <2>1, <2>4 DEF Jobs
  <2> HIDE DEF j
  <2>6. pc[t] \in Judging /\ "listed" \in Judging
    BY <2>1 DEF Judging
  <2>7. Permitted(pc[t], o, low'[t], high'[t], keep)
    BY <1>0, <1>1, <1>15, <1>21, <2>1, <2>2, <2>6
  <2>8. /\ high'[t] >= tier /\ low'[t] \in Policies /\ high'[t] \in Nat /\ tier \in Nat
        /\ o.policy \in Policies
    BY <1>0, <1>2, <1>21, <2>1 DEF Tiers, Jobs
  <2>9. ASSUME ~o.early, NEW i \in S PROVE low'[t][keep[i]] <= high'[t]
    <3>1. keep[i] \in Classes /\ tier >= o.policy[Listed(o.entries, i)]
      BY <1>0, <2>3
    <3>2. /\ low'[t][keep[i]] \in Nat /\ low'[t][keep[i]] <= TopTier
          /\ o.policy[keep[i]] \in Nat /\ o.policy[Secret] = TopTier
      BY <2>8, <3>1 DEF Policies, Tiers
    <3>3. low'[t][keep[i]] <= o.policy[keep[i]]
      BY <2>6, <2>7, <2>9, <3>1 DEF Permitted
    <3>4. Listed(o.entries, i) = Secret \/ Listed(o.entries, i) = keep[i]
      BY <2>2, ListedIsTrue
    <3>5. tier >= low'[t][keep[i]]
      BY <2>8, <3>1, <3>2, <3>3, <3>4
    <3> QED BY <2>8, <3>2, <3>5
  <2> HIDE DEF o
  <2>10. Permitted("listed", j, low'[t], high'[t], keep)
    BY <2>5, <2>6, <2>7, <2>9 DEF Permitted
  <2> QED BY <1>21, <1>j, <2>1, <2>5, <2>6, <2>10
<1>22. CASE Restart
  <2>1. \A t \in Threads : pc'[t] = "idle"
    BY <1>22 DEF Restart
  <2> QED BY <2>1 DEF AllPermitted, Permitted, Judging
<1>23. CASE UNCHANGED gateVars
  BY <1>23 DEF gateVars, memory, disk, ghosts, AllPermitted
<1>24. ASSUME Watch, NEW t \in Threads, Request(t) PROVE AllPermitted'
  BY <1>6, <1>7, <1>8, <1>9, <1>10, <1>11, <1>12, <1>13, <1>14, <1>16, <1>17, <1>18, <1>19,
     <1>20, <1>21, <1>24 DEF Request, AskRead, AskList, AskWrite
<1> QED BY <1>22, <1>23, <1>24 DEF GateNext

(* A text or a label goes to the agent only when its class, the one sealed   *)
(* with it, was at some moment of the request required at most at a tier     *)
(* that was granted at some moment of it.                                    *)
THEOREM AgentsSeeWhatIsCleared == GateSpec => []OnlyClearedCross
<1>1. AllPermitted => OnlyClearedCross
  BY DEF AllPermitted, Permitted, OnlyClearedCross, Cleared
<1> QED BY SoundInit, SoundStep, CatalogueInit, CatalogueStep, PermittedInit, PermittedStep,
           <1>1, PTL DEF GateSpec
================================================================================
