------------------------------- MODULE Dispatch ------------------------------
(* The constant-rate channel of oblivio/dispatch.py: questions are queued at *)
(* any time, and leave one per slot of a clock; a slot with nothing queued   *)
(* sends cover. One caller ticks; send() blocks it while others may submit.  *)
(*                                                                           *)
(* A question is its n-grams (the phrases it contains) and the bucket its    *)
(* length falls in; tickets are the numbers of the accepted questions in the *)
(* order of their acceptance. Time is the time left to the next slot.        *)
EXTENDS Integers, Sequences

CONSTANTS
  Questions,   \* what may be asked
  Ngrams,      \* [Questions -> sets of phrases]
  Bucket,      \* [Questions -> 1 ..]: smallest bucket that fits
  Buckets,     \* number of SIZE_BUCKETS; a larger Bucket is none
  Tokens, NoToken,
  Interval,
  MaxGap,      \* bound: longest gap of the Poisson mode
  MaxLate,     \* bound: how late a tick is told apart
  MaxAsked     \* bound: accepted questions

ASSUME QuestionAssumption ==
  /\ Bucket \in [Questions -> Nat \ {0}]
  /\ DOMAIN Ngrams = Questions
  /\ Buckets \in Nat \ {0}
ASSUME TimeAssumption ==
  /\ Interval \in Nat \ {0} /\ MaxGap \in Nat /\ MaxLate \in Nat /\ MaxAsked \in Nat
ASSUME TokenAssumption == NoToken \notin Tokens

Modes == {"constant", "poisson", "unknown"}
CoverBucket == 1     \* COVER_QUESTIONS are all shorter than the smallest bucket
Idle == 0            \* no tick is in send()
Cover == -1          \* the tick in send() carries cover, hence no ticket
Nothing == 0         \* on the wire

VARIABLES
  mode, strict,   \* interval_mode and strict_linkage, fields of the Channel
  wait,           \* _next_at - clock(), 0 while _next_at is None
  queue,          \* _queue, as tickets
  asked,          \* ghost: ticket -> its question and its token
  seen,           \* _seen_ngrams
  spent,          \* _spent_tokens
  sending,        \* Idle, Cover or the ticket tick() has popped
  results,        \* _results: ticket -> "reply" or "error"
  wire            \* ghost: bucket the last slot put on the wire

vars == <<mode, strict, wait, queue, asked, seen, spent, sending, results, wire>>

Tickets == 1 .. Len(asked)
Fits(q) == Bucket[q] <= Buckets
Linked(q) == Ngrams[q] \cap seen # {}

Init ==
  /\ mode \in Modes /\ strict \in BOOLEAN
  /\ wait = 0
  /\ queue = <<>> /\ asked = <<>> /\ seen = {} /\ spent = {}
  /\ sending = Idle
  /\ results = <<>>
  /\ wire = CoverBucket

-----------------------------------------------------------------------------
(* Mutant: the token of a question is not remembered. *)
SpendNothing(t) == spent' = spent

(* submit(). A question with a history, a blank one and one whose token was  *)
(* spent are refused before anything changes, so they are no step. A token   *)
(* is spent BEFORE the linkage check, and stays spent when that refuses.     *)
Spend(t) == spent' = IF t = NoToken THEN spent ELSE spent \cup {t}

Submit(q, t) ==
  /\ Len(asked) < MaxAsked
  /\ t \notin spent
  /\ ~(strict /\ Linked(q))
  /\ Spend(t)
  /\ seen' = seen \cup Ngrams[q]
  /\ asked' = Append(asked, [question |-> q, token |-> t])
  /\ queue' = Append(queue, Len(asked) + 1)
  /\ UNCHANGED <<mode, strict, wait, sending, results, wire>>

RefuseLinked(q, t) ==
  /\ t \notin spent
  /\ strict /\ Linked(q)
  /\ Spend(t)
  /\ UNCHANGED <<mode, strict, wait, queue, asked, seen, sending, results, wire>>

-----------------------------------------------------------------------------
(* Time passes, also while send() blocks.                                    *)
Pass ==
  /\ wait' = IF wait > -MaxLate THEN wait - 1 ELSE wait
  /\ UNCHANGED <<mode, strict, queue, asked, seen, spent, sending, results, wire>>

(* Mutant: the schedule catches up, counting from the slot that was missed. *)
NextSlotCatchUp ==
  \E gap \in CASE mode = "constant" -> {Interval} [] mode = "poisson" -> 0 .. MaxGap [] OTHER -> {} :
    wait' = wait + gap

(* _next_gap(): the next slot counts from now, however late this one is. An  *)
(* unknown mode raises before the slot is used, so there tick() is no step.  *)
Gaps == CASE mode = "constant" -> {Interval}
          [] mode = "poisson"  -> 0 .. MaxGap
          [] OTHER             -> {}

NextSlot == \E gap \in Gaps : wait' = gap

Due == sending = Idle /\ wait <= 0

(* tick() up to the call of send(), with a question,                         *)
TickReal ==
  /\ Due /\ NextSlot
  /\ queue # <<>> /\ Fits(asked[Head(queue)].question)
  /\ queue' = Tail(queue)
  /\ sending' = Head(queue)
  /\ wire' = Bucket[asked[Head(queue)].question]
  /\ UNCHANGED <<mode, strict, asked, seen, spent, results>>

(* or with cover.                                                            *)
TickCover ==
  /\ Due /\ NextSlot
  /\ queue = <<>>
  /\ sending' = Cover
  /\ wire' = CoverBucket
  /\ UNCHANGED <<mode, strict, queue, asked, seen, spent, results>>

(* Mutant: a question that does not fit stays at the head of the queue. *)
TickTooLongStuck ==
  /\ Due /\ NextSlot
  /\ queue # <<>> /\ ~Fits(asked[Head(queue)].question)
  /\ wire' = Nothing
  /\ UNCHANGED <<mode, strict, queue, asked, seen, spent, sending, results>>

(* bucket_for() raises out of tick() when the slot is used and the question  *)
(* is off the queue: nothing is sent, and the ticket never gets a result.    *)
TickTooLong ==
  /\ Due /\ NextSlot
  /\ queue # <<>> /\ ~Fits(asked[Head(queue)].question)
  /\ queue' = Tail(queue)
  /\ wire' = Nothing
  /\ UNCHANGED <<mode, strict, asked, seen, spent, sending, results>>

(* Mutant: a failed question is queued again.                                *)
AnswerRequeue(outcome) ==
  /\ sending # Idle
  /\ LET again == outcome = "error" /\ sending # Cover IN
       /\ results' = IF sending = Cover \/ again THEN results
                     ELSE [k \in DOMAIN results \cup {sending} |->
                             IF k = sending THEN outcome ELSE results[k]]
       /\ queue' = IF again THEN Append(queue, sending) ELSE queue
  /\ sending' = Idle
  /\ UNCHANGED <<mode, strict, wait, asked, seen, spent, wire>>

(* send() returns or raises; both end the tick, and a ticket gets a result.  *)
Answer(outcome) ==
  /\ sending # Idle
  /\ results' = IF sending = Cover THEN results
                ELSE [k \in DOMAIN results \cup {sending} |->
                        IF k = sending THEN outcome ELSE results[k]]
  /\ sending' = Idle
  /\ UNCHANGED <<mode, strict, wait, queue, asked, seen, spent, wire>>

Tick == TickReal \/ TickCover \/ TickTooLong

Next ==
  \/ \E q \in Questions, t \in Tokens \cup {NoToken} : Submit(q, t) \/ RefuseLinked(q, t)
  \/ Pass
  \/ Tick
  \/ \E outcome \in {"reply", "error"} : Answer(outcome)

(* Time passes, the owner of the channel keeps calling tick() and send()     *)
(* ends (it raises on a timeout). Nobody need ever ask anything.             *)
Fairness ==
  /\ WF_vars(Pass) /\ WF_vars(Tick)
  /\ WF_vars(\E outcome \in {"reply", "error"} : Answer(outcome))

Spec == Init /\ [][Next]_vars /\ Fairness

-----------------------------------------------------------------------------
(* Types; the queue holds tickets.                                           *)
TypeOK ==
  /\ mode \in Modes /\ strict \in BOOLEAN
  /\ wait \in Int
  /\ asked \in Seq([question : Questions, token : Tokens \cup {NoToken}])
  /\ queue \in Seq(Tickets)
  /\ seen \subseteq UNION {Ngrams[q] : q \in Questions}
  /\ spent \subseteq Tokens
  /\ sending \in Tickets \cup {Idle, Cover}
  /\ DOMAIN results \subseteq Tickets
  /\ \A k \in DOMAIN results : results[k] \in {"reply", "error"}
  /\ wire \in Nat

Question(k) == asked[k].question

(* Tickets are dealt with once and in the order of submission: those not     *)
(* queued any more are a prefix, the queue is the rest, only the last of the *)
(* prefix may be in send(), and the others have a result unless they were    *)
(* too long to send. Nothing is lost, sent twice or overtaken.               *)
FirstInFirstOut ==
  LET gone == Len(asked) - Len(queue) IN
  /\ \A i \in 1 .. Len(queue) : queue[i] = gone + i
  /\ sending \in {Idle, Cover, gone}
  /\ \A k \in 1 .. gone :
       \/ k = sending
       \/ k \in DOMAIN results <=> Fits(Question(k))
  /\ \A k \in DOMAIN results : k <= gone /\ k # sending

(* One token never authorises two questions, and under strict linkage no two *)
(* questions that were accepted, sent or not, share a phrase.                *)
Unlinkable ==
  \A j, k \in Tickets : j # k =>
    /\ asked[j].token = asked[k].token => asked[j].token = NoToken
    /\ strict => Ngrams[Question(j)] \cap Ngrams[Question(k)] = {}

(* As long as no question longer than the cover was accepted, a watcher of a *)
(* constant-rate channel sees the Metronome: no slot is silent, early, or of *)
(* another size, and none depends on what was asked.                         *)
Clock == INSTANCE Metronome WITH Size <- CoverBucket

AsShortAsCover ==
  mode = "constant" /\ \A k \in Tickets : Bucket[Question(k)] = CoverBucket

ImplementsClock ==
  Clock!Init /\ [][AsShortAsCover' => Clock!Next]_<<wait, wire>>

(* Every accepted question gets a result or was too long to send, whatever   *)
(* fails and however many are queued, provided the mode is a known one.      *)
EveryQuestionEnds ==
  \A k \in 1 .. MaxAsked :
    (mode # "unknown" /\ k \in Tickets /\ Fits(Question(k))) ~> k \in DOMAIN results
==============================================================================
