------------------------------ MODULE EntityVault ------------------------------
(* The reversible map of private values to placeholders, and the call to a      *)
(* provider that is made with it (oblivio/vault_proxy.py): substitute, send,     *)
(* put back.                                                                    *)
(*                                                                            *)
(* A text is a sequence of words and placeholders; matching by whole words      *)
(* makes a value a sequence of words. A word is a tuple of one, a placeholder    *)
(* a pair of kind and number, and a triple any other spelling of one that is put *)
(* back as well: bare, in brackets, in lower case. The vault's tag, which no text *)
(* has by chance, is what keeps words apart from both.                          *)
EXTENDS Integers, Sequences, FiniteSets, SequencesExt

CONSTANTS
  Structured,   \* pattern matches, as sequences of words: keys, addresses, paths
  Lower(_)      \* a word in lower case

NoVault == [mappings |-> {}, counters |-> [k \in {"PERSON", "KEY"} |-> 0]]

IsWord(token) == Len(token) = 1
IsPlaceholder(token) == Len(token) = 2
Folded(text) == [i \in DOMAIN text |-> IF IsWord(text[i]) THEN Lower(text[i]) ELSE text[i]]

-----------------------------------------------------------------------------
(* Building the map. A value is known by its folded form and keeps the        *)
(* spelling it was declared in.                                               *)
Known(vault, value) == {m \in vault.mappings : Folded(m.value) = Folded(value)}

Declare(vault, value, kind) ==
  IF Known(vault, value) # {} THEN vault
  ELSE [mappings |-> vault.mappings \cup
          {[placeholder |-> <<kind, vault.counters[kind]>>, value |-> value]},
        counters |-> [vault.counters EXCEPT ![kind] = @ + 1]]

PlaceholderOf(vault, value) == (CHOOSE m \in Known(vault, value) : TRUE).placeholder

DeclareAll(vault, values, kind) ==
  LET after[i \in 0 .. Len(values)] ==
        IF i = 0 THEN vault ELSE Declare(after[i - 1], values[i], kind)
  IN after[Len(values)]

DeclareMany(vault, values) == DeclareAll(vault, values, "PERSON")

-----------------------------------------------------------------------------
(* Where a value stands in a text: from the left, the next match is looked    *)
(* for behind the last one.                                                   *)
MatchesAt(text, value, i) ==
  i + Len(value) - 1 <= Len(text) /\ SubSeq(text, i, i + Len(value) - 1) = value

Spans(text, value) ==
  LET from[i \in 1 .. Len(text) + 1] ==
        IF i > Len(text) THEN {}
        ELSE IF MatchesAt(text, value, i)
               THEN {<<i, i + Len(value) - 1>>} \cup from[i + Len(value)]
               ELSE from[i + 1]
  IN from[1]

LiteralSpans(text, value) == Spans(Folded(text), Folded(value))

DeclaredSpans(vault, text) == UNION {LiteralSpans(text, m.value) : m \in vault.mappings}
PatternSpans(text) == UNION {Spans(text, s) : s \in Structured}

(* LearnFrom primes a vault from a text the user has already stored.          *)
LearnFrom(vault, text) ==
  LET found == SetToSeq(PatternSpans(text))
  IN DeclareAll(vault, [i \in DOMAIN found |-> SubSeq(text, found[i][1], found[i][2])], "KEY")

Overlap(s, t) == s[1] <= t[2] /\ t[1] <= s[2]

(* Mutant: nothing is dropped, and two overlapping spans are both replaced.   *)
ResolveNothing(spans, end) == spans

(* The earliest span wins, among those that begin together the longest: from  *)
(* the first place to the last, what begins there and overlaps none that is kept. *)
ResolveOverlaps(spans, end) ==
  LET kept[i \in 0 .. end] ==
        IF i = 0 THEN {}
        ELSE LET before == kept[i - 1]
             IN before \cup
                  {s \in spans : /\ s[1] = i
                                 /\ \A t \in spans : t[1] = i => t[2] <= s[2]
                                 /\ \A k \in before : ~Overlap(s, k)}
  IN kept[end]

-----------------------------------------------------------------------------
(* From right to left, so that the spans to the left stay where they are. A   *)
(* pattern's find is declared on the way.                                     *)
Replace(acc, span) ==
  LET value == SubSeq(acc.text, span[1], span[2])
      vault == Declare(acc.vault, value, "KEY")
  IN [vault |-> vault,
      text  |-> SubSeq(acc.text, 1, span[1] - 1) \o <<PlaceholderOf(vault, value)>>
                  \o SubSeq(acc.text, span[2] + 1, Len(acc.text))]

SpansToReplace(vault, text) ==
  ResolveOverlaps(DeclaredSpans(vault, text) \cup PatternSpans(text), Len(text))

Substituted(vault, text) ==
  LET kept == SpansToReplace(vault, text)
      from[i \in 1 .. Len(text) + 1] ==
        IF i > Len(text) THEN [vault |-> vault, text |-> text]
        ELSE IF \E s \in kept : s[1] = i
               THEN Replace(from[i + 1], CHOOSE s \in kept : s[1] = i)
               ELSE from[i + 1]
  IN from[1]

Leaks(vault, text) == {m \in vault.mappings : LiteralSpans(text, m.value) # {}}

(* The spelling the vault gives its placeholders is looked for, and no other.  *)
ForeignPlaceholder(text) == \E i \in DOMAIN text : IsPlaceholder(text[i])

(* What is about to be sent is looked through for what is known.              *)
Verified(done) ==
  [vault |-> done.vault, text |-> done.text, ok |-> Leaks(done.vault, done.text) = {}]

(* A text that leaks, or that already holds a placeholder, is not sent. The    *)
(* vault keeps what it declared before it found the leak.                     *)
Anonymize(vault, text) ==
  IF ForeignPlaceholder(text) THEN [vault |-> vault, text |-> text, ok |-> FALSE]
  ELSE Verified(Substituted(vault, text))

(* What is put back is put back in every spelling.                            *)
Exact(token) == IF Len(token) = 3 THEN <<token[1], token[2]>> ELSE token

StandsFor(vault, token) ==
  IF \E m \in vault.mappings : m.placeholder = Exact(token)
    THEN (CHOOSE m \in vault.mappings : m.placeholder = Exact(token)).value
    ELSE <<token>>

Restore(vault, text) == FlattenSeq([i \in DOMAIN text |-> StandsFor(vault, text[i])])

(* An answer as a model may return it, its placeholders spelt otherwise.       *)
Respelt(text) ==
  [i \in DOMAIN text |-> IF IsPlaceholder(text[i]) THEN <<text[i][1], text[i][2], "loose">>
                         ELSE text[i]]

(* What goes into the record and comes out again: to_json, then from_json.    *)
Reloaded(vault) == [mappings |-> vault.mappings, counters |-> vault.counters]

(* One call: prompt, then system text, through one vault; the answer is put   *)
(* back in the words of the vault as it then is.                              *)
PrivateComplete(vault, prompt, system) ==
  LET p == Anonymize(vault, prompt)
      s == Anonymize(p.vault, system)
  IN IF ~p.ok \/ ~s.ok THEN [sent |-> FALSE, vault |-> IF p.ok THEN s.vault ELSE p.vault]
     ELSE [sent |-> TRUE, vault |-> s.vault, prompt |-> p.text, system |-> s.text]

-----------------------------------------------------------------------------
(* Whatever is known and however the spans overlap: a provider that repeats   *)
(* what it was sent, in whatever spelling of the placeholders, is read back as *)
(* what was written, in the declared spelling, also by a vault that was stored *)
(* in between and learnt more. Only of a text that itself holds another        *)
(* spelling of a placeholder the vault comes to know, which is not refused, is *)
(* that spelling put back too.                                                *)
HoldsOther(vault, text) == \E i \in DOMAIN text : StandsFor(vault, text[i]) # <<text[i]>>

ReadBack(later, sent, text) ==
  \A answer \in {sent, Respelt(sent)} :
    LET back == Folded(Restore(later, answer))
    IN /\ back = Folded(Restore(later, text))
       /\ HoldsOther(later, text) \/ back = Folded(text)

RoundTrip(declared, learnt, prompt, system) ==
  LET call == PrivateComplete(DeclareMany(NoVault, declared), prompt, system)
  IN call.sent => ReadBack(LearnFrom(Reloaded(call.vault), learnt),
                           call.prompt \o call.system, prompt \o system)

(* Every place in the prompt where a value stood that was known beforehand is  *)
(* hit: of a value that is dropped for one that begins before it, what stays   *)
(* in the text is a proper part.                                              *)
EveryMentionIsHit(declared, prompt) ==
  LET vault == DeclareMany(NoVault, declared)
      anon  == Anonymize(vault, prompt)
      kept  == SpansToReplace(vault, prompt)
  IN anon.ok => \A m \in vault.mappings : \A i \in DOMAIN prompt :
       MatchesAt(Folded(prompt), Folded(m.value), i)
         => \E k \in kept : Overlap(k, <<i, i + Len(m.value) - 1>>)
=============================================================================
