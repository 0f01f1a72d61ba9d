# BlindKeep in TLA+

TLA+ models of BlindKeep: its encrypted store and verifying clients, the app that
holds the master key, the gates through which a question or an agent's request
passes, the tokens and relay it may travel by, and the verdicts the system gives on
evidence. Each module is translated from the Python source (paths below are relative
to `src/`) and checked with TLC on a small instance. The twelve with processes, files
or threads in them, the hash tree and six of the seven algorithms are proved with
TLAPS, for every value of their constants.

    tlc -workers 2 -config StoreFaults.cfg MCMemoryStore   # module of each run: section 3
    tlapm MemoryStore_proof.tla

`PROJECT.json` is the index: components, runs, the lines each definition stands for,
hazards with the properties that cover them, theorems. For every checked property it
names a mutant, a definition changed as a plausible bug would change it, under which
the property fails; mutants stand in the modules just above the definition they
replace.

## 1. The system

BlindKeep keeps a person's notes ("memories") on nodes that cannot read them, and
lets language models use them without showing them more than a policy allows.

| Component | State | Operations | Talks to |
|---|---|---|---|
| Node store, `oblivio/store.py` | `records/<leaf>`, `log.jsonl`, `head.json`; rows, Merkle log and identifier index in memory | `put_ciphertext`, `get`, `get_by_record_id`, `head`, proofs, `_load` | node server |
| Merkle log, `oblivio/merkle.py` | levels of hashes | append, root, inclusion and consistency proofs, both verifiers | store, client |
| Node server, `oblivio/node.py` | none of its own; a thread per request | HTTP to the store | clients |
| Verifying client, `oblivio/client.py` | pin (key, size, root) in memory and in a file | `put`, `get`, `get_by_id`, `head`, `list` | node; app, gate, replica hold clients |
| Replicated client, `oblivio/replica.py` | a client per node | `put`, `get`, `list`, `status`, `healthy` | several nodes |
| Discovery and audit, `oblivio/discover.py`, `audit.py` | none | `discover`, `audit_node`, `audit_peers`, `rank` | lists, nodes |
| Witness and gossip, `oblivio/witness.py` | log of heads seen, in a file | `observe`, `merge`, the command `gossip` | nodes, other clients' exports |
| App: the key, `app.py` | `SESSION_KEY`, `master.key(.sealed)`, backup acknowledgement; a thread per request | setup, unlock, lock, export, start over, read, write | client, files |
| App: agents, `app.py` | switch, token, tier, policy and its file, catalogue, ledger of reads | switch, policy, tier, read, list, write | client, agents |
| App: effort checks, `app.py` | Heartwood tree, one run at a time, its queue of events | install, run, stream | a local model |
| MCP server, `oblivio/mcp_server.py` | none | four tools | app |
| Dispatch channel, `oblivio/dispatch.py` | queue, slot clock, seen phrases, spent tokens, results | `submit`, `tick`, `due`, `linkage`, `result` | a `send` function |
| Memory gate and delegation, `oblivio/memory_gate.py`, `delegate.py` | list of memories in memory and in an index file | `remember`, `release_for`, `chat` | client, backends of five tiers |
| Privacy ledger, private path, `oblivio/dp.py`, `frontier_private.py`, `cloud_gate.py` | ledger of spent epsilon | `dp_delegate`, `frontier_chat`, `cloud_complete` | local model, gateway, provider |
| Gateway and tokens, `oblivio/frontier_gateway.py`, `anon_token.py` | issuer key file, spent list, both in memory and on disk; an OHTTP key pair in memory; a thread per request | redeem and ask the provider; `token issue` | provider, relay |
| Relay and oblivious HTTP, `oblivio/frontier_relay.py`, `oblivious.py`, `hpke.py` | none | forward; seal, open | client, gateway |
| Attestation, `oblivio/attest.py`, `sev_snp.py` | none | the checks of a host's document | hosts |
| Vault, recovery, zero knowledge, `vault_proxy.py`, `recovery.py`, `zk.py`, `zk_keep.py` | a vault's map | pure functions | app, command line |
| Cryptography, circuits, `crypto.py`, `zk_tree.py`, `poseidon*.py`, `circuits/` | none | pure functions | everything |
| Command line, tools, demonstrations | none | call one component and print | everything |

**How they interact.** A `put` travels app or gate → client → node server → store;
the receipt comes back with a signed head and an inclusion proof, the client asks
for a consistency proof from its pin in a *second* request, and moves the pin.
Several client objects share one pin file (the app opens one per handler thread).
The gate puts memories through a client and then saves its own index. A question
goes gate → tier's backend, perhaps through the local model that abstracts it,
through the dispatch channel's slots, and through relay and gateway to a provider,
paid by a one-time token. An agent goes MCP server → app → policy → client.

**What is hard.** Nothing is fsynced, and most files are overwritten in place, so a
crash leaves torn files and states no code path writes on purpose. Handler threads
share globals without a lock in the app. Files shared by processes are read once
and written back whole (pin, gate index, spent tokens, ledger, gossip log,
catalogue), some through one temporary file that two of them can hold open at once.
Nodes may lie, and one client must not be told two histories; a relay may keep and
repeat what it carries. A local model is not trusted to keep what it was told. Slots
come late, sends fail, nodes are down.

**What makes each component correct.**

- Store: one append-only history; no two heads of one size; an acknowledged row
  stays; an identifier keeps meaning what it meant first; what is served verifies.
- Client: accepted heads are one history, whatever the node says; a receipt holds
  for ever; an honest node is not accused, but for a head that is behind its log.
- Replicas: two readers never disagree; a returned put is held widely enough.
- App keys: a record written on trust in a backup stays readable; lock means lock.
- Agents: nothing crosses that was not cleared at some moment of the request; a
  replaced token is dead; each text that was read has its row in the ledger.
- Dispatch: what is on the wire does not depend on what is asked; nothing is lost,
  reordered, linkable, or kept waiting for ever.
- Tokens and relay: one call for each spelling of a token, through restarts, concurrent issue and replay; a
  reply reaches the call it was made for.
- Gate: only what the policy clears for the *proved* tier crosses; a delegate sees
  none of it; a memory that was remembered can be recalled.
- Private path: what leaves was gated against all that was read; what was spent was
  charged first; the receipt says what happened.
- Witness: nothing is held against an honest node but one of its own heads in two
  spellings; a conflict is never forgotten.
- Evidence: what is accepted (a host, a share, a proof, a node) earned it.

## 2. Modules

Four abstract specifications say what a component promises; the detailed ones
implement them through `INSTANCE ... WITH` and list that as a property.

| Module | Models | Implements |
|---|---|---|
| `AppendOnlyLog` | what a keep promises: entries only grow, heads are moments of them | – |
| `MemoryStore` | `store.py`, write by write | `AppendOnlyLog` |
| `OblivioClient` | `client.py`, request by request | – |
| `WriteOnce` | what reading a replicated record promises | – |
| `Replication` | `replica.py`, answer by answer | `WriteOnce` |
| `Metronome` | what a watcher of the wire sees | – |
| `Dispatch` | `dispatch.py` | `Metronome` |
| `PrepaidAccount` | what a privacy budget promises: booked before bought, within the limit | – |
| `PrivateAsk` | `dp.py`, `delegate.py` and `frontier_private.py` as `frontier-chat` and the app run them | `PrepaidAccount` |
| `AppKeys` | the key side of `app.py`, step by step | – |
| `AgentGate` | the agent side of `app.py`, step by step | – |
| `HeartwoodRuns` | the effort checks of `app.py` and their event streams | – |
| `FrontierGateway` | `frontier_gateway.py`, `anon_token.py`, `token issue` | – |
| `ObliviousHttp` | `oblivious.py`, `hpke.py`, `frontier_relay.py` | – |
| `MemoryGate` | `memory_gate.py`, `delegate.py` | – |
| `Witness` | `witness.py`, the command `gossip` | – |
| `MerkleLog` | `merkle.py`, recursive definitions against `CachedLog` | – |
| `Verdicts` | what is made of evidence (a host's document, a proof, a question's answer, the app's reply, the answers of audited nodes, a provider's answer in placeholders): a behaviour tries one algorithm on one input | – |
| `Attestation`, `Recovery`, `SigmaProofs`, `EntityVault`, `Receipt`, `McpBridge`, `NodeAudit` | the algorithms of `attest.py` and `sev_snp.py`, `recovery.py`, `zk.py` and `zk_keep.py`, `vault_proxy.py`, the receipts of `frontier_private.py` and `cloud_gate.py`, `mcp_server.py` with the app behind it, `discover.py` and `audit.py`, as operators over one input | – |

`X_proof` extends `X` with its theorems; `MCX` gives it functions as constants or
symmetry sets. Five proof modules hold more than one part: `Gateway_proof` (extends
`MCGateway`: tokens and relay), `OblivioClient_proof` (extends `MCAccusations`: client
and gossip), `Local_proof` (`Dispatch`, `HeartwoodRuns`, `AgentGate`: what runs on
the user's machine), `Client_proof` (`Replication` and `Verdicts`: what one's own side
makes of what others hand over) and `MemoryStore_proof` (`MemoryStore` and the
`MerkleLog` behind it). Four MC modules hold several parts, of which a behaviour shows one
while the others stand still: `MCVerdicts` (`MerkleLog`, and `Verdicts` with `Recovery`
beside it, each tried on every input of a small set), `MCAccusations` (`OblivioClient`
with an honest node, and `Witness`), `MCGateway` (`FrontierGateway` and `ObliviousHttp`),
`MCAgentGate` (what is released while policy and tier change, who is let in, and reads
and lists of two records).

The components meet at their promises and not by sharing state: `OblivioClient`'s
honest node is one append-only log, which `MemoryStore` implements; `Replication`'s
nodes find the first content under an identifier, which is `LookupIsFirst` of
`MemoryStore`; `MemoryGate`'s and `AgentGate`'s keep only grows and hands back the
class that was sealed, which are promises of both; `ObliviousHttp` lets a restart
forget any of the spent tokens, and `FrontierGateway` says which; `NodeAudit` takes
the outcomes of `client.get_by_id` from `OblivioClient`, honest nodes that fail a
check included.

### MemoryStore

Disk is `recordFiles`, `log` with `tornTail`, and `headFile`; memory is `rows` (for
`_meta` and the tree's leaves) and `byId`. `put_ciphertext` is `BeginPut`,
`WriteRecord`, `AppendLog`, `PublishHead`, one per file write, with what the code
changes in memory in the step where it does; `Start` is `_load`, with its refusal of
a partial line and its republication of a missing head. Faults are actions:
`RecordFails`, `AppendFails`, `PublishFails` (the write raises, the process lives),
`Crash` (also in the middle of the write under way) and `PowerLoss` (rows vanish
from the end of the log). A head is the sequence of leaves
it commits to. `RLock` keeps reads out of a put, so a read is what the node would
answer in an idle state (`Get`), and `ClientAccepts` is the client's test of it.

### OblivioClient

`pc` says what a client object waits for: an answer, the consistency proof, the
write of the pin file. `Step(c)` gathers opening, closing, asking, answering,
checking, failing and pinning. With `HonestNode` the node is one log (`tree`) that
other clients extend between any two requests, and `headTree` is what its `head.json`
commits to: a put that stores its row and fails before its head is written
(`PutFails`, `store.py:161-162`) leaves it behind until the next put, and answers to
reads then hold the old head with a path of the new tree, as `store.get` does.
Without `HonestNode` an answer is any combination of
head, index, leaf and path, signed with any key. An audit path is the tree it was
cut from and verifies against a head exactly when that tree is the head's; what
`merkle.py` does to make that true is `MerkleLog`. `accepted` and `receipts` are
history, per pin file.

### Replication

`BeginPut`/`BeginGet` send to every node at once; `ServePut`, `ServeGet`,
`ServeHostile` and `Lose` settle one node's answer each; `FinishPut`/`FinishGet`
count. `Lose` covers a node that is down, and, for a put, the node that stored the
record and whose receipt was lost or refused. Pins per node are `OblivioClient`'s.

### Dispatch

`Submit` and `RefuseLinked` are `submit` (a token is spent before linkage is looked
at; phrases are remembered after), `Tick` has one disjunct per path through `tick`
(a question, cover, a question too long for every bucket; in an unknown mode and
before the slot is due it changes nothing),
`Answer` is the end of `send()`, and `Pass` is time. `wait` is the time left to
`_next_at`; lateness beyond `MaxLate` is not told apart. One caller ticks while any
number submit.

### AppKeys

A request is a thread in `req`; every access to `SESSION_KEY` or to a file is a step
of its own (`Take`, `Load`, `Mint`, `Gate`, `Put`, `Open`, `Seal`, `Truncate`,
`Store`, `Unlink`, `Zip`, `Download`, `Wipe`...), because nothing in the app locks
them, and `Restart` ends the process anywhere. Ghosts record which keys records
were written under and relied on, which zips the user holds, and two mishaps:
"swap" (requests overlapped so that a key was minted, dropped or wiped under another
request) and "tear" (between the opening of the sealed file and the end of its
overwriting the process died, or the write failed, `SealFails`, and the app answered
an error and went on). A property
that only holds without one says so in its premise, so the model shows exactly which
overlaps can part a key from its records.

### MerkleLog

Hashes are terms. `Roots`, `InclusionProof` and `ConsistencyProof` are the RFC 6962
recursions, written as functions of the size of a part of the tree that give a
function of its place, so that they can be reasoned about. `Repaired` is
`CachedLog.append` with its repair of the last node of each level, `CachedProof` cuts
an audit path from the levels, and `VerifyInclusion` and `VerifyConsistency` are the
verifiers' loops, which see two positions and no tree.

### FrontierGateway

The gateway process, its request threads and the command `token issue` share `pem`
and `book`. `LoadIssuer`, `Mint`, `BeginSave`, `WritePem`, `WriteBook` (a file is
`Torn` between its opening and its write), `SaveFails`, the end of either process
and its kill are actions, as are `Arrive` and `Serve`, the steps of a request:
redemption, provider call, answer or refusal. What a client shows is a spelling of a
token (`Decoded` says of which): the signature is checked of the bytes it spells, the
list of spent tokens is one of spellings, as in `anon_token.py`. Three mishaps are named as ghosts: a kill before the save,
a redemption after the last save, and a list written back by `token issue` that is
older than the gateway's. `lost` collects the spellings they hit.

### MemoryGate

A process opens the gate (`Open` loads the index), asks (`Ask` runs the prover,
which may grant less than the backend claims, and releases), and sends: with the
context (`SendWithContext`), as typed (`SendDirect`), or through attempts of the
local model (`TakeSlowPath`, `Abstract`). `Reply` ends the exchange or stores both
turns; a stored turn is `Put`, then `SaveIndex`; each of them may fail, and `Close`
is the end of the process anywhere. A text is the set of identifying facts in it. A
local model writes anything; a reply repeats what the model was shown. `overlapped`
notes that an index was written over one its process never read.

### PrivateAsk

Every `frontier-chat --ledger F` is a session that loads the file once and writes it
back through `F.tmp`; the app's requests have no ledger. `AttemptLeaks`,
`AttemptClears` and `Choose` are `delegate` and `dp_delegate` (a pool of cleared
candidates of which one is drawn); `Charge`, `Write` and `Replace` are
`PrivacyLedger.charge` with the opening, the flush and the move of the temporary
file, where a descriptor follows its file when another session moves it (`handle`).
Epsilons are integers of which `Grain` make one unit of the sixth decimal, to which
the file rounds. `raced` is set when two sessions were in the ledger at once.

### AgentGate and HeartwoodRuns

A request is a thread whose reads and writes of `AGENT`, `POLICY`, `AGENT_READS` and
the two files are steps of their own, since none has a lock: `Ask`, `Admit`,
`Forbid` are `_auth`; `FillDefaults`, `FillFromFile`, `CopyPolicy` are `load_policy`;
`Judge`, `Record`, `Cut`, `Send` a read, where the row is
appended in one step and the ledger cut in another, each of the list as it then is; `ReadCatalogue`, `SendList` a list; `Put`,
`LoadCatalogue`, `SaveCatalogue` a write; `Switch`, `Mint`, `StoreToken` the switch;
`EditPolicy`, `GrantTier`, `SavePolicy` a change. The ghosts `low` and `high` keep,
per request, the least that was required and the most that was granted while it ran:
what a request without locks can be held to; `entered` numbers the rows and `given`
keeps those of the texts that were handed over. `HeartwoodRuns` has the clone of the
tree, the single-run lock, the queue of events and the connections that read it.

### ObliviousHttp

The relay holds two sets of sealed texts and delivers any of them, as often as it
likes, with parts exchanged. A context is the recipient's key pair, the encapsulated
key and the header, and opens what was sealed under an equal one. `Restart` gives
the gateway a new key pair and lets it forget any spent tokens.

### Witness

Commands load a log file, take in the head the node answers and what another client
exported or anybody made up (`Observe`, `Reject`, `Accuse`), and write the log back
in two steps. A head has its key and its root as texts: `Message` is what its
signature is of, the node, the size and the bytes the root decodes to, and `Forgeries`
has, beside heads that nobody signed, every head that verifies for a message somebody
signed, however it is spelt. `crossed` and `torn` name the two mishaps: two commands at one file,
and one killed while writing it.

### The algorithms

`Attestation` runs the five checks over a document whose envelope and signed words
are chosen apart. `Recovery` builds the code's tables over GF(8). `SigmaProofs`
writes a group element as its two exponents, since nobody knows how the bases are
related, and takes the challenge as an input. `EntityVault` works on sequences of
words, of which a placeholder is its kind, its number and its form: the exact one that
the vault writes, or a loose one (bare, in other brackets, in another case), which
`Restore` expands as well and `ForeignPlaceholder` does not look for; where the code sorts the spans by their beginning, it goes through the places of
the text in order, which leaves no choice but among spans that are equal in both. `Receipt` follows a question from the caller's flags to the claims on the
receipt. `McpBridge` follows a call from the tool to the app's answer and back to
the words the model reads; a write may fail before the node has the record, or after
it, where the app answers 500 of something stored. `NodeAudit` goes from a list of entries and a world of
nodes to the ranking and the exit code; between nodes of one standing and one score,
which the code orders by latency, it ranks in some order.


## 3. Runs, bounds, and why they are enough

Twelve runs, all of which hold; states are distinct states.

| Run (module) | Bounds | What it shows |
|---|---|---|
| `StoreFaults` (`MCMemoryStore`) | 2 identifiers, 2 ciphertexts, 2 rows, all six faults | `NoEquivocation`, `AckedStay`: one history behind every head, acknowledged rows stay; `ReadersAreServed`: short of the named faults, what was acknowledged first under an identifier is served so that a client accepts it; `ImplementsKeep` (0.23 M) |
| `ClientHostile` (`MCOblivioClient`) | 1 client, a lying node with 2 keys, trees of 2 over 2 leaves | `ReceiptsHold`, `PinNeverGoesBack`, whatever the node says (0.57 M) |
| `Replica` (`MCReplication`) | 4 nodes, 1 hostile, quorum 3, 2 clients, 1 identifier, 2 contents | `AckedIsHeld`: a returned put is held widely enough; reads implement `WriteOnce` (0.37 M) |
| `DispatchSlots` (`MCDispatch`) | 4 questions, 2 tokens, interval 2, gaps to 2, lateness 1, 3 accepted | order, unlinkability, the metronome, every question ends (0.37 M) |
| `AppKeys` (`MCAppKeys`) | 2 threads, 2 keys and a legacy one, 2 passphrases | which keys survive, that memory and disk name one key, that lock and seal hold (3.2 M) |
| `GatewayTokens` (`MCGateway`) | gateway: 2 callers, 2 tokens, one of them shown in 2 spellings, 2 keys; relay: 2 questions that share a token, 2 restarts | `OneCallPerSpelling`, `EveryCallEnds`; `RelayIsHarmless`: a relay gets no question answered twice, no reply into another's hands, no answer to what nobody asked (0.94 M) |
| `MemoryGate` (`MemoryGate`) | 2 processes, one chatting, 1 fact, 2 attempts, an index of 1, 2 memories | only the cleared cross, delegates are blind, what was remembered is listed (0.85 M) |
| `PrivateAsk` (`MCPrivateAsk`) | 2 sessions, a personal and a secret memory, 3 abstractions, epsilons 0 to 3 with a grain of 3, budget 5, pools of 2, 1 attempt each, 1 paid question | `NothingKnownLeaves`; the ledger implements `PrepaidAccount`; `LedgerCovers`: the file never says less than was sent (0.81 M) |
| `AgentGate` (`MCAgentGate`) | 2 threads, 2 classes, tiers to 2. Releasing: 1 record, 1 read; switching and writing: 3 tokens; reading: 2 records, 2 reads, a ledger of 1 row | `OnlyClearedCross`, `RevokedTokenIsDead`, `ReadsAreRecorded` (2.3 M) |
| `EffortChecks` (`HeartwoodRuns`) | 2 checks, 2 streams, 2 installers, 1 note | `StreamToldAll`, `EveryCheckEnds` (0.09 M) |
| `Accusations` (`MCAccusations`) | 2 clients of an honest log of 3; 2 gossip commands at once, 3 in all, 2 files, 2 nodes of which 1 honest, 2 roots of one size, one of them in 2 spellings | `OnlyAnOldHeadAccuses`: an honest node fails a check only when its log is ahead of the head it sent; `NoSlander`, `HeardIsKept` (1.8 M) |
| `Verdicts` (`MCVerdicts`) | logs to 8, a second log to 4, forged proofs to 4 nodes; GF(8); a group of order 7 with 4 challenges; vault texts of 4 words; every combination of receipt flags; node lists of 2 | eight properties, one per algorithm: what is accepted earned it, what is put back is what was put in, what is said is true (0.21 M) |

Why these sizes. Most properties relate at most two of the things bounded (two heads,
two readers, two questions, two processes), so two of each make every pair; a third
client, row or key would add interleavings of the same pairs. Where that is not the
measure:

- The store's two rows with two identifiers and ciphertexts give the duplicate
  identifier, the duplicate ciphertext, and a torn or lost row before and after a
  good one.
- The honest log of `Accusations` has 3 leaves, so that it grows again between an
  answer and its proof, by a put that fails half way or by one that does not. One size is enough for gossip, as heads of two sizes are
  never compared, and a second spelling of a key would be to a log what another
  node's key is; three commands let a third read what two that overlapped left.
- `Replica` is the smallest system in which a hostile node exists and quorums still
  meet in an honest one.
- `DispatchSlots` has a pair that shares a phrase, a question in a larger bucket and
  one too long for all.
- `MemoryGate` has an index of one, so that the limit bites with the second memory;
  one fact is enough because clearing is per memory.
- `PrivateAsk` has a grain of three, so that an epsilon of one is rounded away and one
  of two is rounded up, and a budget of five, which a charge of three leaves room for
  a smaller one only.
- `AgentGate`, releasing, has a record that is not in the catalogue yet and a read of
  it, enough for a request to be overtaken by the change of every global the gate looks
  at; switching, three tokens let two switches that overlap replace each other's;
  reading, two writes can lose an entry of the catalogue, and two reads fill a ledger of
  one row, so that the cut must keep the right one.
- `GatewayTokens` has one token that is shown in two spellings, each of which may be
  redeemed, forgotten and shown again; the other token is only issued, so that `token
  issue` runs beside the gateway.
- Vault texts have placeholders of the vault and of nobody, exact and loose, beside
  three words and a capital.
- Logs reach 8 because the repair of `CachedLog` and the verifiers treat powers of
  two, odd sizes and levels that end in a promoted node differently, and all of those
  occur below 8. GF(8) is the smallest field in which all the tables of the code are
  built as in the large one and polynomials of degree one and two have values to spare.

Proofs (section 5) remove these bounds for every property but the three of liveness
and one of the eight of `Verdicts`.

**Deadlock** is checked except where the system may stop for good: the store (a torn
`log.jsonl` keeps the node down, and `MaxRecords` is reached), `GatewayTokens` (an
emptied issuer key file starts no gateway), `Accusations` (the commands are counted,
and a client that accused does not go on) and `Verdicts` (each input is tried once).

**Symmetry** is used for identifiers, ciphertexts, threads, sessions, keys,
passphrases, commands and nodes, only in runs without liveness properties.

## 4. Fairness

Safety, action properties and refinements need none. Three properties are liveness:

- `EveryQuestionEnds` (`Dispatch`): time passes, the owner keeps calling `tick()`
  when a slot is due (nothing leaves otherwise; the class has no thread of its own),
  and `send()` ends, as the HTTP calls of this program do, each with a timeout. Nobody
  need ever submit. In an unknown mode `tick()` raises before the slot is used, so the
  property excludes it, and a question too long for every bucket never gets a result.
- `EveryCallEnds` (`FrontierGateway`): a request thread runs (`ThreadingHTTPServer`)
  and the provider call (`cloud_complete`) times out after 120 seconds. No fairness
  for the processes: a gateway may be killed, and then its calls are gone too.
- `EveryCheckEnds` (`HeartwoodRuns`): a run's thread goes on, as every call to the
  model has a timeout, and so does each connection that reads its queue. Installing
  and starting are the user's, a browser may leave, the app may be restarted: none of
  that is fair.

`MemoryGate`, `PrivateAsk`, `AgentGate` and `AppKeys` wait on models and people;
nothing forces those, so their specifications state no fairness.

## 5. Proofs

Every theorem is `Spec => ...` for all constants that satisfy the module's `ASSUME`s.
Those say that distinguished values are distinct, bounds are naturals, sets of nodes
finite, and of `Verdicts` that what is tried is of the type of its part and that the
group is of prime order with no more challenges than elements, as `zk.py` chooses
`Q` and `CHALLENGE_BITS`; that a word is one thing (a placeholder is a pair), that it
is a word in lower case too, and that no pattern finds an empty text. Where a promise needs more, the theorem says so by name:

- `OneClientPerFile` (`OblivioClient_proof`): no two client objects share a pin file.
- `QuorumsMeet` (`Client_proof`): two quorums share an honest node. The default
  majority does not imply it with one hostile node of three.
- `RowsAreKept` (`MemoryStore_proof`): no lost row, needed for the full refinement
  only; the other store theorems carry the condition inside the property.

| Theorem | By |
|---|---|
| `MemoryStore_proof`: `TypeCorrect`, `HonestNodeNeverEquivocates`, `AcknowledgedRecordsStay`, `StoreImplementsKeep`, `StoreRefinesKeep` | memory is the file, or one row ahead of it between two steps (`MemoryMatchesLog`); every signed head is a moment of the file's history, or, in a process that never died, of memory's (`SignedAreMoments`, `SignedAreInMemory`) |
| `ReadersAlwaysServed` | until an append fails, rows are numbered by their place and the identifier index names the first row of each (`IndexIsRight`); before the first start there is no row and no head, a body is whole before its row is in memory, and the published head is of what is in memory (`Undisturbed`) |
| `OblivioClient_proof`: `TypeCorrect`, `AcceptedHeadsAreOneHistory`, `ReceiptsAlwaysHold`, `PinsOnlyGrow`, `OnlyOldHeadsAccuse` | an open client's pin extends its file's (`PinsExtendFiles`); an answer past the first checks has passed them (`AnswersChecked`); the file's head extends all that were accepted (`FilesExtendAccepted`). With an honest node every pin, and the head of every answer on its way, is one it published, and what it published is a moment of its log (`PinsOfTheLog`, `AnswersOfTheLog`, `HeadIsOfTheLog`), so that every check succeeds but those of a proof from a later tree |
| `NobodyIsSlandered`, `HeardStaysHeard` | of what a log or a command holds with a signature the message was signed (`WasSigned`), and a log has one root for a size (`LogsAreSound`), so two heads that contradict each other are two messages of a lying node or one root in two spellings; a command that nobody crosses is alone at its file, so what was heard there is in its log (`Alone`, `Heeded`) |
| `Client_proof`: `TypeCorrect`, `ReadersAlwaysAgree`, `AckedRecordsAreHeld`, `ReadsImplementWriteOnce` | honest answers say what is held (`AnswersAreHeld`, `HeldWasMade`), what was put or read is held by enough (`PutsAreHeld`, `ReadsAreHeld`); then two quorums are counted |
| `AppKeys_proof`: `TypeCorrect`, `KeptForGood`, `OneKeyAtATime`, `LockedStaysLocked` | while requests do not overlap, all keys in memory, in files and on their way are one (`Agree`), a request that carries a key finds it in force, one that mints finds none (`Anchored`), and who starts over is alone (`WipesAlone`); a key that is relied on can be had from a zip, a file, or the thread that is about to store it (`Kept`) |
| `Gateway_proof`: `TypeCorrect`, `Remembered`, `PaysOnce` | calls exist only in a serving gateway (`Running`); where each redeemed token is listed at each step of three overlapping saves (`Memory`); a spelling that is paid for is in one thread's hands (`Hands`); all of it for any number of spellings of a token |
| `Harmless` | a context is one question's (`OneContextEach`); what was answered in this life of the gateway is spent (`ServedOnce`); the gateway opens only what somebody asked (`AskedIsBarred`) |
| `MemoryGate_proof`: `TypeCorrect`, `ClearedCross`, `DelegateIsBlind` | something is left to store, an abstracting model has an attempt left (`Pending`); from release to reply what was released is cleared for the granted tier and what was sent fits the tier (`Clean`) |
| `RememberedStaysListed` | the index file and every process's list ascend, and saving a list drops nothing that its process knew to be listed (`Follows`): an entry leaves only for a full list of newer ones (`Newer`), which needs that a list of the greatest length with one entry above another is full of later ones, by counting |
| `PrivateAsk_proof`: `TypeCorrect`, `Gate` | whatever a session holds to send, and every candidate of its pool, passed the gate against the context it read; before there is a context the pool is empty (`SessionIsGated`) |
| `Implements`, `Covers` | a session's account is what it loaded, then that and its own charge, within its budget (`Books`); unless two were in the ledger at once, one session saves and the temporary file is its own (`OneSaves`); what left and what is about to, is booked, to half a grain a send (`Covered`). The sums over sessions have no recursion: a tally over subsets of sessions witnesses them (`Totals`) |
| `Local_proof`: `TypeCorrect`, `QueueIsFair`, `QuestionsStayUnlinkable`, `ChannelIsAClock` | the ticket in `send()` fits (`Order`); what `submit` remembers covers every accepted question (`Remembered`) |
| `StreamsAreToldAll` | what a check put on its queue is still there, or the only stream that shows the check took it, in that order; the last of it is the verdict; a stream ends on an empty queue of a check that is done (`NothingMissed`) |
| `AgentTypeCorrect`, `AgentsSeeWhatIsCleared` | where a request is fits what it is about, and one thread at most fills the policy in (`Control`); what the catalogue says of a record, in the file or in a request's hands, is the class that was sealed (`CatalogueIsTrue`); a request that is judged goes by a policy never laxer than the laxest in force since it came (`AllPermitted`) |
| `RevokedStaysDead` | a token that was minted and is still to be stored nobody else has, nobody will revoke, and no switch found in force (`Fresh`); the token in force is never a revoked one (`TokensApart`) |
| `EveryReadIsRecorded` | the rows of the ledger rise (`Rising`), so the cut drops the oldest; each row that was handed over, or is about to be (`Owed`), is there or newer ones fill the ledger (`Accounted`), through appends and cuts of several threads in any order (`Ledger`) |
| `Client_proof`: `OnlyEarnedTrust` | what passed the checks was signed, and every word of the envelope that the chip signs was compared with its report (`PassedIsEarned`); an honest host's document passes (`EarnedAndHonestPasses`) |
| `NothingFalseNothingLost` | an element is its two exponents, so two answers to one first message give, by division in a field of prime order (`Euclid`, `AtMostOne`), a witness that a false statement does not have; membership and range proofs by the share of the challenge that each branch takes; a proof about a keep is bound to the records it was made from |
| `ReceiptsAreHonest`, `AgentsAreToldTheTruth` | case by case from the caller's flags to the claims (a padded call fills the least bucket it fits in), and from the tool to the words, through the one or two requests the bridge makes |
| `NobodyIsMisjudged` | merging keeps one entry for an url, with its first pin (`MergesOneMore`, `IsMerged`), and filtering keeps what is at its places (`OnlyThose`); "may stand before" is total and transitive (`PrecedenceIsTransitive`), so a ranking exists (`AnOrderExists`), and in it each node has one place (`EachHasAPlace`), before all that may not precede it |
| `TextAlwaysComesBack` | no placeholder stands for two values, as the counters are ahead of them, and a vault only learns (`IsVault`, `Extends`); the spans that are kept have no place in common (`ResolvedAreApart`); replaced from the right, what is behind the last one reads back as what was there, and words that no span touches stand somewhere in it (`IsDone`, `ReplaceOne`), so a mention that was passed over is found as a leak (`StandingIsFound`) and the text is not sent; a placeholder reads back alike in every form (`ReadsAlike`, `RespeltIsRead`), and what stood in the text in one is read as the vault reads it |
| `MemoryStore_proof`: `CacheStaysATree` | each level is made of the one below, pair by pair, and its last node is promoted when it is alone (`IsTree`); an append keeps that, as all nodes but the last of a level have both their children below for good (`LevelsMakeATree`) |
| `NothingFalseIsIncluded`, `NothingFalseIsConsistent` | a verifier's walk stays at the position of a node of some level (`ClimbKeepsPlace`, `ClimbBothKeepsPlace`); as equal nodes have equal children, a walk that ends in the root was at the tree's own nodes all the way down, and two trees that end in one root agree on all the leaves below it (`ChildrenAgree`, `EqualTops`) |
| `TheLogIsSound` | each node is the RFC 6962 root over a part of the leaves whose width is one power of two a level, but for the last part (`AllNodesAreRoots`), so the siblings on the way up are the recursive audit path (`WayStays`); an honest walk comes by every level with that level's node, or nodes, in hand (`ComesByAbove`, `BothComeByAbove`) |

Why the strengthenings: one history is not preserved when a client reopens (it needs
that the file is at the end of the history), agreement of reads not when a get counts
answers of nodes that changed since (it needs that honest contents never change),
`OneCallPerSpelling` not across a save (it needs the lists held by both processes),
`OnlyClearedCross` of the gate not from release to send, and that of the agents not
from the copy of the policy to the judgement nor across another's write to the
catalogue, `NothingKnownLeaves` not from the gate to the draw among several
candidates, `RememberedIsListed` not when a process saves a list it read long ago,
`RevokedTokenIsDead` not when two switches hold tokens to be stored, `ReadsAreRecorded`
not from the entry to the hand-over nor when a cut keeps the wrong end of a list that is
not known to rise, `OnlyAnOldHeadAccuses` not from the answer to the next pin, and `ReliedOnIsKept` not while a key is in no file
but in a thread.

Three recurring facts stand where an induction would: that a set of numbers that is
not empty has a least or, with a bound, a greatest (`Least`, `Greatest`), and that a
set of numbers which holds the first and, with each, the next holds all (`Upwards`),
from the library's theorem that `<` is well founded on the naturals; and that a cut list
keeps its end (`LastOfTypes`, `SavedAt`). A recursive function or a fold is used through
its step: the lemmas `...Exists` and `...Steps` show, by `Upwards` over the set of sizes
for which there is one, that a function with the recursion's equation exists, so that
`CHOOSE` gives it. That is how the proofs on the tree speak of `Roots`, of the audit
paths and of `FoldLeft` over proofs of any length, and those on the vault of its loops.

Model-checked only:

- `KeyComesBackWhole`: the tables of `Recovery` are built with bitwise operators, which
  no prover here reads, and what it says of them is algebra in a field of 256 elements.
- The three liveness properties: fairness and `ENABLED` are outside the prover.

## 6. Where the code and its documentation part

The properties are checked of the models, under the abstractions of section 7; where
one needs a premise, the premise names a mishap, and where the code keeps less than its
documentation says, the property says what it keeps. These are the places where the
premise, or the property, departs from what a line of the repository says or a reader
would expect.

**Premises of the properties, and what they fall short of**

- *Stale head.* `store.py:161-162` appends the row before it writes `head.json`, and a
  restart republishes only a missing head: after a crash between the two the node
  serves proofs its own head does not commit to, which `audit.py:12-14` calls
  misbehaviour.
- *A failed append stays.* A put that fails in `log.jsonl` stays in memory: later
  heads commit to it and, after a restart, later rows answer to an index one too low.
- *Shared pin file.* `client.py:138` overwrites the pin file without reading it
  again; clients of one file, as the app's handler threads are (`app.py:2293`), can
  pin contradicting heads.
- *The honest node accused.* The client raises a security error against a node that did
  nothing wrong when another put is served between an answer and the request for its
  consistency proof (`client.py:126-134`), and, with no race at all, when it reads while
  the node's head is stale: `store.py:180-181` sends a path of the tree with the head of
  `head.json`. The audit then ranks that node as one that failed a security check.
  `OnlyAnOldHeadAccuses` says there is no third way in the model, for a node that loses
  no row: a row lost from `log.jsonl` makes a tree go backwards or fork, and that too is
  put as an accusation.
- *Spellings of a token.* `anon_token.py:163-165` lists the text that was shown, while
  118 and 170 check the signature of the bytes it decodes to, and `bytes.fromhex` takes
  upper case and white space: each further spelling of one token buys a call of its own,
  against 126-131. `OneCallPerSpelling` says it buys no more.
- *Spellings of a root.* `witness.py:102-105` and 133-134 compare texts, 73-78 verify
  decoded bytes, and `from_dict` (55-59) only lower-cases: one head of an honest node and
  a copy of it with a blank in its root are an accusation that holds, against 69-71.
  `NoSlander` says that this is all an honest node can be accused of; who reads the
  accusation can tell by decoding the two roots.
- *Loose placeholders.* `vault_proxy.py:262` refuses a text that holds an exact
  `<KIND_n_tag>` of nobody's, while `restore` (241-243) also expands bare, bracketed and
  lower-case forms: a text that held such a form of a placeholder the vault knows comes
  back with the value in its place, against 133-136 and 195-198. `TextComesBack` says
  that everything else comes back as it was, and that also in the form a model answers.
- *Stored and refused.* Where the app fails after the node has stored a record
  (`client.py:126-138` raises after the store; so may `add_to_catalogue`, `app.py:947`,
  138-141), it answers 500 and the MCP server tells the model the write was refused.
  `WordsAreTrue` holds with that exception: a retry stores the text twice.
- *A torn sealed file.* `app.py:378` empties the sealed key before it writes it. A crash
  there, or a write that fails and is answered with an error (caught at 1071-1074, 882
  and 1375) while the app lives on, leaves a file nothing opens: `tear`, the premise of
  `ReliedOnIsKept`. And a request that found nothing sealed and is about to load the
  plaintext file may load it after a lock, which is then undone: the exception in
  `LockHolds`.
- *Laundering.* `memory_gate.py:476` stores an exchange under the class its caller
  named, whatever the reply repeats, against `memory_gate.py:96-97`: a secret shown to
  a local model is personal from then on. `OnlyClearedCross` is about the class a
  memory was stored under.
- *The ledger.* `frontier_private.py:287-288` says the budget is charged before every
  send; the direct path and `dp_epsilon=0` charge nothing, and two sessions on one
  file overspend it or lose a charge (`raced`).
- *Overlapping requests of the app* can part a key from its records (`swap` in
  `AppKeys`), judge a request by a policy that was changed meanwhile, and lose an entry of
  the catalogue (`AgentGate`); two gate processes on one index lose a memory
  (`overlapped`); two gossip commands on one log file lose what one of them heard
  (`crossed`).

**Seen while modelling, and in the models**

- Store and client: a second put of a ciphertext truncates its file (`store.py:146`),
  so a crash there destroys an acknowledged body. `client.list()` gets at most 1000
  records (`node.py:26`), so audit and private retrieval never see the rest.
- Replicas: `healthy()` counts the nodes that answer, not those that hold a record
  (`replica.py:254-255`): it can be true while a get finds no quorum.
- Dispatch: a question over 512 bytes leaves in a larger bucket than cover, and one
  over every bucket wastes a silent slot (`dispatch.py:314`); lines 35-38 say cover is
  padded to the same bucket and no slot is skipped. `ImplementsClock` therefore has
  the premise `AsShortAsCover`.
- Gate: `--recall 0` recalls the whole index (`memory_gate.py:378`); `gate-chat` never
  applies `max_specificity` (`cli.py:862`; the help at `cli.py:1485` promises a
  refusal); the fast path looks for overlap with released memories only
  (`memory_gate.py:442`); a backend demoted below delegation still gets the message
  as typed.
- Private path: `account_decoupled` on the receipt is the caller's own flag; with
  `with_keep` the app passes secret records as context (`app.py:1197-1207`) while the
  command line skips them.
- Agents: `dismiss` reads, changes and writes `pending.json` without a lock
  (`app.py` 994-1020). After a time-out during a save the MCP server says the app was
  not reachable, and a retry stores the text twice; a refused Host is put as a dead
  token; `::1` is never an accepted Host (`app.py:625-626`); a JSON line that is no
  object ends the server (`mcp_server.py:429-435`).
- Audit and discovery: a node that is not reachable when record identifiers are named,
  or has no records, is trustworthy with a score of 0; two spellings of one host are
  two peers; `discover.py:21-23` says a listed key is handed to the client, while
  `cli.py:452` passes the addresses only.
- Attestation: the result is not bound to the address that was asked; for SEV-SNP the
  root, the signing key (`attest.py:272`) and the date (`attest.py:301`) are unsigned
  claims of the envelope; `verify_chain` checks the parents' signatures with ECDSA
  (`sev_snp.py` 155-165), which no RSA chain passes: an error towards refusal.
- Recovery: `combine_shares` does not know the threshold, so too few shares give a
  wrong key without a word (`recovery.py:259`); checksums are per share.
- Vault: `vault_proxy.py:341` says the longest span is kept, while the sort keeps the
  one that starts first; a value learnt from `system` may remain in another case in
  `prompt`. Two effects below the level of words, which the model does not have:
  restoring a bare form takes the blank before it along ("Hello PERSON_0_x said" comes
  back as "HelloMarta said"), and a find that ends inside a word (the patterns without a
  closing `\b`) leaves a ">" behind ("+49 123 4567890x").
- App: `app.py:1301` says "one of the size records" of a proof whose list of leaves is
  never compared with the head's size.
- Oblivious HTTP: `KeyConfig.parse` takes any kdf and aead (`oblivious.py` 120-121);
  a restart makes a new key pair under the same identifier; errors before the opening
  come back unsealed.

## 7. Abstractions

Cryptography is ideal: hashes are terms, a ciphertext opens under its key only,
signatures and blind signatures verify under their signer's key only, HPKE opens
under equal contexts only. Left out on purpose, with what that hides:

- Store: framing of plaintexts; a power loss is one prefix of the log (not any subset
  of pages); a torn line is never by chance complete JSON.
- Client: a torn pin file; the root a size-0 head claims; the spelling of a root, which
  `_update_pin` compares as text and so refuses sooner; a node that loses a row
  (`MemoryStore` has it); encryption and key file.
- Dispatch: two callers of `tick()` at once (the class states no such use).
- AppKeys: key derivation, the `None` key between check and return of
  `ensure_session_key`, failures of wiping.
- Gateway: the `issued` counter, and the fact that
  key and list are loaded in two reads (loading is one step).
- Gate and private path: which expressions count as identifying, `strict`, the
  reports. An abstraction by the local model may contain anything; a reply only facts
  it was shown, since what it makes up is no fact about anybody. The exponential
  mechanism draws any cleared candidate: its weights are probabilities.
- Agents: what a record's preview says, and the pages the app serves.
- Heartwood: what a check computes; a run is its notes and its end.
- Witness: which texts decode to which bytes (any map may be given), and the times and
  spellings of signatures, which nothing compares; keys pinned out of band.
- Proofs over a group: the challenge is an input, so what a verifier accepts for two
  challenges is checked against knowledge of a witness; the hash that makes the
  challenge is not.
- Attestation and SEV-SNP: DER, X.509 and the layout of a report; a certificate is its
  issuer, its subject's key and its fields.
- Discovery: a URL is its form and its host; a host resolves to one address; latency.
- Vault: words and a table of names instead of regular expressions; two kinds; all
  loose forms of a placeholder are one; white space.

## 8. Not modelled, and the plan

**Not modelled**, and why:

- Record encryption, HPKE, the group and field arithmetic (`crypto.py`, `hpke.py`,
  the arithmetic of `zk.py`): ideal in every module; algebra is not what TLC decides.
- Halo2 circuits and the Poseidon tree (`circuits/`, `poseidon*.py`, `zk_tree.py`): constraint systems are out of reach.
- Private retrieval (`private_read.py`): fetches every listed record in the order of
  the list, one loop without a branch on the index that is wanted.
- Ollama memory: the put, append and save of `MemoryGate.remember`, without classes.
- Request shapes of hosted models: two layouts of one request.
- Status, walkthrough, demonstrations and repository tools: they report or run the
  other components.

*Partly* modelled: the node's HTTP server, whose handlers are the store's operations
behind parsing, and the command line, of which the commands that change a file are
in the modules of that file and the others call one component and print.

**Plan.** What is left of the proofs is the list at the end of section 5. The shares need
tables that are written without bitwise operators, and lemmas on polynomials over the
field they make.
