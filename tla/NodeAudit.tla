------------------------------ MODULE NodeAudit ------------------------------
(* Finding nodes and judging them: discover.py, the command "audit" of cli.py *)
(* and audit.py.                                                              *)
(*                                                                            *)
(* An entry of a list is a host and perhaps a pinned key; the slash at the    *)
(* end of an url and blanks around it make no difference, another spelling of *)
(* the host is another host. A world says of every host what its name is and  *)
(* resolves to, what it answers on /health and on /v1/head, and what a request *)
(* for each of the records it lists meets.                                    *)
EXTENDS Naturals, FiniteSets, Sequences, Functions

CONSTANTS MaxPeers   \* entries that are read of a list

NoPin == "no pin"
Error == <<[error |-> TRUE]>>

-----------------------------------------------------------------------------
\* What is read by the host alone, and never to be asked for.
Private == {"metadata", "link-local"}

(* normalise_url: the scheme, that there are a host and no credentials, the   *)
(* name, and every address it resolves to at this moment.                     *)
Refused(world, e) ==
  \/ e.form # "url"
  \/ world[e.host].name \in Private
  \/ world[e.host].resolves \cap Private # {}

Read(entries) == SubSeq(entries, 1, IF Len(entries) < MaxPeers THEN Len(entries) ELSE MaxPeers)
Peers(entries) == [i \in DOMAIN entries |-> [url |-> entries[i].host, pin |-> entries[i].pin]]

(* No file, or none that is a list, is an error, and so is one bad entry.     *)
LoadPeers(world, file) ==
  IF file = Error \/ \E i \in DOMAIN Read(file) : Refused(world, Read(file)[i])
    THEN Error
    ELSE Peers(Read(file))

(* What a list has at some places, in its order.                              *)
Only(list, places) ==
  LET kept[i \in 0 .. Len(list)] ==
        IF i = 0 THEN <<>>
        ELSE IF i \in places THEN Append(kept[i - 1], list[i]) ELSE kept[i - 1]
  IN kept[Len(list)]

(* Of a bootstrap's answer the bad entries are left out.                      *)
FetchBootstrap(world, answer) ==
  LET listed == Read(answer)
  IN IF answer = Error THEN Error
     ELSE Peers(Only(listed, {i \in DOMAIN listed : ~Refused(world, listed[i])}))

(* One entry for a url; a later one gives its pin to one that has none.       *)
Merged(seen, p) ==
  IF \E i \in DOMAIN seen : seen[i].url = p.url
    THEN [i \in DOMAIN seen |-> IF seen[i].url = p.url /\ seen[i].pin = NoPin THEN p ELSE seen[i]]
    ELSE Append(seen, p)

Unique(list) ==
  LET seen[i \in 0 .. Len(list)] == IF i = 0 THEN <<>> ELSE Merged(seen[i - 1], list[i])
  IN seen[Len(list)]

(* probe_peer: a redirect is not followed.                                    *)
Live(world, p) == world[p.url].health = "ok"

(* discover: a list is given, or there is none (<<>>).                        *)
Discover(world, file, bootstrap, requireLive) ==
  LET local == LoadPeers(world, file)
      told == FetchBootstrap(world, bootstrap)
      unique == Unique(local \o told)
      found == IF requireLive THEN Only(unique, {i \in DOMAIN unique : Live(world, unique[i])})
               ELSE unique
  IN IF local = Error \/ told = Error \/ found = <<>> THEN Error ELSE found

-----------------------------------------------------------------------------
(* What client.get_by_id makes of what a request meets: the record of another *)
(* user does not decrypt, which is no failure of a check; another's body is,  *)
(* and so is a consistency proof cut after a put that came between.           *)
GetById(met) ==
  CASE met = "mine" -> "ok"
    [] met \in {"another's", "missing", "no answer"} -> "failed"
    [] met \in {"swapped", "put between"} -> "insecure"

\* The records asked for: all that are listed, or so many at random.
Chosen(node, sample) ==
  IF Len(node.records) > sample THEN {c \in SUBSET DOMAIN node.records : Cardinality(c) = sample}
  ELSE {DOMAIN node.records}

NoResult(url) ==
  [url |-> url, challenges |-> 0, passed |-> 0, security |-> 0, offline |-> FALSE]

(* audit_node, and audit_peers, for which what else is raised is offline.     *)
AuditNode(world, url, chosen) ==
  LET node == world[url]
      Of(outcome) == Cardinality({c \in chosen : GetById(node.records[c]) = outcome})
  IN CASE node.head = "insecure" -> [NoResult(url) EXCEPT !.security = 1]
       [] node.head = "no answer" -> [NoResult(url) EXCEPT !.offline = TRUE]
       [] OTHER -> [NoResult(url) EXCEPT !.challenges = Cardinality(chosen),
                      !.passed = Of("ok"), !.security = Of("insecure")]

Trustworthy(r) == r.security = 0 /\ ~r.offline

ScoreAbove(r, s) ==
  LET Asked(x) == IF x.challenges = 0 THEN 1 ELSE x.challenges
  IN r.passed * Asked(s) > s.passed * Asked(r)

\* Mutant: best score first, and honesty only between equals.
RankedBeforeByScore(r, s) ==
  \/ ScoreAbove(r, s)
  \/ ~ScoreAbove(s, r) /\ Trustworthy(r) /\ ~Trustworthy(s)

(* rank: honest before fast; the time it took decides between equals, in any  *)
(* way as far as is known here.                                               *)
RankedBefore(r, s) ==
  \/ Trustworthy(r) /\ ~Trustworthy(s)
  \/ Trustworthy(r) = Trustworthy(s) /\ ScoreAbove(r, s)

InOrder(results, order) ==
  \A i, j \in DOMAIN results :
    i < j => ~RankedBefore(results[order[j]], results[order[i]])

Rank(results) ==
  LET order == CHOOSE f \in Bijection(DOMAIN results, DOMAIN results) : InOrder(results, f)
  IN [i \in DOMAIN results |-> results[order[i]]]

(* cmd_audit: what is printed, and how it ends.                               *)
Audit(world, peers, chosen) ==
  LET results == Rank([i \in DOMAIN peers |-> AuditNode(world, peers[i].url, chosen[i])])
  IN [results |-> results,
      code |-> IF \E i \in DOMAIN results : results[i].security > 0 THEN 1 ELSE 0]

-----------------------------------------------------------------------------
\* The node was caught, or taken for one that was: a put came between.
Caught(world, url, chosen) ==
  \/ world[url].head = "insecure"
  \/ /\ world[url].head = "ok"
     /\ \E c \in chosen : world[url].records[c] \in {"swapped", "put between"}

\* Whatever a bootstrap names, a key pinned in the file stays the key of its
\* url, no address is asked that only the host itself may ask, no node comes
\* twice, and one that the file names is left out only for not answering.
PinsSurvive(world, file, bootstrap) ==
  LET peers == Discover(world, file, bootstrap, TRUE)
  IN peers # Error =>
       /\ \A i, j \in DOMAIN peers : i # j => peers[i].url # peers[j].url
       /\ \A i \in DOMAIN peers : world[peers[i].url].resolves \cap Private = {}
       /\ \A i \in 1..Len(Read(file)) :
            LET first == \A j \in 1..i - 1 : file[j].host # file[i].host \/ file[j].pin = NoPin
            IN /\ Live(world, [url |-> file[i].host]) <=>
                    \E k \in DOMAIN peers : peers[k].url = file[i].host
               /\ \A k \in DOMAIN peers :
                    peers[k].url = file[i].host /\ file[i].pin # NoPin /\ first
                      => peers[k].pin = file[i].pin

\* A node is called insecure for an answer it was asked for and no other reason,
\* one such answer puts it behind every node that answered and was not caught,
\* however many right ones it gave, and the command fails for it; among the
\* others the one that served the greater share stands first.
BlameIsEarned(world, file, sample) ==
  LET peers == Discover(world, file, <<>>, TRUE)
      nodes == DOMAIN peers
      May(i) == Chosen(world[peers[i].url], sample)
      picks == {c \in [nodes -> UNION {May(i) : i \in nodes}] : \A i \in nodes : c[i] \in May(i)}
      Index(out, i) == CHOOSE k \in DOMAIN out.results : out.results[k].url = peers[i].url
      CaughtAt(c, i) == Caught(world, peers[i].url, c[i])
      Share(c, i) == Cardinality({n \in c[i] : world[peers[i].url].records[n] = "mine"})
  IN peers # Error => \A c \in picks :
       LET out == Audit(world, peers, c)
       IN /\ Len(out.results) = Len(peers)
          /\ out.code = 1 <=> \E i \in nodes : CaughtAt(c, i)
          /\ \A i, j \in nodes :
               /\ world[peers[i].url].head = "ok" /\ ~CaughtAt(c, i) =>
                    /\ Trustworthy(out.results[Index(out, i)])
                    /\ CaughtAt(c, j) => Index(out, i) < Index(out, j)
                    /\ /\ world[peers[j].url].head = "ok" /\ ~CaughtAt(c, j)
                       /\ Share(c, i) * Cardinality(c[j]) > Share(c, j) * Cardinality(c[i])
                       => Index(out, i) < Index(out, j)
==============================================================================
