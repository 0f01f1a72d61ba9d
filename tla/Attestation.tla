------------------------------ MODULE Attestation ------------------------------
(* What a client believes of a host before it sends a prompt there: the five   *)
(* checks of oblivio/attest.py and the SEV-SNP verifier of oblivio/sev_snp.py.  *)
(*                                                                            *)
(* Everything a host presents is untrusted. A signature is the record of who   *)
(* made it and over what; nobody makes one with a key that is not his. Hex     *)
(* strings are brought to one case wherever they are read, so they are values.  *)
EXTENDS Integers, FiniteSets

CONSTANT MaxAge   \* Policy.max_age_seconds

Skew == 30      \* seconds a report may lie in the future
AlgoP384 == 1   \* SIG_ALGO_ECDSA_P384_SHA384
Formats == {"ed25519-ref", "sev-snp", "tdx", "nvidia-gpu"}
NoTcb == 0

(* A policy that names no measurement, or no root, is refused: it is none. *)
PolicyBuilt(measurements, roots) == measurements # {} /\ roots # {}

(* What the report must carry for this client's nonce. *)
ReportDataFor(nonce) == <<"attest", nonce>>

-----------------------------------------------------------------------------
(* Parsing. A document with a field missing is no attestation; debug alone may *)
(* be left out, and is then off.                                               *)
Parsed(doc) ==
  [format      |-> doc.format,
   measurement |-> doc.measurement,
   report_data |-> doc.report_data,
   signed_at   |-> doc.signed_at,
   debug       |-> doc.debug = "on",
   signature   |-> doc.signature,
   signing_key |-> doc.signing_key,
   raw         |-> doc.raw]

SignedBytes(att) ==
  [format |-> att.format, measurement |-> att.measurement, report_data |-> att.report_data,
   signed_at |-> att.signed_at, debug |-> att.debug]

(* The reference format signs the envelope itself. *)
Ed25519Verifies(att) ==
  att.signature = [by |-> att.signing_key, over |-> SignedBytes(att)]

-----------------------------------------------------------------------------
(* SEV-SNP: a binary report of fixed length, signed by the chip's key, which a *)
(* chain of three certificates ties to the root the caller supplied.           *)
ChainVerifies(chain) ==
  /\ chain.ark.by = chain.ark.key
  /\ chain.ask.by = chain.ark.key
  /\ chain.vcek.by = chain.ask.key

(* Bit 19 of the signed POLICY. *)
DebugEnabled(report) == report.debug

(* A signature's two numbers are 48 bytes, little endian, in fields of 72. *)
ParsesAsReport(blob) == blob.sized /\ ~blob.sig_overlong

(* Mutant: the debug flag of the envelope is not compared. *)
EnvelopeMatchesButDebug(att, report) ==
  /\ att.measurement = report.measurement
  /\ att.report_data = report.report_data
  /\ ~report.tail

EnvelopeMatches(att, report) ==
  /\ att.measurement = report.measurement
  /\ att.report_data = report.report_data
  /\ ~report.tail
  /\ att.debug = DebugEnabled(report)

SevSnpVerifies(att, sev) ==
  /\ att.raw.present /\ att.raw.decodable
  /\ ParsesAsReport(att.raw)
  /\ att.raw.algo = AlgoP384
  /\ EnvelopeMatches(att, att.raw)
  /\ sev.expected_tcb # NoTcb => att.raw.reported_tcb = sev.expected_tcb
  /\ att.raw.signed_by = sev.chain.vcek.key

(* A verifier for every format this build names, and a real one for two: the  *)
(* default registry refuses SEV-SNP as well, until a chain is supplied.        *)
SignatureVerifies(att, sev) ==
  \/ att.format = "ed25519-ref" /\ Ed25519Verifies(att)
  \/ att.format = "sev-snp" /\ sev.supplied /\ SevSnpVerifies(att, sev)

RegistryBuilt(sev) == sev.supplied => ChainVerifies(sev.chain)

-----------------------------------------------------------------------------
(* The five checks, in their order; the first that fails is the answer.       *)
Fresh(att, now) == now - att.signed_at <= MaxAge /\ now - att.signed_at >= - Skew

FailedCheck(att, nonce, policy, sev, now) ==
  IF att.format \notin Formats THEN "format"
  ELSE IF att.signing_key \notin policy.roots THEN "root"
  ELSE IF ~SignatureVerifies(att, sev) THEN "signature"
  ELSE IF att.report_data # ReportDataFor(nonce) THEN "nonce"
  ELSE IF att.measurement \notin policy.measurements THEN "measurement"
  ELSE IF policy.require_debug_disabled /\ att.debug THEN "debug"
  ELSE IF ~Fresh(att, now) THEN "age"
  ELSE "passed"

VerifyAttestation(att, nonce, policy, sev, now) ==
  FailedCheck(att, nonce, policy, sev, now) = "passed"

(* fetch_attestation: what comes back over the wire, and whether it is a      *)
(* document at all. A redirect is refused, since it chooses who answers.      *)
Fetched(wire) == wire = "document"

(* attest_host, then attested_complete, which takes the result and no less.   *)
(* The answer is the host's: a reply, an error, or a body without a text.     *)
AttestHost(wire, doc, nonce, policy, sev, now) ==
  /\ PolicyBuilt(policy.measurements, policy.roots)
  /\ RegistryBuilt(sev)
  /\ Fetched(wire)
  /\ VerifyAttestation(Parsed(doc), nonce, policy, sev, now)

AttestedComplete(attested, answer) ==
  IF ~attested THEN [sent |-> FALSE, attested |-> FALSE]
  ELSE [sent |-> TRUE, attested |-> answer = "reply"]

-----------------------------------------------------------------------------
(* What is true of the host when a trusted key says it: the words that were    *)
(* signed, whatever envelope they came in. A report's chip is trusted through  *)
(* the chain, the reference format through the key itself.                     *)
ChipIsGenuine(sev) == \E root \in {sev.chain.ark.key} :
  sev.chain.ark.by = root /\ sev.chain.ask.by = root /\ sev.chain.vcek.by = sev.chain.ask.key

TrueOfHost(said, nonce, policy) ==
  /\ said.measurement \in policy.measurements
  /\ said.report_data = ReportDataFor(nonce)
  /\ policy.require_debug_disabled => ~said.debug

Earned(doc, nonce, policy, sev, now) ==
  \/ /\ doc.format = "ed25519-ref" /\ doc.signature.by \in policy.roots
     /\ TrueOfHost(doc.signature.over, nonce, policy)
     /\ now - doc.signature.over.signed_at \in - Skew .. MaxAge
  \/ /\ doc.format = "sev-snp" /\ sev.supplied /\ ChipIsGenuine(sev)
     /\ doc.raw.signed_by = sev.chain.vcek.key
     /\ TrueOfHost(doc.raw, nonce, policy)
     /\ sev.expected_tcb \in {NoTcb, doc.raw.reported_tcb}

(* A prompt is sent on words that are true, said by a key the  *)
(* caller trusts, for this nonce and, in the reference format, of this minute;  *)
(* and a host that presents such words as they are is accepted.                *)
Honest(doc, policy) ==
  /\ doc.format = "ed25519-ref"
  /\ doc.signature = [by |-> doc.signing_key, over |-> SignedBytes(Parsed(doc))]
  /\ doc.signing_key \in policy.roots

AcceptedIsEarned(wire, doc, nonce, policy, sev, now, answer) ==
  LET call == AttestedComplete(AttestHost(wire, doc, nonce, policy, sev, now), answer) IN
    /\ call.sent \/ call.attested => Earned(doc, nonce, policy, sev, now)
    /\ (wire = "document" /\ Honest(doc, policy) /\ RegistryBuilt(sev)
          /\ Earned(doc, nonce, policy, sev, now))
         => call.sent /\ (call.attested <=> answer = "reply")
=============================================================================
