---------------------------- MODULE ProofVerifier ----------------------------
(***************************************************************************)
(* The client's check of the server's certificates: VerifyCertChain of     *)
(* web_transport_client_verify.cc, with every way it can fail.             *)
(*                                                                         *)
(* The BoringSSL objects are external.  `live' holds those allocated and   *)
(* not freed yet; a certificate is known by its place in the chain.  A     *)
(* BoringSSL call may give any of its answers.  The BIO a PEM certificate  *)
(* is read through lives and ends within LoadCertificate, which has no     *)
(* return between the two, so it is no object of `live'.                   *)
(***************************************************************************)
EXTENDS Naturals

CONSTANTS MaxChain   \* bound: certificates the server sends

ASSUME MaxChainType == MaxChain \in Nat

VARIABLES
  use_public_key_,  \* is a certificate pinned
  certs,            \* how many certificates the server sent
  pc,               \* the next step of VerifyCertChain
  loaded,           \* x509_chain: the first so many are loaded
  untrusted,        \* is there a stack of intermediates
  live,             \* objects allocated
  freed_twice,      \* was an object freed that was not live
  valid,
  evidence,         \* what has been established about the chain
  result            \* "none" until the call returns

input == <<use_public_key_, certs>>
memory == <<live, freed_twice>>
vars == <<input, pc, loaded, untrusted, memory, valid, evidence, result>>

-----------------------------------------------------------------------------
Steps == {"start", "load", "pinned", "compare", "store", "locations", "ctx",
          "stack", "init", "verify", "free", "done"}

Cert(i) == <<"certificate", i>>
Chain == {Cert(i) : i \in 1..loaded}
Pinned == {<<"pinned", 0>>}
Store == {<<"store", 0>>}
Ctx == {<<"context", 0>>}
Stack == {<<"stack", 0>>}
Intermediates == IF untrusted THEN Stack ELSE {}

Alloc(objects) == live' = live \cup objects /\ UNCHANGED freed_twice
Free(objects) ==
  /\ live' = live \ objects
  /\ freed_twice' = (freed_twice \/ ~(objects \subseteq live))

Fail == result' = "failure" /\ pc' = "done"

-----------------------------------------------------------------------------
Init ==
  /\ use_public_key_ \in BOOLEAN
  /\ certs \in 0..MaxChain
  /\ pc = "start"
  /\ loaded = 0 /\ untrusted = FALSE
  /\ live = {} /\ freed_twice = FALSE
  /\ valid = FALSE
  /\ evidence = {}
  /\ result = "none"

Start ==
  /\ pc = "start"
  /\ IF certs = 0 THEN Fail ELSE pc' = "load" /\ UNCHANGED result
  /\ UNCHANGED <<input, loaded, untrusted, memory, valid, evidence>>

LoadCertificate ==
  /\ pc = "load" /\ loaded < certs
  /\ loaded' = loaded + 1
  /\ Alloc({Cert(loaded')})
  /\ UNCHANGED <<input, pc, untrusted, valid, evidence, result>>

CertificateIsUnreadable ==
  /\ pc = "load" /\ loaded < certs
  /\ Free(Chain)
  /\ Fail
  /\ UNCHANGED <<input, loaded, untrusted, valid, evidence>>

ChainLoaded ==
  /\ pc = "load" /\ loaded = certs
  /\ pc' = IF use_public_key_ THEN "pinned" ELSE "store"
  /\ UNCHANGED <<input, loaded, untrusted, memory, valid, evidence, result>>

\* Mutant of LoadPinned: the first certificate of any chain is compared.
LoadPinned_AnyChain(read) ==
  /\ pc = "pinned"
  /\ IF read THEN Alloc(Pinned) /\ pc' = "compare"
             ELSE pc' = "free" /\ UNCHANGED memory
  /\ UNCHANGED <<input, loaded, untrusted, valid, evidence, result>>

\* Pinned mode: the file may be missing, or not be a certificate.
LoadPinned(read) ==
  /\ pc = "pinned"
  /\ IF loaded = 1 /\ read THEN Alloc(Pinned) /\ pc' = "compare"
                           ELSE pc' = "free" /\ UNCHANGED memory
  /\ UNCHANGED <<input, loaded, untrusted, valid, evidence, result>>

ComparePinned(same) ==
  /\ pc = "compare"
  /\ valid' = same
  /\ evidence' = IF same THEN {"pinned"} ELSE {}
  /\ Free(Pinned)
  /\ pc' = "free"
  /\ UNCHANGED <<input, loaded, untrusted, result>>

NewStore(ok) ==
  /\ pc = "store"
  /\ IF ok THEN Alloc(Store) /\ pc' = "locations" /\ UNCHANGED result
           ELSE Free(Chain) /\ Fail
  /\ UNCHANGED <<input, loaded, untrusted, valid, evidence>>

\* The CA bundle and directory that were given, or the default paths.
LoadLocations(ok) ==
  /\ pc = "locations"
  /\ IF ok THEN pc' = "ctx" /\ UNCHANGED <<memory, result>>
           ELSE Free(Store \cup Chain) /\ Fail
  /\ UNCHANGED <<input, loaded, untrusted, valid, evidence>>

NewCtx(ok) ==
  /\ pc = "ctx"
  /\ IF ok THEN Alloc(Ctx) /\ pc' = "stack" /\ UNCHANGED result
           ELSE Free(Store \cup Chain) /\ Fail
  /\ UNCHANGED <<input, loaded, untrusted, valid, evidence>>

\* The stack of all certificates but the first.  When there is no memory for
\* it nothing fails: the chain is verified without them.  (A push that fails
\* leaves a certificate out of the stack, which owns none of them.)
StackIntermediates(ok) ==
  /\ pc = "stack"
  /\ untrusted' = (loaded > 1 /\ ok)
  /\ Alloc(IF untrusted' THEN Stack ELSE {})
  /\ pc' = "init"
  /\ UNCHANGED <<input, loaded, valid, evidence, result>>

InitCtx(ok) ==
  /\ pc = "init"
  /\ IF ok THEN pc' = "verify" /\ UNCHANGED <<memory, result>>
           ELSE Free(Ctx \cup Store \cup Intermediates \cup Chain) /\ Fail
  /\ UNCHANGED <<input, loaded, untrusted, valid, evidence>>

\* Mutant of Verify: the stack of intermediates is freed with what is on it.
Verify_PopFree(chain, host) ==
  /\ pc = "verify"
  /\ valid' = (chain /\ host)
  /\ evidence' = (IF chain THEN {"chain"} ELSE {}) \cup
                 (IF host THEN {"host"} ELSE {})
  /\ Free(Ctx \cup Store \cup Intermediates \cup (Chain \ {Cert(1)}))
  /\ pc' = "free"
  /\ UNCHANGED <<input, loaded, untrusted, result>>

\* X509_verify_cert, and X509_check_host once that is happy.
Verify(chain, host) ==
  /\ pc = "verify"
  /\ valid' = (chain /\ host)
  /\ evidence' = (IF chain THEN {"chain"} ELSE {}) \cup
                 (IF host THEN {"host"} ELSE {})
  /\ Free(Ctx \cup Store \cup Intermediates)
  /\ pc' = "free"
  /\ UNCHANGED <<input, loaded, untrusted, result>>

FreeChain ==
  /\ pc = "free"
  /\ Free(Chain)
  /\ result' = IF valid THEN "success" ELSE "failure"
  /\ pc' = "done"
  /\ UNCHANGED <<input, loaded, untrusted, valid, evidence>>

Next ==
  \/ Start \/ LoadCertificate \/ CertificateIsUnreadable \/ ChainLoaded
  \/ \E ok \in BOOLEAN :
       \/ LoadPinned(ok) \/ ComparePinned(ok)
       \/ NewStore(ok) \/ LoadLocations(ok) \/ NewCtx(ok)
       \/ StackIntermediates(ok) \/ InitCtx(ok)
  \/ \E chain, host \in BOOLEAN : Verify(chain, host)
  \/ FreeChain

Spec == Init /\ [][Next]_vars

-----------------------------------------------------------------------------
\* Every variable has its type, and the chain holds no certificate that the
\* server did not send.
TypeOK ==
  /\ use_public_key_ \in BOOLEAN
  /\ certs \in 0..MaxChain /\ loaded \in 0..certs
  /\ pc \in Steps
  /\ untrusted \in BOOLEAN
  /\ live \subseteq {Cert(i) : i \in 1..certs} \cup Pinned \cup Store \cup Ctx
                   \cup Stack
  /\ freed_twice \in BOOLEAN /\ valid \in BOOLEAN
  /\ evidence \subseteq {"pinned", "chain", "host"}
  /\ result \in {"none", "success", "failure"}

\* Whatever fails on the way, VerifyCertChain returns with every certificate,
\* the store, the context and the stack freed, and none of them freed twice.
FreesAllOnce == ~freed_twice /\ (pc = "done" => live = {})

\* Success is reported for nothing but a single certificate that equals the
\* pinned one or, if none is pinned, a chain and a host name that were both
\* verified.
SuccessIsEarned ==
  result = "success" =>
    IF use_public_key_ THEN certs = 1 /\ "pinned" \in evidence
                       ELSE {"chain", "host"} \subseteq evidence
=============================================================================
