------------------------ MODULE ProofVerifier_proofs ------------------------
(***************************************************************************)
(* Proofs about VerifyCertChain for chains of any length.                  *)
(***************************************************************************)
EXTENDS ProofVerifier, TLAPS

-----------------------------------------------------------------------------
(* The inductive invariant                                                 *)

\* What each step of VerifyCertChain finds allocated.
Held ==
  CASE pc \in {"start", "done"} -> {}
    [] pc \in {"load", "pinned", "store", "free"} -> Chain
    [] pc = "compare" -> Chain \cup Pinned
    [] pc \in {"locations", "ctx"} -> Chain \cup Store
    [] pc = "stack" -> Chain \cup Store \cup Ctx
    [] pc \in {"init", "verify"} -> Chain \cup Store \cup Ctx \cup Intermediates

MemoryInv == ~freed_twice /\ live = Held

\* What makes `valid' true.
Earned ==
  IF use_public_key_ THEN certs = 1 /\ "pinned" \in evidence
                     ELSE {"chain", "host"} \subseteq evidence

\* Each mode takes its own steps, on the whole chain; what the last of them
\* finds is still there when the call returns.
ModeInv ==
  /\ pc = "start" => loaded = 0
  /\ pc = "pinned" => use_public_key_ /\ loaded = certs
  /\ pc = "compare" => use_public_key_ /\ certs = 1
  /\ pc \in {"store", "locations", "ctx", "stack", "init", "verify"} =>
       ~use_public_key_
  /\ valid => pc \in {"free", "done"}
  /\ pc = "free" /\ valid => Earned
  /\ pc # "done" => result = "none"
  /\ result = "success" => Earned

Inductive == TypeOK /\ MemoryInv /\ ModeInv

-----------------------------------------------------------------------------
\* The inductive invariant holds at the start.
LEMMA InitInductive == Init => Inductive
<1> SUFFICES ASSUME Init PROVE Inductive
  OBVIOUS
<1>1. TypeOK
  <2>1. certs \in 0..MaxChain /\ loaded \in 0..certs
    BY MaxChainType DEF Init
  <2>2. live \subseteq {Cert(i) : i \in 1..certs} \cup Pinned \cup Store
                     \cup Ctx \cup Stack
    BY DEF Init
  <2> QED
    BY <2>1, <2>2 DEF Init, TypeOK, Steps
<1>2. MemoryInv
  BY DEF Init, MemoryInv, Held
<1>3. ModeInv
  BY DEF Init, ModeInv
<1> QED
  BY <1>1, <1>2, <1>3 DEF Inductive

\* The objects of the two modes are apart.
LEMMA Apart ==
  /\ Chain \cap (Pinned \cup Store \cup Ctx \cup Intermediates) = {}
  /\ Intermediates \subseteq Stack
BY DEF Chain, Cert, Pinned, Store, Ctx, Stack, Intermediates

\* Loading one more certificate makes the chain longer by it.
LEMMA LongerChain ==
  ASSUME loaded \in Nat, loaded' = loaded + 1
  PROVE  Chain' = Chain \cup {Cert(loaded')}
<1>1. 1..loaded' = (1..loaded) \cup {loaded'}
  OBVIOUS
<1> QED
  BY <1>1 DEF Chain, Cert

\* Each failure on the way frees all that is allocated and returns.
LEMMA FailureStep ==
  ASSUME Inductive, NEW objects, live = objects, Free(objects), Fail,
         UNCHANGED <<input, loaded, untrusted, valid, evidence>>
  PROVE  Inductive'
<1>1. live' = {} /\ freed_twice' = FALSE
  BY DEF Inductive, MemoryInv, Free
<1>2. result' = "failure" /\ pc' = "done"
  BY DEF Fail
<1>3. TypeOK'
  BY <1>1, <1>2 DEF Inductive, TypeOK, Steps, input
<1>4. MemoryInv'
  BY <1>1, <1>2 DEF MemoryInv, Held
<1>5. ModeInv'
  BY <1>2 DEF ModeInv
<1> QED
  BY <1>3, <1>4, <1>5 DEF Inductive

\* A step that moves on, with nothing loaded, freed or verified by it.
LEMMA OnwardStep ==
  ASSUME Inductive, UNCHANGED <<input, loaded, valid, evidence, result>>,
         untrusted' \in BOOLEAN, pc \notin {"free", "done"},
         pc' \in Steps \ {"start", "done"},
         pc' = "pinned" => use_public_key_ /\ loaded = certs,
         pc' = "compare" => use_public_key_ /\ certs = 1,
         pc' \in {"store", "locations", "ctx", "stack", "init", "verify"} =>
           ~use_public_key_,
         pc' # "free", UNCHANGED freed_twice, live' = Held',
         live' \subseteq live \cup Pinned \cup Store \cup Ctx \cup Stack
  PROVE  Inductive'
<1>1. TypeOK'
  <2>1. live' \subseteq {Cert(i) : i \in 1..certs'} \cup Pinned \cup Store
                      \cup Ctx \cup Stack
    BY DEF Inductive, TypeOK, input
  <2> QED
    BY <2>1 DEF Inductive, TypeOK, input
<1>2. MemoryInv'
  BY DEF Inductive, MemoryInv
<1>3. ModeInv'
  BY DEF Inductive, ModeInv, Earned, input
<1> QED
  BY <1>1, <1>2, <1>3 DEF Inductive

\* Every step keeps the inductive invariant.
LEMMA NextInductive == Inductive /\ [Next]_vars => Inductive'
<1> SUFFICES ASSUME Inductive, [Next]_vars PROVE Inductive'
  OBVIOUS
<1>0. live = Held /\ ~freed_twice
  BY DEF Inductive, MemoryInv
<1>1. CASE Start
  <2>1. CASE certs = 0
    <3>1. Fail /\ UNCHANGED <<input, loaded, untrusted, memory, valid, evidence>>
      BY <1>1, <2>1 DEF Start
    <3>2. live = {}
      BY <1>0, <1>1 DEF Start, Held
    <3>3. Free({})
      BY <1>0, <3>1, <3>2 DEF Free, memory, Inductive, TypeOK
    <3> QED
      BY <3>1, <3>2, <3>3, FailureStep
  <2>2. CASE certs # 0
    <3>1. /\ pc = "start" /\ pc' = "load"
          /\ UNCHANGED <<input, loaded, untrusted, memory, valid, evidence, result>>
      BY <1>1, <2>2 DEF Start
    <3>2. loaded = 0
      BY <3>1 DEF Inductive, ModeInv
    <3>3. live' = {} /\ Held' = {}
      BY <1>0, <3>1, <3>2 DEF Held, Chain, memory
    <3> QED
      BY <3>1, <3>3, OnwardStep DEF Steps, memory, Inductive, TypeOK
  <2> QED
    BY <2>1, <2>2
<1>2. CASE LoadCertificate
  <2>1. loaded \in Nat /\ Chain' = Chain \cup {Cert(loaded')}
    BY <1>2, LongerChain DEF LoadCertificate, Inductive, TypeOK
  <2>2. TypeOK'
    <3>1. loaded' \in 0..certs /\ Cert(loaded') \in {Cert(i) : i \in 1..certs}
      BY <1>2 DEF LoadCertificate, Inductive, TypeOK
    <3> QED
      BY <1>2, <3>1 DEF LoadCertificate, Inductive, TypeOK, Alloc, input
  <2>3. MemoryInv'
    BY <1>0, <1>2, <2>1 DEF LoadCertificate, MemoryInv, Held, Alloc
  <2>4. ModeInv'
    BY <1>2 DEF LoadCertificate, Inductive, ModeInv, Earned, input
  <2> QED
    BY <2>2, <2>3, <2>4 DEF Inductive
<1>3. CASE CertificateIsUnreadable
  BY <1>0, <1>3, FailureStep DEF CertificateIsUnreadable, Held
<1>4. CASE ChainLoaded
  <2>1. /\ pc = "load" /\ loaded = certs
        /\ pc' = IF use_public_key_ THEN "pinned" ELSE "store"
        /\ UNCHANGED <<input, loaded, untrusted, memory, valid, evidence, result>>
    BY <1>4 DEF ChainLoaded
  <2>2. live' = Chain /\ Held' = Chain
    BY <1>0, <2>1 DEF Held, Chain, memory
  <2> QED
    BY <1>0, <2>1, <2>2, OnwardStep
    DEF Held, Steps, memory, Inductive, TypeOK
<1>5. ASSUME NEW read \in BOOLEAN, LoadPinned(read) PROVE Inductive'
  <2>1. /\ pc = "pinned" /\ live = Chain
        /\ use_public_key_ /\ loaded = certs /\ untrusted' \in BOOLEAN
        /\ UNCHANGED <<input, loaded, untrusted, valid, evidence, result>>
    BY <1>0, <1>5 DEF LoadPinned, Held, Inductive, ModeInv, TypeOK
  <2>2. CASE loaded = 1 /\ read
    <3>1. pc' = "compare" /\ Alloc(Pinned)
      BY <1>5, <2>2 DEF LoadPinned
    <3>2. live' = Chain \cup Pinned /\ Held' = Chain \cup Pinned
      BY <2>1, <3>1 DEF Held, Chain, Pinned, Alloc
    <3> QED
      BY <2>1, <2>2, <3>1, <3>2, OnwardStep DEF Steps, Alloc
  <2>3. CASE ~(loaded = 1 /\ read)
    <3>1. pc' = "free" /\ UNCHANGED memory
      BY <1>5, <2>3 DEF LoadPinned
    <3>2. valid = FALSE
      BY <2>1 DEF Inductive, ModeInv
    <3>3. TypeOK'
      BY <2>1, <3>1 DEF Inductive, TypeOK, Steps, input, memory
    <3>4. MemoryInv'
      BY <1>0, <2>1, <3>1 DEF MemoryInv, Held, Chain, memory
    <3>5. ModeInv'
      BY <2>1, <3>1, <3>2 DEF Inductive, ModeInv, input
    <3> QED
      BY <3>3, <3>4, <3>5 DEF Inductive
  <2> QED
    BY <2>2, <2>3
<1>6. ASSUME NEW same \in BOOLEAN, ComparePinned(same) PROVE Inductive'
  <2>1. /\ pc = "compare" /\ pc' = "free" /\ Chain' = Chain
        /\ Free(Pinned)
    BY <1>6 DEF ComparePinned, Chain
  <2>2. live' = Chain /\ freed_twice' = FALSE
    BY <1>0, <2>1, Apart DEF Held, Free
  <2>3. TypeOK'
    <3>1. live' \subseteq live
      BY <2>1 DEF Free
    <3> QED
      BY <1>6, <2>2, <3>1 DEF ComparePinned, Inductive, TypeOK, Steps, input
  <2>4. MemoryInv'
    BY <2>1, <2>2 DEF MemoryInv, Held
  <2>5. ModeInv'
    BY <1>6 DEF ComparePinned, Inductive, ModeInv, Earned, input
  <2> QED
    BY <2>3, <2>4, <2>5 DEF Inductive
<1>7. ASSUME NEW ok \in BOOLEAN, NewStore(ok) PROVE Inductive'
  <2>1. CASE ok
    <3>1. /\ pc = "store" /\ pc' = "locations" /\ Alloc(Store)
          /\ UNCHANGED <<input, loaded, untrusted, valid, evidence, result>>
      BY <1>7, <2>1 DEF NewStore
    <3>2. live' = Chain \cup Store /\ Held' = Chain \cup Store
      BY <1>0, <3>1 DEF Held, Chain, Store, Alloc
    <3> QED
      BY <1>0, <3>1, <3>2, OnwardStep
      DEF Held, Steps, Alloc, Inductive, ModeInv, TypeOK
  <2>2. CASE ~ok
    BY <1>0, <1>7, <2>2, FailureStep DEF NewStore, Held
  <2> QED
    BY <2>1, <2>2
<1>8. ASSUME NEW ok \in BOOLEAN, LoadLocations(ok) PROVE Inductive'
  <2>1. CASE ok
    <3>1. /\ pc = "locations" /\ pc' = "ctx"
          /\ UNCHANGED <<input, loaded, untrusted, memory, valid, evidence, result>>
      BY <1>8, <2>1 DEF LoadLocations
    <3>2. live' = live /\ Held' = Held
      BY <3>1 DEF Held, Chain, Store, memory
    <3> QED
      BY <1>0, <3>1, <3>2, OnwardStep
      DEF Steps, memory, Inductive, ModeInv, TypeOK
  <2>2. CASE ~ok
    <3>1. live = Store \cup Chain
      BY <1>0, <1>8 DEF LoadLocations, Held
    <3> QED
      BY <1>8, <2>2, <3>1, FailureStep DEF LoadLocations
  <2> QED
    BY <2>1, <2>2
<1>9. ASSUME NEW ok \in BOOLEAN, NewCtx(ok) PROVE Inductive'
  <2>1. CASE ok
    <3>1. /\ pc = "ctx" /\ pc' = "stack" /\ Alloc(Ctx)
          /\ UNCHANGED <<input, loaded, untrusted, valid, evidence, result>>
      BY <1>9, <2>1 DEF NewCtx
    <3>2. live' = live \cup Ctx /\ Held' = live'
      BY <1>0, <3>1 DEF Held, Chain, Store, Ctx, Alloc
    <3> QED
      BY <3>1, <3>2, OnwardStep
      DEF Steps, Alloc, Inductive, ModeInv, TypeOK
  <2>2. CASE ~ok
    <3>1. live = Store \cup Chain
      BY <1>0, <1>9 DEF NewCtx, Held
    <3> QED
      BY <1>9, <2>2, <3>1, FailureStep DEF NewCtx
  <2> QED
    BY <2>1, <2>2
<1>10. ASSUME NEW ok \in BOOLEAN, StackIntermediates(ok) PROVE Inductive'
  <2>1. /\ pc = "stack" /\ pc' = "init" /\ untrusted' \in BOOLEAN
        /\ Alloc(IF untrusted' THEN Stack ELSE {})
        /\ UNCHANGED <<input, loaded, valid, evidence, result>>
    BY <1>10 DEF StackIntermediates, Inductive, TypeOK
  <2>2. live' = live \cup (IF untrusted' THEN Stack ELSE {}) /\ Held' = live'
    BY <1>0, <2>1 DEF Held, Chain, Store, Ctx, Stack, Intermediates, Alloc
  <2> QED
    BY <2>1, <2>2, OnwardStep DEF Steps, Alloc, Inductive, ModeInv
<1>11. ASSUME NEW ok \in BOOLEAN, InitCtx(ok) PROVE Inductive'
  <2>1. CASE ok
    <3>1. /\ pc = "init" /\ pc' = "verify"
          /\ UNCHANGED <<input, loaded, untrusted, memory, valid, evidence, result>>
      BY <1>11, <2>1 DEF InitCtx
    <3>2. live' = live /\ Held' = Held
      BY <3>1 DEF Held, Chain, Store, Ctx, Stack, Intermediates, memory
    <3> QED
      BY <1>0, <3>1, <3>2, OnwardStep
      DEF Steps, memory, Inductive, ModeInv, TypeOK
  <2>2. CASE ~ok
    <3>1. live = Ctx \cup Store \cup Intermediates \cup Chain
      BY <1>0, <1>11 DEF InitCtx, Held
    <3> QED
      BY <1>11, <2>2, <3>1, FailureStep DEF InitCtx
  <2> QED
    BY <2>1, <2>2
<1>12. ASSUME NEW chain \in BOOLEAN, NEW host \in BOOLEAN, Verify(chain, host)
       PROVE  Inductive'
  <2>1. /\ pc = "verify" /\ pc' = "free" /\ Chain' = Chain
        /\ Free(Ctx \cup Store \cup Intermediates)
    BY <1>12 DEF Verify, Chain
  <2>2. live' = Chain /\ freed_twice' = FALSE
    BY <1>0, <2>1, Apart DEF Held, Free
  <2>3. TypeOK'
    <3>1. live' \subseteq live
      BY <2>1 DEF Free
    <3> QED
      BY <1>12, <2>2, <3>1 DEF Verify, Inductive, TypeOK, Steps, input
  <2>4. MemoryInv'
    BY <2>1, <2>2 DEF MemoryInv, Held
  <2>5. ModeInv'
    BY <1>12 DEF Verify, Inductive, ModeInv, Earned, input
  <2> QED
    BY <2>3, <2>4, <2>5 DEF Inductive
<1>13. CASE FreeChain
  <2>1. live = Chain
    BY <1>0, <1>13 DEF FreeChain, Held
  <2>2. live' = {} /\ freed_twice' = FALSE
    BY <1>0, <1>13, <2>1 DEF FreeChain, Free
  <2>3. TypeOK'
    BY <1>13, <2>2 DEF FreeChain, Inductive, TypeOK, Steps, input
  <2>4. MemoryInv'
    BY <1>13, <2>2 DEF FreeChain, MemoryInv, Held
  <2>5. ModeInv'
    BY <1>13 DEF FreeChain, Inductive, ModeInv, Earned, input
  <2> QED
    BY <2>3, <2>4, <2>5 DEF Inductive
<1>14. CASE UNCHANGED vars
  BY <1>14 DEF vars, input, memory, Inductive, TypeOK, MemoryInv, ModeInv,
     Held, Earned, Chain, Pinned, Store, Ctx, Stack, Intermediates
<1> QED
  BY <1>1, <1>2, <1>3, <1>4, <1>5, <1>6, <1>7, <1>8, <1>9, <1>10, <1>11,
     <1>12, <1>13, <1>14
  DEF Next

\* VerifyCertChain keeps the inductive invariant at each of its steps.
THEOREM InductiveInvariant == Spec => []Inductive
  BY InitInductive, NextInductive, PTL DEF Spec

-----------------------------------------------------------------------------
\* Every variable of VerifyCertChain has its type.
THEOREM TypeCorrect == Spec => []TypeOK
  BY InductiveInvariant, PTL DEF Inductive

\* However long the chain and whatever fails, VerifyCertChain returns with
\* every object freed, and none freed twice.
THEOREM FreesEverything == Spec => []FreesAllOnce
<1>1. Inductive => FreesAllOnce
  BY DEF Inductive, MemoryInv, Held, FreesAllOnce
<1> QED
  BY <1>1, InductiveInvariant, PTL

\* VerifyCertChain answers success only for a chain that passed the checks
\* its mode stands for.
THEOREM SuccessMeansVerified == Spec => []SuccessIsEarned
<1>1. Inductive => SuccessIsEarned
  BY DEF Inductive, ModeInv, Earned, SuccessIsEarned
<1> QED
  BY <1>1, InductiveInvariant, PTL
=============================================================================
