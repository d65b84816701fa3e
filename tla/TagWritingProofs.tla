--------------------------- MODULE TagWritingProofs --------------------------
(***************************************************************************)
(* Writing tags, for any number of writers, locks, tags and secrets: the   *)
(* writers use the registry as RegistrySpec allows, a tag that verifies    *)
(* names a lock that was printed, and a tap nobody came between has bound  *)
(* the tag it wrote.                                                       *)
(***************************************************************************)
EXTENDS TagWriting, RegistryProofs

USE RegistryAssumption, WritingAssumption

\* Where a tap is under way.
Tapping(w) == pc[w] \in {"write", "commit", "bind"}

\* A tap has a lock open, and holds a token for the tag it has read.
TapInv(w) ==
  /\ shown[w] # NoCode => Present(shown[w])
  /\ Tapping(w) => /\ shown[w] \in Codes
                   /\ uid[w] \in Uids
                   /\ payload[w] \in Tokens
                   /\ payload[w].uid = uid[w]
  /\ pc[w] = "bind" => sent[w] \in Commits

WritingInv ==
  /\ WritingTypeOK
  /\ EnvSecret = 0 => backups \subseteq 0..generated
  /\ \A w \in Writers : TapInv(w)

\* What a step may do to the taps of the writers it is not a step of.
Aside(w) ==
  /\ pc'[w] = pc[w] /\ shown'[w] = shown[w] /\ uid'[w] = uid[w]
  /\ payload'[w] = payload[w] /\ sent'[w] = sent[w]

RestTypeOK ==
  /\ text \in [Uids -> Tokens \cup {NoText}]
  /\ dbSecret \in 0..generated /\ generated \in 0..MaxSecrets
  /\ backups \subseteq Nat \ {0}
  /\ shown \in [Writers -> Codes \cup {NoCode}]
  /\ rebindBox \in [Writers -> BOOLEAN]
  /\ pc \in [Writers -> {"idle", "write", "commit", "bind", "said"}]
  /\ uid \in [Writers -> Uids \cup {NoUid}]
  /\ payload \in [Writers -> Tokens \cup {NoText}]
  /\ sent \in [Writers -> Commits \cup {NoCommit}]
  /\ calm \in [Writers -> BOOLEAN]

LEMMA TypeParts == WritingTypeOK <=> TypeOK /\ RestTypeOK
  BY DEF WritingTypeOK, RestTypeOK

LEMMA AsideKeeps ==
  ASSUME WritingInv, [RegistryNext]_registryVars, NEW w \in Writers, Aside(w)
  PROVE  TapInv(w)'
<1>1. TapInv(w) /\ TypeOK /\ RestTypeOK
  BY TypeParts DEF WritingInv
<1>2. shown[w] # NoCode => status'[shown[w]] # Absent
  BY <1>1, LocksStay DEF TapInv, RestTypeOK
<1> QED BY <1>1, <1>2 DEF TapInv, Aside, Tapping, Present

\* One lemma per part of Next.
Tapped(w) ==
  /\ [RegistryNext]_registryVars
  /\ RestTypeOK'
  /\ EnvSecret = 0 => backups' \subseteq 0..generated'
  /\ \A v \in Writers \ {w} : Aside(v)
  /\ TapInv(w)'

LEMMA EffectiveSecretTyped == WritingInv => EffectiveSecret \in Nat
  BY DEF WritingInv, WritingTypeOK, EffectiveSecret

LEMMA DisturbsTyped ==
  ASSUME WritingInv, NEW W, Disturbs(W)
  PROVE  calm' \in [Writers -> BOOLEAN]
  BY DEF WritingInv, WritingTypeOK, Disturbs, Free

LEMMA DialogTapped ==
  ASSUME WritingInv, NEW w \in Writers, (\E c \in Codes : Opens(w, c)) \/ TicksRebind(w)
  PROVE  Tapped(w)
<1>1. TapInv(w) /\ RestTypeOK
  BY TypeParts DEF WritingInv
<1>2. ASSUME NEW c \in Codes, Opens(w, c) PROVE Tapped(w)
  <2>1. calm' \in [Writers -> BOOLEAN]
    BY <1>2, DisturbsTyped DEF Opens
  <2>2. RestTypeOK'
    BY <1>1, <1>2, <2>1 DEF Opens, RestTypeOK, secretVars, tapVars
  <2> QED
    BY <1>1, <1>2, <2>2
       DEF Opens, Tapped, RestTypeOK, TapInv, Tapping, Aside, Present, WritingInv,
           registryVars, secretVars, tapVars
<1>3. CASE TicksRebind(w)
  <2>1. RestTypeOK'
    BY <1>1, <1>3 DEF TicksRebind, RestTypeOK, secretVars, tapVars
  <2> QED
    BY <1>1, <1>3, <2>1
       DEF TicksRebind, Tapped, TapInv, Tapping, Aside, Present, WritingInv, registryVars,
           secretVars, tapVars
<1> QED BY <1>2, <1>3

LEMMA PreparesTapped ==
  ASSUME WritingInv, NEW w \in Writers, NEW u \in Uids, Prepares(w, u)
  PROVE  Tapped(w)
<1>1. TapInv(w) /\ RestTypeOK
  BY TypeParts DEF WritingInv
<1> DEFINE token == [code |-> shown[w], uid |-> u, secret |-> EffectiveSecret]
<1>2. token \in Tokens /\ token.uid = u
  BY <1>1, EffectiveSecretTyped DEF Prepares, RestTypeOK, Tokens
<1>3. RestTypeOK'
  BY <1>1, <1>2 DEF Prepares, RestTypeOK, secretVars, dialogVars
<1>4. TapInv(w)'
  BY <1>1, <1>2
     DEF Prepares, RestTypeOK, TapInv, Tapping, Present, registryVars, dialogVars
<1> QED
  BY <1>1, <1>3, <1>4
     DEF Prepares, Tapped, RestTypeOK, Aside, WritingInv, registryVars, secretVars, dialogVars

LEMMA WriteTapped ==
  ASSUME WritingInv, NEW w \in Writers, Writes(w) \/ WriteFails(w)
  PROVE  Tapped(w)
<1>1. TapInv(w) /\ RestTypeOK /\ Tapping(w)
  BY TypeParts DEF WritingInv, Writes, WriteFails, Step, Tapping
<1>2. calm' \in [Writers -> BOOLEAN]
  BY DisturbsTyped DEF Writes, WriteFails, DisturbsTaps
<1>3. text' \in [Uids -> Tokens \cup {NoText}]
  BY <1>1 DEF Writes, WriteFails, TapInv, RestTypeOK
<1>4. RestTypeOK'
  BY <1>1, <1>2, <1>3 DEF Writes, WriteFails, Forgets, Step, RestTypeOK, secretVars, dialogVars
<1> QED
  BY <1>1, <1>4
     DEF Writes, WriteFails, Forgets, Step, Tapped, RestTypeOK, TapInv, Tapping, Aside, Present,
         WritingInv, registryVars, secretVars, dialogVars

LEMMA CommitTapped ==
  ASSUME WritingInv, NEW w \in Writers, CommitReads(w) \/ CommitFails(w)
  PROVE  Tapped(w)
<1>1. TapInv(w) /\ RestTypeOK /\ Tapping(w)
  BY TypeParts DEF WritingInv, CommitReads, CommitFails, Step, Tapping
<1>2. CASE CommitReads(w)
  <2>1. [code |-> shown[w], rebind |-> rebindBox[w]] \in Commits
    BY <1>1 DEF TapInv, RestTypeOK, Commits
  <2>2. RestTypeOK'
    BY <1>1, <1>2, <2>1 DEF CommitReads, Step, RestTypeOK, secretVars, dialogVars
  <2> QED
    BY <1>1, <1>2, <2>1, <2>2
       DEF CommitReads, Step, Tapped, RestTypeOK, TapInv, Tapping, Aside, Present, WritingInv,
           registryVars, secretVars, dialogVars
<1>3. CASE CommitFails(w)
  <2>1. RestTypeOK'
    BY <1>1, <1>3 DEF CommitFails, Forgets, RestTypeOK, secretVars, dialogVars
  <2> QED
    BY <1>1, <1>3, <2>1
       DEF CommitFails, Forgets, Tapped, RestTypeOK, TapInv, Tapping, Aside, Present,
           WritingInv, registryVars, secretVars, dialogVars
<1> QED BY <1>2, <1>3

LEMMA BindTapped ==
  ASSUME WritingInv, NEW w \in Writers, Binds(w) \/ BindsUnheard(w)
  PROVE  Tapped(w)
<1>1. TapInv(w) /\ RestTypeOK /\ TypeOK /\ pc[w] = "bind"
  BY TypeParts DEF WritingInv, Binds, BindsUnheard, Step
<1>2. /\ SetNfc(sent[w].code, uid[w], sent[w].rebind)
      /\ sent[w].code \in Codes /\ sent[w].rebind \in BOOLEAN /\ uid[w] \in Uids
  BY <1>1 DEF Binds, BindsUnheard, TapInv, Tapping, Commits
<1>3. [RegistryNext]_registryVars
  BY <1>2 DEF RegistryNext, LockNext
<1>4. shown[w] # NoCode => status'[shown[w]] # Absent
  BY <1>1, <1>3, LocksStay DEF TapInv, RestTypeOK
<1>5. RestTypeOK'
  BY <1>1 DEF Binds, BindsUnheard, Forgets, Step, RestTypeOK, secretVars, dialogVars
<1> QED
  BY <1>1, <1>3, <1>4, <1>5
     DEF Binds, BindsUnheard, Forgets, Step, Tapped, RestTypeOK, TapInv, Tapping, Aside,
         Present, WritingInv, secretVars, dialogVars
------------------------------------------------------------------------------
\* The steps that are no writer's.
LEMMA EnvironmentTapped ==
  ASSUME WritingInv,
         \/ GeneratesSecret \/ BacksUpSecret \/ RestoresSecret
         \/ Patch \/ Generate \/ UNCHANGED vars
  PROVE  /\ [RegistryNext]_registryVars
         /\ RestTypeOK'
         /\ EnvSecret = 0 => backups' \subseteq 0..generated'
         /\ \A w \in Writers : Aside(w)
<1>1. RestTypeOK
  BY TypeParts DEF WritingInv
<1>2. CASE GeneratesSecret \/ RestoresSecret
  <2>1. calm' \in [Writers -> BOOLEAN]
    BY <1>2, DisturbsTyped DEF GeneratesSecret, RestoresSecret, SetsSecret
  <2>2. /\ dbSecret' \in 0..generated' /\ generated' \in 0..MaxSecrets
        /\ EnvSecret = 0 => backups' \subseteq 0..generated'
    <3>1. EnvSecret = 0 /\ backups \subseteq 0..generated /\ backups' = backups
      BY <1>2 DEF GeneratesSecret, RestoresSecret, SetsSecret, WritingInv
    <3>2. CASE GeneratesSecret
      BY <1>1, <3>1, <3>2 DEF GeneratesSecret, SetsSecret, RestTypeOK
    <3>3. CASE RestoresSecret
      BY <1>1, <3>1, <3>3 DEF RestoresSecret, SetsSecret, RestTypeOK
    <3> QED BY <1>2, <3>2, <3>3
  <2>3. RestTypeOK'
    BY <1>1, <1>2, <2>1, <2>2
       DEF GeneratesSecret, RestoresSecret, SetsSecret, RestTypeOK, dialogVars, tapVars
  <2> QED
    BY <1>2, <2>2, <2>3
       DEF GeneratesSecret, RestoresSecret, SetsSecret, Aside, registryVars, dialogVars, tapVars
<1>3. CASE BacksUpSecret
  <2>1. /\ backups' \subseteq Nat \ {0}
        /\ EnvSecret = 0 => backups' \subseteq 0..generated'
    <3>1. EffectiveSecret \in Nat \ {0} /\ (EnvSecret = 0 => EffectiveSecret \in 0..generated)
      BY <1>1, <1>3 DEF BacksUpSecret, EffectiveSecret, RestTypeOK
    <3> QED BY <1>1, <1>3, <3>1 DEF BacksUpSecret, WritingInv, RestTypeOK
  <2> QED
    BY <1>1, <1>3, <2>1
       DEF BacksUpSecret, RestTypeOK, Aside, registryVars, dialogVars, tapVars
<1>4. CASE Patch
  BY <1>1, <1>4
     DEF Patch, RegistryNext, LockNext, RestTypeOK, Aside, WritingInv, secretVars, dialogVars,
         tapVars
<1>5. CASE Generate
  <2>1. PICK b \in BatchIds, c \in Codes :
          CreateBatch(b, 1, NoKey) \/ AddAirlock(c, b) \/ MarkGenerated(c)
    BY <1>5 DEF Generate
  <2>2. 1 \in 0..MaxBatch
    OBVIOUS
  <2>3. [RegistryNext]_registryVars
    BY <2>1, <2>2 DEF RegistryNext, LockNext, BatchNext
  <2> QED
    BY <1>1, <1>5, <2>3
       DEF Generate, RestTypeOK, Aside, WritingInv, secretVars, dialogVars, tapVars
<1>6. CASE UNCHANGED vars
  BY <1>1, <1>6
     DEF vars, registryVars, RestTypeOK, Aside, WritingInv, secretVars, dialogVars, tapVars
<1> QED BY <1>2, <1>3, <1>4, <1>5, <1>6

LEMMA WriterTapped ==
  ASSUME WritingInv, NEW w \in Writers, Writer(w)
  PROVE  Tapped(w)
  BY DialogTapped, PreparesTapped, WriteTapped, CommitTapped, BindTapped DEF Writer

LEMMA WritingStep ==
  ASSUME WritingInv, [Next]_vars
  PROVE  [RegistryNext]_registryVars /\ WritingInv'
<1> DEFINE Kept ==
      /\ [RegistryNext]_registryVars
      /\ RestTypeOK'
      /\ EnvSecret = 0 => backups' \subseteq 0..generated'
      /\ \A w \in Writers : TapInv(w)'
<1>1. ASSUME NEW w \in Writers, Writer(w) PROVE Kept
  BY <1>1, WriterTapped, AsideKeeps DEF Tapped
<1>2. ASSUME \/ GeneratesSecret \/ BacksUpSecret \/ RestoresSecret
             \/ Patch \/ Generate \/ UNCHANGED vars
      PROVE  Kept
  BY <1>2, EnvironmentTapped, AsideKeeps
<1>3. Kept
  BY <1>1, <1>2 DEF Next
<1>4. TypeOK /\ TypeOK'
  BY <1>3, TypePreserved DEF WritingInv, WritingTypeOK
<1>5. WritingTypeOK'
  BY <1>3, <1>4 DEF WritingTypeOK, RestTypeOK
<1> QED BY <1>3, <1>5 DEF WritingInv

LEMMA WritingInvInit == Init => WritingInv
  BY DEF Init, RegistryInit, WritingInv, WritingTypeOK, TypeOK, TapInv, Tapping

THEOREM WritingInvariant == Spec => []WritingInv
  BY WritingInvInit, WritingStep, PTL DEF Spec

\* The writers' state keeps its types.
THEOREM WritingTypes == Spec => []WritingTypeOK
<1>1. WritingInv => WritingTypeOK
  BY DEF WritingInv
<1> QED BY <1>1, WritingInvariant, PTL

\* Tags are written through the registry's transactions alone.
THEOREM WritersAreRegistryClients == Spec => RegistrySpec
<1>1. Init => RegistryInit
  BY DEF Init
<1> QED BY <1>1, WritingStep, WritingInvariant, PTL DEF Spec, RegistrySpec
------------------------------------------------------------------------------
(***************************************************************************)
(* Only printed locks get on a tag.  Every token, on a tag or on its way   *)
(* to one, every tag that is bound and every binding about to be made is   *)
(* of a lock whose history has printed in it, and a history forgets        *)
(* nothing.                                                                *)
(***************************************************************************)
WasPrinted(c) == Reached(c, {"printed"})

TapPrinted(w) ==
  /\ Tapping(w) => WasPrinted(payload[w].code)
  /\ pc[w] = "bind" => WasPrinted(sent[w].code)

PrintedInv ==
  /\ \A c \in Codes : Bound(c) => WasPrinted(c)
  /\ \A u \in Uids : text[u] # NoText => WasPrinted(text[u].code)
  /\ \A w \in Writers : TapPrinted(w)

LEMMA WasPrintedStays ==
  ASSUME TypeOK, [RegistryNext]_registryVars, NEW c \in Codes, WasPrinted(c)
  PROVE  WasPrinted(c)'
  BY ReachedStays DEF WasPrinted, Reached

LEMMA WritableWasPrinted ==
  ASSUME WritingInv, HistoryTip, PrintedInv, NEW c \in Codes, Present(c), Writable(c)
  PROVE  WasPrinted(c)
  BY HereReached DEF WritingInv, WritingTypeOK, PrintedInv, Writable, WasPrinted

\* What a tap may change of what others rely on.
LEMMA WriterWrites ==
  ASSUME WritingInv, [Next]_vars
  PROVE  /\ \A u \in Uids :
              \/ text'[u] \in {text[u], NoText}
              \/ \E w \in Writers : Tapping(w) /\ text'[u] = payload[w]
         /\ \/ nfcUid' = nfcUid
            \/ \E w \in Writers :
                 pc[w] = "bind" /\ SetNfc(sent[w].code, uid[w], sent[w].rebind)
<1>1. ASSUME NEW w \in Writers, Writes(w) \/ WriteFails(w)
      PROVE  /\ \A u \in Uids : text'[u] \in {text[u], NoText, payload[w]}
             /\ Tapping(w) /\ nfcUid' = nfcUid
  BY <1>1 DEF Writes, WriteFails, Step, Tapping, registryVars, WritingInv, WritingTypeOK
<1>2. ASSUME NEW w \in Writers, Binds(w) \/ BindsUnheard(w)
      PROVE  /\ text' = text
             /\ pc[w] = "bind" /\ SetNfc(sent[w].code, uid[w], sent[w].rebind)
  BY <1>2 DEF Binds, BindsUnheard, Step
<1>3. ASSUME \/ \E w \in Writers : \/ \E c \in Codes : Opens(w, c)
                                   \/ \E u \in Uids : Prepares(w, u)
                                   \/ TicksRebind(w) \/ CommitReads(w) \/ CommitFails(w)
             \/ GeneratesSecret \/ BacksUpSecret \/ RestoresSecret
             \/ Patch \/ Generate \/ UNCHANGED vars
      PROVE  UNCHANGED <<text, nfcUid>>
  BY <1>3 DEF Opens, TicksRebind, Prepares, CommitReads, CommitFails, GeneratesSecret,
              RestoresSecret, SetsSecret, BacksUpSecret, Patch, Generate, vars, registryVars,
              airlockVars, UpdateStatus, CreateBatch, AddAirlock, MarkGenerated
<1> QED BY <1>1, <1>2, <1>3 DEF Next, Writer

LEMMA TapPrintedStep ==
  ASSUME WritingInv, HistoryTip, PrintedInv, [RegistryNext]_registryVars,
         NEW w \in Writers, Writer(w)
  PROVE  TapPrinted(w)'
<1>1. TapInv(w) /\ TapPrinted(w) /\ TypeOK /\ RestTypeOK
  BY TypeParts DEF WritingInv, PrintedInv
<1>2. ASSUME NEW u \in Uids, Prepares(w, u) PROVE TapPrinted(w)'
  <2>1. shown[w] \in Codes /\ Present(shown[w])
    BY <1>1, <1>2 DEF Prepares, TapInv, RestTypeOK
  <2>2. WasPrinted(shown[w])
    BY <1>2, <2>1, WritableWasPrinted DEF Prepares
  <2>3. pc'[w] = "write" /\ payload'[w].code = shown[w] /\ history' = history
    BY <1>1, <1>2 DEF Prepares, RestTypeOK, registryVars
  <2> QED BY <2>2, <2>3 DEF TapPrinted, WasPrinted, Reached
<1>3. CASE CommitReads(w)
  <2>1. Tapping(w) /\ shown[w] \in Codes /\ Present(shown[w])
    BY <1>1, <1>3 DEF CommitReads, Step, Tapping, TapInv
  <2>2. WasPrinted(shown[w])
    BY <1>3, <2>1, WritableWasPrinted DEF CommitReads
  <2>3. sent'[w].code = shown[w] /\ payload' = payload /\ history' = history
    BY <1>1, <1>3 DEF CommitReads, RestTypeOK, registryVars
  <2> QED BY <1>1, <2>1, <2>2, <2>3 DEF TapPrinted, WasPrinted, Reached
<1>4. CASE Writes(w) \/ (\E c \in Codes : Opens(w, c)) \/ TicksRebind(w)
  <2>1. /\ payload' = payload /\ sent' = sent /\ history' = history
        /\ Tapping(w)' => Tapping(w)
        /\ pc'[w] = "bind" => pc[w] = "bind"
    BY <1>1, <1>4
       DEF Writes, Opens, TicksRebind, Step, Tapping, tapVars, registryVars, RestTypeOK
  <2> QED BY <1>1, <2>1 DEF TapPrinted, WasPrinted, Reached
<1>5. CASE WriteFails(w) \/ CommitFails(w) \/ Binds(w) \/ BindsUnheard(w)
  BY <1>1, <1>5
     DEF WriteFails, CommitFails, Binds, BindsUnheard, Step, RestTypeOK, TapPrinted, Tapping
<1> QED BY <1>2, <1>3, <1>4, <1>5 DEF Writer

LEMMA TapPrintedStays ==
  ASSUME WritingInv, PrintedInv, [RegistryNext]_registryVars, NEW w \in Writers, Aside(w)
  PROVE  TapPrinted(w)'
<1>1. TapInv(w) /\ TapPrinted(w) /\ TypeOK
  BY DEF WritingInv, WritingTypeOK, PrintedInv
<1>2. /\ Tapping(w) => payload[w].code \in Codes
      /\ pc[w] = "bind" => sent[w].code \in Codes
  BY <1>1 DEF TapInv, Tokens, Commits
<1> QED
  BY <1>1, <1>2, WasPrintedStays DEF TapPrinted, Aside, Tapping, WasPrinted, Reached

LEMMA PrintedStep ==
  ASSUME WritingInv, HistoryTip, PrintedInv, [Next]_vars
  PROVE  PrintedInv'
<1>1. [RegistryNext]_registryVars /\ TypeOK /\ RestTypeOK
  BY WritingStep, TypeParts DEF WritingInv
<1>2. ASSUME NEW c \in Codes, nfcUid'[c] # NoUid PROVE WasPrinted(c)'
  <2>1. CASE Bound(c)
    BY <1>1, <2>1, WasPrintedStays DEF PrintedInv
  <2>2. CASE ~Bound(c)
    <3>1. PICK w \in Writers : pc[w] = "bind" /\ SetNfc(sent[w].code, uid[w], sent[w].rebind)
      BY <1>2, <2>2, WriterWrites DEF Bound
    <3>2. c = sent[w].code
      BY <1>1, <1>2, <2>2, <3>1 DEF SetNfc, BindFreeTag, MoveTag, OtherHolders, Bound, TypeOK
    <3> QED BY <1>1, <3>1, <3>2, WasPrintedStays DEF PrintedInv, TapPrinted
  <2> QED BY <2>1, <2>2
<1>3. ASSUME NEW u \in Uids, text'[u] # NoText PROVE WasPrinted(text[u].code)'
  <2>1. CASE text'[u] = text[u]
    <3>1. text[u].code \in Codes /\ WasPrinted(text[u].code)
      BY <1>1, <1>3, <2>1 DEF PrintedInv, RestTypeOK, Tokens
    <3> DEFINE c == text[u].code
    <3>2. \E i \in 1..Len(history'[c]) : history'[c][i].to \in {"printed"}
      BY <1>1, <3>1, ReachedStays DEF WasPrinted
    <3> QED BY <2>1, <3>2 DEF WasPrinted, Reached
  <2>2. ASSUME NEW w \in Writers, Tapping(w), text'[u] = payload[w]
        PROVE  WasPrinted(text[u].code)'
    <3>1. payload[w].code \in Codes /\ WasPrinted(payload[w].code)
      BY <2>2 DEF WritingInv, TapInv, Tokens, PrintedInv, TapPrinted
    <3> DEFINE c == payload[w].code
    <3>2. \E i \in 1..Len(history'[c]) : history'[c][i].to \in {"printed"}
      BY <1>1, <3>1, ReachedStays DEF WasPrinted
    <3> QED BY <2>2, <3>2 DEF WasPrinted, Reached
  <2> QED BY <1>3, <2>1, <2>2, WriterWrites
<1>4. ASSUME NEW w \in Writers PROVE TapPrinted(w)'
  <2>1. CASE \E v \in Writers : Writer(v)
    <3>1. PICK v \in Writers : Writer(v)
      BY <2>1
    <3>2. CASE v = w
      BY <1>1, <3>1, <3>2, TapPrintedStep
    <3>3. CASE v # w
      BY <1>1, <3>1, <3>3, WriterTapped, TapPrintedStays DEF Tapped
    <3> QED BY <3>2, <3>3
  <2>2. CASE \/ GeneratesSecret \/ BacksUpSecret \/ RestoresSecret
             \/ Patch \/ Generate \/ UNCHANGED vars
    BY <1>1, <2>2, EnvironmentTapped, TapPrintedStays
  <2> QED BY <2>1, <2>2 DEF Next
<1> QED BY <1>2, <1>3, <1>4 DEF PrintedInv, Bound

\* A tag that verifies names a lock that was reported printed.
THEOREM VerifiedTagsWerePrinted == Spec => []VerifiedWasPrinted
<1>1. Init => PrintedInv
  BY DEF Init, RegistryInit, PrintedInv, TapPrinted, Tapping, Bound
<1>2. AuditTrail => HistoryTip
  BY DEF AuditTrail
<1>3. Spec => []AuditTrail
  BY WritersAreRegistryClients, HistoryIsHonest, PTL
<1>4. PrintedInv => VerifiedWasPrinted
  BY DEF PrintedInv, VerifiedWasPrinted, Verifies, WasPrinted
<1> QED
  BY <1>1, <1>2, <1>3, <1>4, PrintedStep, WritingInvariant, PTL DEF Spec
------------------------------------------------------------------------------
(***************************************************************************)
(* A calm tap.  As long as nothing has come between its steps, its token   *)
(* is of the lock that is open and of the secret in force, then it is on   *)
(* the tag, and then the commit is for the same lock.                      *)
(***************************************************************************)
CalmTap(w) ==
  calm[w] /\ Tapping(w) =>
    /\ payload[w].code = shown[w]
    /\ payload[w].secret = EffectiveSecret
    /\ pc[w] \in {"commit", "bind"} => text[uid[w]] = payload[w]
    /\ pc[w] = "bind" => sent[w].code = payload[w].code

CalmInv == \A w \in Writers : CalmTap(w)

\* What is done beside a tap under way either leaves what it goes by or
\* disturbs it.
LEMMA BesideTap ==
  ASSUME WritingInv, NEW w \in Writers, Tapping(w), calm'[w], Aside(w),
         \/ \E v \in Writers \ {w} : Writer(v)
         \/ GeneratesSecret \/ BacksUpSecret \/ RestoresSecret
         \/ Patch \/ Generate \/ UNCHANGED vars
  PROVE  calm[w] /\ EffectiveSecret' = EffectiveSecret /\ text'[uid[w]] = text[uid[w]]
<1>1. RestTypeOK /\ TapInv(w) /\ ~Free(w)
  BY TypeParts DEF WritingInv, Tapping, Free
<1>2. ASSUME NEW v \in Writers \ {w}, Writes(v) \/ WriteFails(v)
      PROVE  calm[w] /\ text'[uid[w]] = text[uid[w]] /\ UNCHANGED secretVars
  <2>1. calm[w] /\ uid[w] # uid[v]
    BY <1>1, <1>2 DEF Writes, WriteFails, DisturbsTaps, Disturbs
  <2> QED
    BY <1>1, <1>2, <2>1 DEF Writes, WriteFails, RestTypeOK, TapInv
<1>3. ASSUME NEW v \in Writers \ {w},
             \/ \E c \in Codes : Opens(v, c)
             \/ \E u \in Uids : Prepares(v, u)
             \/ CommitReads(v) \/ Binds(v) \/ BindsUnheard(v) \/ CommitFails(v)
      PROVE  calm[w] /\ UNCHANGED <<text, secretVars>>
  BY <1>1, <1>3 DEF Opens, Prepares, CommitReads, Binds, BindsUnheard, CommitFails,
                    Disturbs, RestTypeOK
<1>4. ASSUME \E v \in Writers \ {w} : TicksRebind(v)
      PROVE  calm[w] /\ UNCHANGED <<text, secretVars>>
  BY <1>4 DEF TicksRebind
<1>5. ~(GeneratesSecret \/ RestoresSecret)
  BY <1>1 DEF GeneratesSecret, RestoresSecret, SetsSecret, Disturbs
<1>6. ASSUME BacksUpSecret \/ Patch \/ Generate \/ UNCHANGED vars
      PROVE  calm[w] /\ UNCHANGED <<text, dbSecret>>
  BY <1>6 DEF BacksUpSecret, Patch, Generate, vars, secretVars
<1> QED
  BY <1>2, <1>3, <1>4, <1>5, <1>6 DEF Writer, EffectiveSecret, secretVars

LEMMA CalmTapStays ==
  ASSUME WritingInv, CalmInv, NEW w \in Writers, Aside(w),
         \/ \E v \in Writers \ {w} : Writer(v)
         \/ GeneratesSecret \/ BacksUpSecret \/ RestoresSecret
         \/ Patch \/ Generate \/ UNCHANGED vars
  PROVE  CalmTap(w)'
<1> SUFFICES ASSUME calm'[w], Tapping(w)'
             PROVE  CalmTap(w)'
  BY DEF CalmTap
<1>1. Tapping(w)
  BY DEF Tapping, Aside
<1>2. calm[w] /\ EffectiveSecret' = EffectiveSecret /\ text'[uid[w]] = text[uid[w]]
  BY <1>1, BesideTap
<1> QED BY <1>1, <1>2 DEF CalmInv, CalmTap, Aside

LEMMA CalmTapStep ==
  ASSUME WritingInv, CalmInv, NEW w \in Writers, Writer(w)
  PROVE  CalmTap(w)'
<1>1. RestTypeOK /\ TapInv(w) /\ CalmTap(w)
  BY TypeParts DEF WritingInv, CalmInv
<1>2. ASSUME NEW c \in Codes, Opens(w, c) PROVE CalmTap(w)'
  BY <1>1, <1>2 DEF Opens, Disturbs, Free, CalmTap, Tapping, tapVars
<1>3. CASE TicksRebind(w)
  BY <1>1, <1>3 DEF TicksRebind, CalmTap, Tapping, EffectiveSecret, secretVars, tapVars
<1>4. ASSUME NEW u \in Uids, Prepares(w, u) PROVE CalmTap(w)'
  BY <1>1, <1>4 DEF Prepares, RestTypeOK, CalmTap, EffectiveSecret, secretVars, dialogVars
<1>5. CASE Writes(w)
  <2>1. calm'[w] => calm[w]
    BY <1>5 DEF Writes, DisturbsTaps, Disturbs
  <2>2. pc[w] = "write" /\ pc'[w] = "commit" /\ text'[uid[w]] = payload[w]
    BY <1>1, <1>5 DEF Writes, Step, RestTypeOK, TapInv, Tapping
  <2> QED
    BY <1>1, <1>5, <2>1, <2>2
       DEF Writes, CalmTap, Tapping, EffectiveSecret, secretVars, dialogVars
<1>6. CASE CommitReads(w)
  <2>1. pc[w] = "commit" /\ pc'[w] = "bind" /\ sent'[w].code = shown[w]
    BY <1>1, <1>6 DEF CommitReads, Step, RestTypeOK
  <2> QED
    BY <1>1, <1>6, <2>1
       DEF CommitReads, CalmTap, Tapping, EffectiveSecret, secretVars, dialogVars
<1>7. CASE WriteFails(w) \/ CommitFails(w) \/ Binds(w) \/ BindsUnheard(w)
  BY <1>1, <1>7
     DEF WriteFails, CommitFails, Binds, BindsUnheard, Step, RestTypeOK, CalmTap, Tapping
<1> QED BY <1>2, <1>3, <1>4, <1>5, <1>6, <1>7 DEF Writer

LEMMA CalmStep ==
  ASSUME WritingInv, CalmInv, [Next]_vars
  PROVE  CalmInv'
<1> SUFFICES ASSUME NEW w \in Writers PROVE CalmTap(w)'
  BY DEF CalmInv
<1>1. CASE Writer(w)
  BY <1>1, CalmTapStep
<1>2. ASSUME NEW v \in Writers \ {w}, Writer(v) PROVE CalmTap(w)'
  BY <1>2, WriterTapped, CalmTapStays DEF Tapped
<1>3. CASE \/ GeneratesSecret \/ BacksUpSecret \/ RestoresSecret
           \/ Patch \/ Generate \/ UNCHANGED vars
  BY <1>3, EnvironmentTapped, CalmTapStays
<1> QED BY <1>1, <1>2, <1>3 DEF Next

\* The step with which a writer says that the tag is written and bound.
LEMMA SayingBinds ==
  ASSUME WritingInv, [Next]_vars, NEW w \in Writers, pc[w] = "bind", pc'[w] = "said"
  PROVE  Binds(w)
<1>1. ASSUME NEW v \in Writers, Writer(v) PROVE v = w
  <2>1. v # w => Aside(w)
    BY <1>1, WriterTapped DEF Tapped
  <2> QED BY <2>1 DEF Aside
<1>2. ~(\/ GeneratesSecret \/ BacksUpSecret \/ RestoresSecret
        \/ Patch \/ Generate \/ UNCHANGED vars)
  BY EnvironmentTapped DEF Aside
<1>3. Writer(w)
  BY <1>1, <1>2 DEF Next
<1> QED
  BY <1>3 DEF Writer, Opens, TicksRebind, Prepares, Free, Writes, WriteFails, CommitReads,
              BindsUnheard, CommitFails, Step, tapVars, WritingInv, WritingTypeOK

\* A tap nobody came between ends with a tag that verifies for its lock.
THEOREM CalmTapsVerify == Spec => CalmTapVerifies
<1>1. Init => CalmInv
  BY DEF Init, CalmInv, CalmTap, Tapping
<1>2. ASSUME WritingInv, WritingInv', CalmInv, [Next]_vars,
             NEW w \in Writers, pc[w] = "bind", pc'[w] = "said", calm[w]
      PROVE  /\ text[uid[w]] # NoText /\ text[uid[w]].code = sent[w].code
             /\ Verifies(uid[w])' \/ status'[sent[w].code] \in TERMINAL
  <2>1. RestTypeOK /\ TypeOK /\ TapInv(w) /\ CalmTap(w) /\ Tapping(w)
    BY <1>2, TypeParts DEF WritingInv, CalmInv, Tapping
  <2> DEFINE c == sent[w].code
             u == uid[w]
  <2>2. /\ text[u] = payload[w] /\ payload[w].code = c /\ payload[w].uid = u
        /\ payload[w].secret = EffectiveSecret /\ c \in Codes /\ u \in Uids
    BY <1>2, <2>1 DEF CalmTap, TapInv, Commits
  <2>3. SetNfc(c, u, sent[w].rebind) /\ text' = text /\ uid' = uid
        /\ EffectiveSecret' = EffectiveSecret
    BY <1>2, SayingBinds DEF Binds, EffectiveSecret, secretVars
  <2>4. nfcUid'[c] = u /\ Present(c)
    BY <2>1, <2>2, <2>3 DEF SetNfc, BindFreeTag, MoveTag, OtherHolders, TypeOK
  <2>5. status'[c] # Absent
    BY <1>2, <2>1, <2>2, <2>4, WritingStep, LocksStay
  <2>6. text[u] # NoText
    BY <2>1, <2>2 DEF TapInv
  <2> QED
    BY <2>2, <2>3, <2>4, <2>5, <2>6 DEF Verifies, Present, TERMINAL
<1>3. WritingInv /\ WritingInv' /\ CalmInv /\ [Next]_vars =>
        [\A w \in Writers :
           pc[w] = "bind" /\ pc'[w] = "said" /\ calm[w]
             => /\ text[uid[w]] # NoText /\ text[uid[w]].code = sent[w].code
                /\ Verifies(uid[w])' \/ status'[sent[w].code] \in TERMINAL]_vars
  BY <1>2
<1> QED
  BY <1>1, <1>3, CalmStep, WritingInvariant, PTL DEF Spec, CalmTapVerifies
==============================================================================
