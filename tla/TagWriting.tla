------------------------------ MODULE TagWriting -----------------------------
(***************************************************************************)
(* How a tag comes to carry a lock's signed token.  A writer - the         *)
(* dashboard's NFC dialog, or the app - has one lock open, reads the UID   *)
(* of a tag held to it, has the server sign code and UID (nfc/prepare),    *)
(* writes the token on the tag, and has the UID bound (nfc/commit).  The   *)
(* code is not handed from step to step: prepare and commit each take the  *)
(* one that is open at that moment.  Beside the writers, PATCH, the        *)
(* renderer, and the holder of the full key who changes the secret.        *)
(***************************************************************************)
EXTENDS Registry

CONSTANTS
  Writers,       \* dashboards and apps
  NoCode, NoText,
  EnvSecret,     \* AIRLOCK_NFC_SECRET, 0 if it is not set
  MaxSecrets     \* bound: secrets ever generated

\* What is signed, and with which secret.
Tokens == [code: Codes, uid: Uids, secret: Nat]

ASSUME WritingAssumption ==
  /\ NoText \notin Tokens
  /\ NoCode \notin Codes
  /\ EnvSecret \in Nat
  /\ MaxSecrets \in Nat
  /\ MaxBatch > 0

VARIABLES
  text,          \* the token on each tag: what was signed, and with which secret
  dbSecret,      \* app_kv nfc_secret, 0 for none
  generated,     \* secrets generated so far
  backups,       \* the secrets there are backups of
  shown,         \* the lock each writer has open
  rebindBox,     \* its checkbox
  pc,            \* where its tap stands
  uid,           \* the UID of the tag it has read
  payload,       \* the token the server gave it
  sent,          \* the lock and the rebind flag of its commit
  calm           \* history: nothing has come between the steps of its tap

secretVars == <<dbSecret, generated, backups>>
dialogVars == <<shown, rebindBox>>
tapVars    == <<pc, uid, payload, sent>>
vars == <<registryVars, text, secretVars, dialogVars, tapVars, calm>>

Commits == [code: Codes, rebind: BOOLEAN]

NoCommit == [code |-> NoCode, rebind |-> FALSE]

Init ==
  /\ RegistryInit
  /\ text = [u \in Uids |-> NoText]
  /\ dbSecret = 0 /\ generated = 0 /\ backups = {}
  /\ shown     = [w \in Writers |-> NoCode]
  /\ rebindBox = [w \in Writers |-> FALSE]
  /\ pc        = [w \in Writers |-> "idle"]
  /\ uid       = [w \in Writers |-> NoUid]
  /\ payload   = [w \in Writers |-> NoText]
  /\ sent      = [w \in Writers |-> NoCommit]
  /\ calm      = [w \in Writers |-> TRUE]

Step(w, from, to) == pc[w] = from /\ pc' = [pc EXCEPT ![w] = to]

\* A tap is over, or none has begun; after one that succeeded the writer
\* has said so.
Free(w) == pc[w] \in {"idle", "said"}

\* What a tap was about is gone with it.
Forgets(w) ==
  /\ uid' = [uid EXCEPT ![w] = NoUid]
  /\ payload' = [payload EXCEPT ![w] = NoText]
  /\ sent' = [sent EXCEPT ![w] = NoCommit]

Disturbs(W) == calm' = [w \in Writers |-> calm[w] /\ (Free(w) \/ w \notin W)]

DisturbsTaps(u, w) == Disturbs({v \in Writers \ {w} : uid[v] = u})
------------------------------------------------------------------------------
(***************************************************************************)
(* The secret.                                                             *)
(***************************************************************************)

\* Environment before database before the default, which 0 stands for.
EffectiveSecret == IF EnvSecret # 0 THEN EnvSecret ELSE dbSecret

SetsSecret(s) ==
  /\ EnvSecret = 0
  /\ dbSecret' = s
  /\ Disturbs(Writers)
  /\ UNCHANGED <<registryVars, text, dialogVars, tapVars>>

GeneratesSecret ==
  /\ generated < MaxSecrets
  /\ generated' = generated + 1
  /\ SetsSecret(generated + 1)
  /\ UNCHANGED backups

\* Mutant: the default is exported like any other.
BacksUpAny ==
  /\ backups' = backups \cup {EffectiveSecret}
  /\ UNCHANGED <<registryVars, text, dbSecret, generated, dialogVars, tapVars, calm>>

\* A default secret is not exported.
BacksUpSecret ==
  /\ EffectiveSecret # 0
  /\ backups' = backups \cup {EffectiveSecret}
  /\ UNCHANGED <<registryVars, text, dbSecret, generated, dialogVars, tapVars, calm>>

RestoresSecret ==
  /\ \E s \in backups : SetsSecret(s)
  /\ UNCHANGED <<generated, backups>>
------------------------------------------------------------------------------
(***************************************************************************)
(* A writer.                                                               *)
(***************************************************************************)

\* Another lock is opened, be a tap under way or not.
Opens(w, c) ==
  /\ Present(c)
  /\ shown' = [shown EXCEPT ![w] = c]
  /\ rebindBox' = [rebindBox EXCEPT ![w] = FALSE]
  /\ Disturbs({w})
  /\ UNCHANGED <<registryVars, text, secretVars, tapVars>>

TicksRebind(w) ==
  /\ shown[w] # NoCode
  /\ rebindBox' = [rebindBox EXCEPT ![w] = TRUE]
  /\ UNCHANGED <<registryVars, text, secretVars, shown, tapVars, calm>>

\* _require_writable_status.
Writable(c) == Bound(c) \/ status[c] = "printed"

\* Mutant: every lock there is can be prepared.
PreparesAny(w, u) ==
  /\ Free(w)
  /\ shown[w] # NoCode
  /\ pc' = [pc EXCEPT ![w] = "write"]
  /\ uid' = [uid EXCEPT ![w] = u]
  /\ payload' = [payload EXCEPT ![w] = [code |-> shown[w], uid |-> u, secret |-> EffectiveSecret]]
  /\ sent' = [sent EXCEPT ![w] = NoCommit]
  /\ calm' = [calm EXCEPT ![w] = TRUE]
  /\ UNCHANGED <<registryVars, text, secretVars, dialogVars>>

\* A tag is held to the device, which goes on reading after a tap: it need
\* not have been asked for this one.  The server signs for the lock that is
\* open.  (If it refuses, the tap has changed nothing.)
Prepares(w, u) ==
  /\ Free(w)
  /\ shown[w] # NoCode
  /\ Writable(shown[w])
  /\ pc' = [pc EXCEPT ![w] = "write"]
  /\ uid' = [uid EXCEPT ![w] = u]
  /\ payload' = [payload EXCEPT ![w] = [code |-> shown[w], uid |-> u, secret |-> EffectiveSecret]]
  /\ sent' = [sent EXCEPT ![w] = NoCommit]
  /\ calm' = [calm EXCEPT ![w] = TRUE]
  /\ UNCHANGED <<registryVars, text, secretVars, dialogVars>>

\* Mutant: a write that fails is not noticed.
WritesUnnoticed(w) ==
  /\ Step(w, "write", "commit")
  /\ text' \in {text, [text EXCEPT ![uid[w]] = payload[w]]}
  /\ DisturbsTaps(uid[w], w)
  /\ UNCHANGED <<registryVars, secretVars, dialogVars, uid, payload, sent>>

Writes(w) ==
  /\ Step(w, "write", "commit")
  /\ text' = [text EXCEPT ![uid[w]] = payload[w]]
  /\ DisturbsTaps(uid[w], w)
  /\ UNCHANGED <<registryVars, secretVars, dialogVars, uid, payload, sent>>

\* The tag was taken away, with the old token on it or none that is whole.
WriteFails(w) ==
  /\ Step(w, "write", "idle")
  /\ Forgets(w)
  /\ text' \in {text, [text EXCEPT ![uid[w]] = NoText]}
  /\ DisturbsTaps(uid[w], w)
  /\ UNCHANGED <<registryVars, secretVars, dialogVars>>

\* nfc_commit for the lock that is open now, and the row it reads.
CommitReads(w) ==
  /\ Step(w, "commit", "bind")
  /\ Writable(shown[w])
  /\ sent' = [sent EXCEPT ![w] = [code |-> shown[w], rebind |-> rebindBox[w]]]
  /\ UNCHANGED <<registryVars, text, secretVars, dialogVars, uid, payload, calm>>

\* set_nfc, and the answer.
Binds(w) ==
  /\ Step(w, "bind", "said")
  /\ SetNfc(sent[w].code, uid[w], sent[w].rebind)
  /\ UNCHANGED <<text, secretVars, dialogVars, uid, payload, sent, calm>>

\* set_nfc, and the answer is lost on its way.
BindsUnheard(w) ==
  /\ Step(w, "bind", "idle")
  /\ SetNfc(sent[w].code, uid[w], sent[w].rebind)
  /\ Forgets(w)
  /\ UNCHANGED <<text, secretVars, dialogVars, calm>>

\* The commit is refused, or does not reach the server; the tag stays as
\* it was written.
CommitFails(w) ==
  /\ pc[w] \in {"commit", "bind"}
  /\ pc' = [pc EXCEPT ![w] = "idle"]
  /\ Forgets(w)
  /\ UNCHANGED <<registryVars, text, secretVars, dialogVars, calm>>
------------------------------------------------------------------------------
Patch ==
  /\ \E c \in Codes, s \in STATUSES, force \in Forces : UpdateStatus(c, s, "api", force)
  /\ UNCHANGED <<text, secretVars, dialogVars, tapVars, calm>>

\* The generate requests, as the registry sees them.
Generate ==
  /\ \E b \in BatchIds, c \in Codes :
       CreateBatch(b, 1, NoKey) \/ AddAirlock(c, b) \/ MarkGenerated(c)
  /\ UNCHANGED <<text, secretVars, dialogVars, tapVars, calm>>

Writer(w) ==
  \/ \E c \in Codes : Opens(w, c)
  \/ TicksRebind(w)
  \/ \E u \in Uids : Prepares(w, u)
  \/ Writes(w) \/ WriteFails(w) \/ CommitReads(w)
  \/ Binds(w) \/ BindsUnheard(w) \/ CommitFails(w)

Next ==
  \/ \E w \in Writers : Writer(w)
  \/ GeneratesSecret \/ BacksUpSecret \/ RestoresSecret
  \/ Patch \/ Generate

Spec == Init /\ [][Next]_vars
------------------------------------------------------------------------------
WritingTypeOK ==
  /\ TypeOK
  /\ text \in [Uids -> Tokens \cup {NoText}]
  /\ dbSecret \in 0..generated /\ generated \in 0..MaxSecrets
  /\ backups \subseteq Nat \ {0}
  /\ shown \in [Writers -> Codes \cup {NoCode}]
  /\ rebindBox \in [Writers -> BOOLEAN]
  /\ pc \in [Writers -> {"idle", "write", "commit", "bind", "said"}]
  /\ uid \in [Writers -> Uids \cup {NoUid}]
  /\ payload \in [Writers -> Tokens \cup {NoText}]
  /\ sent \in [Writers -> Commits \cup {NoCommit}]
  /\ calm \in [Writers -> BOOLEAN]

\* nfc_verify, asked by whoever reads tag u: its own UID, and the token on
\* it, compared with what is signed now for the code the token names.
Verifies(u) ==
  /\ text[u] # NoText
  /\ Present(text[u].code)
  /\ text[u].uid = u /\ text[u].secret = EffectiveSecret
  /\ nfcUid[text[u].code] \in {NoUid, u}
  /\ status[text[u].code] \notin {"retired", "voided"}

(***************************************************************************)
(* A tag that verifies names a lock that was reported printed, though      *)
(* verify itself asks only that it is not retired or voided, and accepts   *)
(* a lock without a tag.                                                   *)
(***************************************************************************)
VerifiedWasPrinted ==
  \A u \in Uids : Verifies(u) => Reached(text[u].code, {"printed"})

(***************************************************************************)
(* When a writer says that a tag is written and bound, and neither was     *)
(* another lock opened on it, nor the secret changed, nor the tag written  *)
(* by another writer since it was held to the device, then the tag         *)
(* verifies for that lock, whatever PATCH and other commits did, or the    *)
(* lock has been taken out of service meanwhile.                           *)
(***************************************************************************)
CalmTapVerifies ==
  [][\A w \in Writers :
       pc[w] = "bind" /\ pc'[w] = "said" /\ calm[w]
         => /\ text[uid[w]] # NoText /\ text[uid[w]].code = sent[w].code
            /\ Verifies(uid[w])' \/ status'[sent[w].code] \in TERMINAL]_vars

(***************************************************************************)
(* docs/NFC.md: one tap reads the UID, fetches the signed payload, writes  *)
(* it and binds the UID; app.js then says "written and bound".  So the     *)
(* lock bound is the lock that was written on the tag.                     *)
(***************************************************************************)
TapBindsWhatItWrote ==
  \A w \in Writers : pc[w] = "said" => payload[w].code = sent[w].code
==============================================================================
