----------------------------- MODULE UpdaterProofs ---------------------------
(***************************************************************************)
(* Proofs about the update exchange, for any number of versions, failures  *)
(* and watchers.  Types hold whatever overlaps.  The other two properties  *)
(* are proved for behaviours in which runs of the watcher do not overlap:  *)
(* the sidecar never starts two, and cron does not as long as each run     *)
(* ends before the next one gets past the lock.                            *)
(***************************************************************************)
EXTENDS Updater, TLAPS

OneAtATime ==
  \A v, w \in Watchers : pc[v] # "idle" /\ pc[w] # "idle" => v = w

HasTag == {"status", "look", "apply"} \cup InApply

TypeInv ==
  /\ UpdaterTypeOK
  /\ \A w \in Watchers : pc[w] \in HasTag => tag[w] \in Versions

\* The version the dashboard shows, status.json, the tag found, the clone and
\* origin: each is as new as the one before.
Ordered ==
  /\ shown <= latest /\ wanted <= latest
  /\ latest <= fetched /\ fetched <= released
  /\ \A w \in Watchers :
       /\ pc[w] = "status" => latest <= tag[w] /\ tag[w] <= fetched
       /\ pc[w] \in {"look", "apply", "drop"} => tag[w] = latest

\* What an apply knows at each of its steps about the container it replaced.
Applies ==
  /\ OkResultNamesWhatRuns
  /\ \A w \in Watchers :
       /\ pc[w] \in InApply => applying
       /\ pc[w] = "result" /\ built[w] => running = checkout
       /\ pc[w] = "clear" /\ lastResult.ok => running = lastResult.version

UpdaterInv == TypeInv /\ Ordered /\ Applies
------------------------------------------------------------------------------
LEMMA InitTypes == Init => TypeInv
<1> SUFFICES ASSUME Init PROVE TypeInv
  OBVIOUS
<1>1. 1 \in Versions /\ failures \in 0..MaxFailures
  BY UpdaterAssumption DEF Init, Versions
<1>2. UpdaterTypeOK
  BY <1>1 DEF Init, UpdaterTypeOK, Labels
<1> QED
  BY <1>2 DEF Init, TypeInv, HasTag, InApply

\* Every step keeps the types; a run past its fetch has a tag.
LEMMA NextTypes == TypeInv /\ [Next]_vars => TypeInv'
<1> USE UpdaterAssumption DEF TypeInv, UpdaterTypeOK, Versions, Labels, InApply, HasTag
<1> SUFFICES ASSUME TypeInv, [Next]_vars PROVE TypeInv'
  OBVIOUS
<1>1. CASE UNCHANGED vars
  BY <1>1 DEF vars, gitVars, statusVars, runVars, apiVars
<1>2. CASE Release \/ AsksUpdate \/ FilesRequest \/ LockAges
  <2> USE DEF gitVars, statusVars, runVars, apiVars
  <2>1. CASE Release
    BY <2>1 DEF Release
  <2>2. CASE AsksUpdate \/ FilesRequest \/ LockAges
    BY <2>2 DEF AsksUpdate, FilesRequest, LockAges
  <2> QED
    BY <1>2, <2>1, <2>2
<1>3. ASSUME NEW w \in Watchers, Run(w) \/ Raises(w) \/ Dies(w) PROVE TypeInv'
  <2> USE DEF Step, gitVars, statusVars, runVars, apiVars
  <2>1. CASE FindsNoLock(w) \/ WritesLock(w) \/ FindsRequest(w) \/ BeginsApply(w)
             \/ DropsRequest(w) \/ ClearsApplying(w) \/ Leaves(w)
    BY <2>1 DEF FindsNoLock, WritesLock, FindsRequest, BeginsApply, DropsRequest,
      ClearsApplying, Leaves
  <2>2. CASE FindsTag(w)
    BY <2>2 DEF FindsTag, GitFetch
  <2>3. CASE WritesStatus(w)
    BY <2>3 DEF WritesStatus
  <2>4. CASE ChecksOut(w)
    BY <2>4 DEF ChecksOut, GitFetch
  <2>5. CASE Builds(w)
    BY <2>5 DEF Builds
  <2>6. CASE WritesResult(w)
    BY <2>6 DEF WritesResult, Results
  <2>7. CASE Raises(w) \/ Dies(w)
    BY <2>7 DEF Raises, Dies
  <2> QED
    BY <1>3, <2>1, <2>2, <2>3, <2>4, <2>5, <2>6, <2>7 DEF Run
<1> QED
  BY <1>1, <1>2, <1>3 DEF Next

(***************************************************************************)
(* Files, labels and results keep their types, however runs overlap: a run *)
(* never checks out or reports a tag it has not found.                     *)
(***************************************************************************)
THEOREM UpdaterTypes == Spec => []UpdaterTypeOK
<1>1. TypeInv => UpdaterTypeOK
  BY DEF TypeInv
<1> QED
  BY InitTypes, NextTypes, <1>1, PTL DEF Spec
------------------------------------------------------------------------------
LEMMA InitOrdered == Init => Ordered /\ Applies
BY DEF Init, Ordered, Applies, OkResultNamesWhatRuns, NoResult, InApply

LEMMA NextOrdered ==
  TypeInv /\ Ordered /\ OneAtATime /\ [Next]_vars => Ordered'
<1> USE UpdaterAssumption DEF Ordered, TypeInv, UpdaterTypeOK, Versions
<1> SUFFICES ASSUME TypeInv, Ordered, OneAtATime, [Next]_vars PROVE Ordered'
  OBVIOUS
<1>1. CASE UNCHANGED vars
  BY <1>1 DEF vars, gitVars, statusVars, runVars, apiVars
<1>2. CASE Release \/ AsksUpdate \/ FilesRequest \/ LockAges
  BY <1>2 DEF Release, AsksUpdate, FilesRequest, LockAges, gitVars, statusVars, runVars, apiVars
<1>3. ASSUME NEW w \in Watchers, Run(w) \/ Raises(w) \/ Dies(w) PROVE Ordered'
  <2> USE DEF Step, gitVars, statusVars, runVars, apiVars
  <2>1. CASE FindsNoLock(w) \/ WritesLock(w) \/ FindsRequest(w) \/ BeginsApply(w)
             \/ DropsRequest(w) \/ ClearsApplying(w) \/ Leaves(w) \/ WritesResult(w)
    BY <2>1 DEF FindsNoLock, WritesLock, FindsRequest, BeginsApply, DropsRequest,
      ClearsApplying, Leaves, WritesResult
  <2>2. CASE FindsTag(w)
    BY <2>2 DEF FindsTag, GitFetch
  \* The others are idle, so none has found its tag under the old latest.
  <2>3. CASE WritesStatus(w)
    <3>1. \A v \in Watchers : v # w => pc'[v] = "idle"
      BY <2>3 DEF WritesStatus, OneAtATime
    <3> QED
      BY <2>3, <3>1 DEF WritesStatus
  <2>4. CASE ChecksOut(w)
    BY <2>4 DEF ChecksOut, GitFetch
  <2>5. CASE Builds(w)
    BY <2>5 DEF Builds
  <2>6. CASE Raises(w) \/ Dies(w)
    BY <2>6 DEF Raises, Dies
  <2> QED
    BY <1>3, <2>1, <2>2, <2>3, <2>4, <2>5, <2>6 DEF Run
<1> QED
  BY <1>1, <1>2, <1>3 DEF Next

LEMMA NextApplies ==
  TypeInv /\ Applies /\ OneAtATime /\ [Next]_vars => Applies'
<1> USE DEF Applies, OkResultNamesWhatRuns, TypeInv, UpdaterTypeOK, InApply
<1> SUFFICES ASSUME TypeInv, Applies, OneAtATime, [Next]_vars PROVE Applies'
  OBVIOUS
<1>1. CASE UNCHANGED vars
  BY <1>1 DEF vars, gitVars, statusVars, runVars, apiVars
<1>2. CASE Release \/ AsksUpdate \/ FilesRequest \/ LockAges
  BY <1>2 DEF Release, AsksUpdate, FilesRequest, LockAges, gitVars, statusVars, runVars, apiVars
<1>3. ASSUME NEW w \in Watchers, Run(w) \/ Raises(w) \/ Dies(w) PROVE Applies'
  <2> USE DEF Step, gitVars, statusVars, runVars, apiVars
  <2>0. ASSUME pc[w] # "idle" PROVE \A v \in Watchers : v # w => pc[v] = "idle"
    BY <2>0 DEF OneAtATime
  <2>1. CASE FindsNoLock(w) \/ WritesLock(w) \/ FindsTag(w) \/ WritesStatus(w)
             \/ FindsRequest(w) \/ BeginsApply(w) \/ DropsRequest(w) \/ Leaves(w)
    BY <2>1 DEF FindsNoLock, WritesLock, FindsTag, WritesStatus, FindsRequest, BeginsApply,
      DropsRequest, Leaves
  <2>2. CASE ChecksOut(w)
    BY <2>2, <2>0 DEF ChecksOut
  <2>3. CASE Builds(w)
    BY <2>3, <2>0 DEF Builds
  <2>4. CASE WritesResult(w)
    BY <2>4, <2>0 DEF WritesResult
  <2>5. CASE ClearsApplying(w)
    BY <2>5, <2>0 DEF ClearsApplying
  <2>6. CASE Raises(w) \/ Dies(w)
    BY <2>6 DEF Raises, Dies
  <2> QED
    BY <1>3, <2>1, <2>2, <2>3, <2>4, <2>5, <2>6 DEF Run
<1> QED
  BY <1>1, <1>2, <1>3 DEF Next

\* The invariant of runs that do not overlap.
LEMMA UpdaterInvariant == Spec /\ []OneAtATime => []UpdaterInv
<1>1. Init => UpdaterInv
  BY InitTypes, InitOrdered DEF UpdaterInv
<1>2. UpdaterInv /\ OneAtATime /\ [Next]_vars => UpdaterInv'
  BY NextTypes, NextOrdered, NextApplies DEF UpdaterInv
<1> QED
  BY <1>1, <1>2, PTL DEF Spec

(***************************************************************************)
(* While runs do not overlap, a result that says ok names the version that *)
(* runs, though neither git command's return code is looked at.            *)
(***************************************************************************)
THEOREM OkResultsAreTrue == Spec /\ []OneAtATime => []OkResultNamesWhatRuns
<1>1. UpdaterInv => OkResultNamesWhatRuns
  BY DEF UpdaterInv, Applies
<1> QED
  BY UpdaterInvariant, <1>1, PTL

(***************************************************************************)
(* While runs do not overlap, a request is taken up with at least the      *)
(* version that was shown when it was made, though the tag was chosen      *)
(* before the request was looked for.                                      *)
(***************************************************************************)
THEOREM RequestsGetWhatTheySaw == Spec /\ []OneAtATime => AppliedIsAtLeastShown
<1> DEFINE Takes == request /\ ~request' => \E w \in Watchers : pc[w] = "drop" /\ tag[w] >= wanted
<1>1. UpdaterInv /\ [Next]_vars => [Takes]_vars
  <2> SUFFICES ASSUME UpdaterInv, Next, request, ~request'
               PROVE \E w \in Watchers : pc[w] = "drop" /\ tag[w] >= wanted
    OBVIOUS
  <2>1. PICK w \in Watchers : DropsRequest(w)
    BY DEF Next, Run, Release, AsksUpdate, FilesRequest, LockAges, FindsNoLock, WritesLock, FindsTag,
      WritesStatus, FindsRequest, BeginsApply, ChecksOut, Builds, WritesResult, ClearsApplying,
      Leaves, Raises, Dies
  <2>2. pc[w] = "drop" /\ tag[w] = latest /\ wanted <= latest
    BY <2>1 DEF DropsRequest, Step, UpdaterInv, Ordered
  <2>3. latest \in Nat /\ wanted \in Nat
    BY DEF UpdaterInv, TypeInv, UpdaterTypeOK, Versions
  <2> QED
    BY <2>2, <2>3
<1> QED
  BY UpdaterInvariant, <1>1, PTL DEF Spec, AppliedIsAtLeastShown
==============================================================================
