-------------------------------- MODULE Updater ------------------------------
(***************************************************************************)
(* The update exchange.  The container (app/updates.py) and the watcher    *)
(* (scripts/nas_update_watcher.py) share nothing but the files of the      *)
(* control directory: update.request, update.applying, status.json and     *)
(* .watcher.lock.  Cron starts the watcher every minute, whether or not an *)
(* earlier run is still at work; the sidecar runs one after the other.     *)
(* Each step of a run is one of its file operations or one command.        *)
(***************************************************************************)
EXTENDS Naturals

CONSTANTS
  Watchers,      \* runs of the watcher that can be under way together
  NoLock,
  MaxVersion,    \* bound: release tags ever made
  MaxFailures    \* bound: runs that are killed or raise

ASSUME UpdaterAssumption ==
  /\ NoLock \notin Watchers
  /\ MaxVersion \in Nat \ {0}
  /\ MaxFailures \in Nat

VARIABLES
  released,      \* the newest release tag at origin
  fetched,       \* the newest release tag in the NAS's clone
  checkout,      \* VERSION in the working tree
  running,       \* APP_VERSION of the container
  request,       \* update.request is there
  applying,      \* update.applying is there
  lock,          \* the run that wrote .watcher.lock
  stale,         \* the lock is 1800 s old
  latest,        \* status.json: latest
  lastResult,    \* status.json: last_result
  pc,            \* where each run stands
  tag,           \* the tag each run has found
  built,         \* whether its build succeeded
  asking,        \* a POST /v1/update/apply has found no update.applying
  shown,         \* history: the latest version status.json had told it
  wanted,        \* history: shown, of the request in update.request
  failures

gitVars    == <<released, fetched, checkout>>
statusVars == <<latest, lastResult>>
apiVars    == <<asking, shown, wanted>>
runVars    == <<pc, tag, built>>
vars == <<gitVars, running, request, applying, lock, stale, statusVars,
          runVars, apiVars, failures>>

Versions == 1..MaxVersion

NoResult == [ok |-> FALSE, version |-> 0, tag |-> 0]

\* The clone was made at the first release, and the container built from it.
Init ==
  /\ released = 1 /\ fetched = 1 /\ checkout = 1 /\ running = 1
  /\ request = FALSE /\ applying = FALSE
  /\ lock = NoLock /\ stale = FALSE
  /\ latest = 0 /\ lastResult = NoResult
  /\ pc    = [w \in Watchers |-> "idle"]
  /\ tag   = [w \in Watchers |-> 0]
  /\ built = [w \in Watchers |-> FALSE]
  /\ asking = FALSE /\ shown = 0 /\ wanted = 0
  /\ failures = 0

Step(w, from, to) == pc[w] = from /\ pc' = [pc EXCEPT ![w] = to]

\* A release at origin.
Release ==
  /\ released < MaxVersion
  /\ released' = released + 1
  /\ UNCHANGED <<fetched, checkout, running, request, applying, lock, stale,
                 statusVars, runVars, apiVars, failures>>
------------------------------------------------------------------------------
(***************************************************************************)
(* The container.                                                          *)
(***************************************************************************)

\* request_update refuses while update.applying is there.
AsksUpdate ==
  /\ ~asking
  /\ ~applying
  /\ asking' = TRUE
  /\ shown' = latest
  /\ UNCHANGED <<gitVars, running, request, applying, lock, stale,
                 statusVars, runVars, wanted, failures>>

FilesRequest ==
  /\ asking
  /\ asking' = FALSE
  /\ request' = TRUE
  /\ wanted' = shown
  /\ UNCHANGED <<gitVars, running, applying, lock, stale, statusVars, runVars, shown, failures>>
------------------------------------------------------------------------------
(***************************************************************************)
(* A run of the watcher.                                                   *)
(***************************************************************************)

\* A lock that is there and not stale ends the run at once.
FindsNoLock(w) ==
  /\ Step(w, "idle", "lock")
  /\ lock = NoLock \/ stale
  /\ UNCHANGED <<gitVars, running, request, applying, lock, stale,
                 statusVars, tag, built, apiVars, failures>>

WritesLock(w) ==
  /\ Step(w, "lock", "fetch")
  /\ lock' = w
  /\ stale' = FALSE
  /\ UNCHANGED <<gitVars, running, request, applying, statusVars, tag, built, apiVars, failures>>

\* git fetch, which may fail unnoticed.
GitFetch == fetched' \in {fetched, released}

\* latest_tag lists the tags of the clone.
FindsTag(w) ==
  /\ Step(w, "fetch", "status")
  /\ GitFetch
  /\ tag' = [tag EXCEPT ![w] = fetched']
  /\ UNCHANGED <<released, checkout, running, request, applying, lock, stale,
                 statusVars, built, apiVars, failures>>

\* Mutant: status.json names a tag the run has not got.
WritesStatusOfOrigin(w) ==
  /\ Step(w, "status", "look")
  /\ latest' = released
  /\ UNCHANGED <<gitVars, running, request, applying, lock, stale,
                 lastResult, tag, built, apiVars, failures>>

WritesStatus(w) ==
  /\ Step(w, "status", "look")
  /\ latest' = tag[w]
  /\ UNCHANGED <<gitVars, running, request, applying, lock, stale,
                 lastResult, tag, built, apiVars, failures>>

FindsRequest(w) ==
  /\ Step(w, "look", IF request THEN "apply" ELSE "leave")
  /\ UNCHANGED <<gitVars, running, request, applying, lock, stale,
                 statusVars, tag, built, apiVars, failures>>

BeginsApply(w) ==
  /\ Step(w, "apply", "drop")
  /\ applying' = TRUE
  /\ UNCHANGED <<gitVars, running, request, lock, stale, statusVars, tag, built, apiVars, failures>>

\* Mutant: the request is left for the end and never removed.
KeepsRequest(w) ==
  /\ Step(w, "drop", "checkout")
  /\ UNCHANGED <<gitVars, running, request, applying, lock, stale,
                 statusVars, tag, built, apiVars, failures>>

DropsRequest(w) ==
  /\ Step(w, "drop", "checkout")
  /\ request' = FALSE
  /\ UNCHANGED <<gitVars, running, applying, lock, stale, statusVars, tag, built, apiVars, failures>>

\* Another git fetch, then git checkout -f of the tag found before; neither
\* return code is looked at.
ChecksOut(w) ==
  /\ Step(w, "checkout", "build")
  /\ GitFetch
  /\ checkout' \in {checkout, tag[w]}
  /\ UNCHANGED <<released, running, request, applying, lock, stale,
                 statusVars, tag, built, apiVars, failures>>

\* docker compose up --build: the container is replaced by one that runs
\* what is checked out, and a request it was handling is gone; or it stays.
Builds(w) ==
  /\ Step(w, "build", "result")
  /\ \E ok \in BOOLEAN :
       /\ built' = [built EXCEPT ![w] = ok]
       /\ running' = IF ok THEN checkout ELSE running
       /\ asking' = (asking /\ ~ok)
  /\ UNCHANGED <<gitVars, request, applying, lock, stale, statusVars, tag,
                 shown, wanted, failures>>

\* Mutant: the result names the tag as the version, checked out or not.
WritesResultOfTag(w) ==
  /\ Step(w, "result", "clear")
  /\ lastResult' = [ok |-> built[w], version |-> tag[w], tag |-> tag[w]]
  /\ UNCHANGED <<gitVars, running, request, applying, lock, stale,
                 latest, tag, built, apiVars, failures>>

WritesResult(w) ==
  /\ Step(w, "result", "clear")
  /\ lastResult' = [ok |-> built[w], version |-> checkout, tag |-> tag[w]]
  /\ UNCHANGED <<gitVars, running, request, applying, lock, stale,
                 latest, tag, built, apiVars, failures>>

\* Mutant: update.applying is removed only when the build succeeded.
ClearsIfBuilt(w) ==
  /\ Step(w, "clear", "leave")
  /\ applying' = ~built[w]
  /\ UNCHANGED <<gitVars, running, request, lock, stale, statusVars, tag, built, apiVars, failures>>

ClearsApplying(w) ==
  /\ Step(w, "clear", "leave")
  /\ applying' = FALSE
  /\ UNCHANGED <<gitVars, running, request, lock, stale, statusVars, tag, built, apiVars, failures>>

\* finally: the lock file is removed, whoever wrote it.
Leaves(w) ==
  /\ Step(w, "leave", "idle")
  /\ lock' = NoLock
  /\ stale' = FALSE
  /\ UNCHANGED <<gitVars, running, request, applying, statusVars, tag, built, apiVars, failures>>

\* A command or a write raises: what the run has left behind stays, but for
\* the lock.
Raises(w) ==
  /\ failures < MaxFailures
  /\ pc[w] \notin {"idle", "lock", "leave"}
  /\ pc' = [pc EXCEPT ![w] = "leave"]
  /\ failures' = failures + 1
  /\ UNCHANGED <<gitVars, running, request, applying, lock, stale,
                 statusVars, tag, built, apiVars>>

\* The run is killed, or the NAS restarts: the lock stays as well.
Dies(w) ==
  /\ failures < MaxFailures
  /\ pc[w] # "idle"
  /\ pc' = [pc EXCEPT ![w] = "idle"]
  /\ failures' = failures + 1
  /\ UNCHANGED <<gitVars, running, request, applying, lock, stale,
                 statusVars, tag, built, apiVars>>

\* Half an hour passes; of a live run only its commands take so long.
LockAges ==
  /\ lock # NoLock
  /\ ~stale
  /\ \A w \in Watchers : pc[w] \in {"idle", "fetch", "checkout", "build"}
  /\ stale' = TRUE
  /\ UNCHANGED <<gitVars, running, request, applying, lock, statusVars, runVars, apiVars, failures>>
------------------------------------------------------------------------------
Run(w) ==
  \/ FindsNoLock(w) \/ WritesLock(w) \/ FindsTag(w) \/ WritesStatus(w) \/ FindsRequest(w)
  \/ BeginsApply(w) \/ DropsRequest(w) \/ ChecksOut(w) \/ Builds(w)
  \/ WritesResult(w) \/ ClearsApplying(w) \/ Leaves(w)

Next ==
  \/ Release \/ AsksUpdate \/ FilesRequest \/ LockAges
  \/ \E w \in Watchers : Run(w) \/ Raises(w) \/ Dies(w)

\* Cron or the sidecar starts the watcher again and again, its commands end,
\* and time passes.
Fairness == WF_vars(LockAges) /\ \A w \in Watchers : WF_vars(Run(w))

Spec == Init /\ [][Next]_vars

FairSpec == Spec /\ Fairness
------------------------------------------------------------------------------
InApply == {"drop", "checkout", "build", "result", "clear"}

Labels == InApply \cup {"idle", "lock", "fetch", "status", "look", "apply", "leave"}

Results == [ok: BOOLEAN, version: Versions, tag: Versions]

UpdaterTypeOK ==
  /\ {released, fetched, checkout, running} \subseteq Versions
  /\ {request, applying, stale, asking} \subseteq BOOLEAN
  /\ lock \in Watchers \cup {NoLock}
  /\ {latest, shown, wanted} \subseteq Versions \cup {0}
  /\ lastResult \in Results \cup {NoResult}
  /\ pc \in [Watchers -> Labels]
  /\ tag \in [Watchers -> Versions \cup {0}]
  /\ built \in [Watchers -> BOOLEAN]
  /\ failures \in 0..MaxFailures

(***************************************************************************)
(* With one run at a time, a request is taken up by a run that has found   *)
(* at least the version the dashboard showed to whoever pressed the        *)
(* button, though the tag is chosen before update.request is looked for.   *)
(***************************************************************************)
AppliedIsAtLeastShown ==
  [][request /\ ~request' => \E w \in Watchers : pc[w] = "drop" /\ tag[w] >= wanted]_vars

(***************************************************************************)
(* With one run at a time, a result that says ok names the version that    *)
(* runs, as soon as the apply it belongs to is over and unless an apply    *)
(* has been cut off since.                                                 *)
(***************************************************************************)
OkResultNamesWhatRuns ==
  ~applying /\ lastResult.ok => running = lastResult.version

(***************************************************************************)
(* Every request is removed by an apply whose checkout is still to come,   *)
(* also when runs are killed and leave their lock behind: by one that      *)
(* finds it, or, if it is filed while an apply is about to remove an       *)
(* earlier one, by that apply, which then serves both.                     *)
(***************************************************************************)
RequestIsTakenUp == request ~> ~request /\ \E w \in Watchers : pc[w] = "checkout"

(***************************************************************************)
(* An apply that was cut off leaves update.applying, and request_update    *)
(* refuses from then on.  A request that is already filed (by a POST that  *)
(* looked before, or while the apply was under way) heals that: if no run  *)
(* is cut off any more, its apply ends with the exchange open again,       *)
(* whether the build succeeds or not.                                      *)
(***************************************************************************)
LastApplyReopens == (request /\ failures = MaxFailures) ~> ~applying
==============================================================================
