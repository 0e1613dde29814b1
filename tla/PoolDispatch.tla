--------------------------- MODULE PoolDispatch ---------------------------
(***************************************************************************)
(* How one prompt is served from the pool of accounts (request_dispatch.go,*)
(* runPromptWithAccountPool and its sink twin): candidates are tried one   *)
(* after the other; each try takes a dispatch slot of the account, loads   *)
(* and probes its session and runs the prompt upstream; an authentication  *)
(* failure refreshes the session and runs once more; every other failure   *)
(* is recorded on the account and the next candidate is tried, unless some *)
(* text has already been emitted or the request's context has ended.       *)
(* Without any account the primary session is used instead                 *)
(* (runPromptActiveFallback), which takes no slot and records nothing.     *)
(*                                                                         *)
(* The slots are the counting semaphore of AccountSemaphore, which         *)
(* DispatchSlots implements.  Upstream, the files of a session and the     *)
(* configuration store are nondeterministic: any call may succeed, fail    *)
(* with an authentication error, fail otherwise, or report an abort (a     *)
(* deadline of its own counts as one, isDispatchContextAbort).             *)
(***************************************************************************)
EXTENDS Integers, FiniteSets

CONSTANTS
  Requests,        \* goroutines serving API requests, one prompt at a time
  Accounts,        \* the configured accounts
  Capacity,        \* max_concurrency of each account
  RefreshEnabled,  \* session_refresh.enabled (and retry_on_auth_error)
  NoAccount        \* the primary session, outside the pool

ASSUME PoolAssumption ==
  /\ IsFiniteSet(Requests)
  /\ IsFiniteSet(Accounts)
  /\ Capacity \in [Accounts -> Nat \ {0}]
  /\ RefreshEnabled \in BOOLEAN
  /\ NoAccount \notin Accounts

VARIABLES
  holders,   \* the requests that hold a slot of each account
  pc,        \* where each request is
  ctx,       \* its context: "live" or "ended" (timeout, or the client left)
  fate,      \* what became of each account: "none" (no candidate), "open"
             \* (still to be tried), "busy", or the failure recorded on it
  scan,      \* candidates AvailableDispatchCapacity has not looked at
  acct,      \* the account being tried
  err,       \* err: the failure of the current try
  lastErr,   \* lastErr: the failure of the last account that failed
  emitted,   \* emittedAny
  retried,   \* the current try is the one after a session refresh
  runs,      \* ghost: how many upstream runs were started
  voice,     \* ghost: the runs that emitted text
  answer     \* what the request returned

local == <<ctx, fate, scan, acct, err, lastErr, emitted, retried, runs, voice, answer>>
vars  == <<holders, pc, local>>

Slots == INSTANCE AccountSemaphore WITH limit <- Capacity

Failures == {"auth", "other", "abort"}   \* what an external call can report
Failed   == {"auth", "other", "save", "capacity"}   \* what is recorded

Init ==
  /\ holders = [a \in Accounts |-> {}]
  /\ pc = [r \in Requests |-> "idle"]
  /\ ctx = [r \in Requests |-> "live"]
  /\ fate = [r \in Requests |-> [a \in Accounts |-> "none"]]
  /\ scan = [r \in Requests |-> {}]
  /\ acct = [r \in Requests |-> NoAccount]
  /\ err = [r \in Requests |-> "none"]
  /\ lastErr = [r \in Requests |-> "none"]
  /\ emitted = [r \in Requests |-> FALSE]
  /\ retried = [r \in Requests |-> FALSE]
  /\ runs = [r \in Requests |-> 0]
  /\ voice = [r \in Requests |-> {}]
  /\ answer = [r \in Requests |-> "none"]

At(r, place) == pc[r] = place
Goto(r, place) == pc' = [pc EXCEPT ![r] = place]

\* The handler returns; its deferred cancel() ends the context.
Answer(r, what) ==
  /\ Goto(r, "answered")
  /\ answer' = [answer EXCEPT ![r] = what]
  /\ ctx' = [ctx EXCEPT ![r] = "ended"]

Open(r) == {a \in Accounts : fate[r][a] = "open"}
Pooled(r) == acct[r] # NoAccount
Aborted(r) == err[r] = "abort" \/ ctx[r] = "ended"
Full(a) == Cardinality(holders[a]) >= Capacity[a]

----------------------------------------------------------------------------
(* The candidates are fixed when the request begins; which one comes next  *)
(* is a matter of their order, left open here.                             *)

BeginPool(r, candidates) ==
  /\ At(r, "idle")
  /\ candidates # {}
  /\ fate' = [fate EXCEPT ![r] = [a \in Accounts |->
                IF a \in candidates THEN "open" ELSE "none"]]
  /\ scan' = [scan EXCEPT ![r] = candidates]
  /\ Goto(r, "scanning")
  /\ UNCHANGED <<holders, ctx, acct, err, lastErr, emitted, retried, runs, voice, answer>>

\* AvailableDispatchCapacity reads the slots one by one.
SeeFull(r, a) ==
  /\ At(r, "scanning") /\ a \in scan[r] /\ Full(a)
  /\ scan' = [scan EXCEPT ![r] = @ \ {a}]
  /\ UNCHANGED <<holders, pc, ctx, fate, acct, err, lastErr, emitted, retried, runs, voice, answer>>

SeeRoom(r, a) ==
  /\ At(r, "scanning") /\ a \in scan[r] /\ ~Full(a)
  /\ scan' = [scan EXCEPT ![r] = {}]
  /\ Goto(r, "choosing")
  /\ UNCHANGED <<holders, ctx, fate, acct, err, lastErr, emitted, retried, runs, voice, answer>>

RefuseAtOnce(r) ==
  /\ At(r, "scanning") /\ scan[r] = {}
  /\ Answer(r, "capacity")
  /\ fate' = [fate EXCEPT ![r] = [a \in Accounts |->
                IF @[a] = "open" THEN "busy" ELSE @[a]]]
  /\ UNCHANGED <<holders, scan, acct, err, lastErr, emitted, retried, runs, voice>>

TakeSlot(r, a) ==
  /\ At(r, "choosing") /\ a \in Open(r)
  /\ Slots!Enter(r, a)
  /\ acct' = [acct EXCEPT ![r] = a]
  /\ Goto(r, "loading")
  /\ UNCHANGED <<ctx, fate, scan, err, lastErr, emitted, retried, runs, voice, answer>>

SkipBusy(r, a) ==
  /\ At(r, "choosing") /\ a \in Open(r) /\ Full(a)
  /\ fate' = [fate EXCEPT ![r][a] = "busy"]
  /\ UNCHANGED <<holders, pc, ctx, scan, acct, err, lastErr, emitted, retried, runs, voice, answer>>

GiveUp(r) ==
  /\ At(r, "choosing") /\ Open(r) = {}
  /\ Answer(r, IF lastErr[r] # "none" THEN lastErr[r] ELSE "capacity")
  /\ UNCHANGED <<holders, fate, scan, acct, err, lastErr, emitted, retried, runs, voice>>

\* runPromptActiveFallback: no accounts are configured.
BeginPrimary(r) ==
  /\ At(r, "idle")
  /\ Goto(r, "loading")
  /\ UNCHANGED <<holders, local>>

----------------------------------------------------------------------------
(* One try: session and probe, then the upstream run.  A try that fails    *)
(* gives its slot back before anything else happens.                       *)

\* What loading and running do with the slot when they end.
ReleaseSlot(r) ==
  IF Pooled(r) THEN Slots!Leave(r, acct[r]) ELSE UNCHANGED holders

StartRun(r) ==
  /\ Goto(r, "running")
  /\ runs' = [runs EXCEPT ![r] = @ + 1]

SessionReady(r) ==
  /\ At(r, "loading")
  /\ StartRun(r)
  /\ UNCHANGED <<holders, ctx, fate, scan, acct, err, lastErr, emitted, retried, voice, answer>>

\* Seeded bug: a try that ends before its run keeps the slot.
SessionFailsHolding(r, why) ==
  /\ At(r, "loading")
  /\ err' = [err EXCEPT ![r] = why]
  /\ IF Pooled(r) THEN Goto(r, "failed") /\ UNCHANGED <<answer, ctx>>
                  ELSE Answer(r, why)
  /\ UNCHANGED <<holders, fate, scan, acct, lastErr, emitted, retried, runs, voice>>

SessionFails(r, why) ==
  /\ At(r, "loading")
  /\ ReleaseSlot(r)
  /\ err' = [err EXCEPT ![r] = why]
  /\ IF Pooled(r) THEN Goto(r, "failed") /\ UNCHANGED <<answer, ctx>>
                  ELSE Answer(r, why)
  /\ UNCHANGED <<fate, scan, acct, lastErr, emitted, retried, runs, voice>>

Emit(r) ==
  /\ At(r, "running")
  /\ emitted' = [emitted EXCEPT ![r] = TRUE]
  /\ voice' = [voice EXCEPT ![r] = @ \cup {runs[r]}]
  /\ UNCHANGED <<holders, pc, ctx, fate, scan, acct, err, lastErr, retried, runs, answer>>

RunSucceeds(r) ==
  /\ At(r, "running")
  /\ ReleaseSlot(r)
  /\ IF Pooled(r) THEN Goto(r, "saving") /\ UNCHANGED <<answer, ctx>>
                  ELSE Answer(r, "ok")
  /\ UNCHANGED <<fate, scan, acct, err, lastErr, emitted, retried, runs, voice>>

\* Seeded bug: a run after a refresh may be refreshed again.
RunFailsAlike(r, why) ==
  /\ At(r, "running")
  /\ ReleaseSlot(r)
  /\ err' = [err EXCEPT ![r] = why]
  /\ Goto(r, "failed")
  /\ UNCHANGED <<ctx, fate, scan, acct, lastErr, emitted, retried, runs, voice, answer>>

RunFails(r, why) ==
  /\ At(r, "running")
  /\ ReleaseSlot(r)
  /\ err' = [err EXCEPT ![r] = why]
  /\ IF retried[r]
       THEN IF Pooled(r) THEN Goto(r, "judging") /\ UNCHANGED <<answer, ctx>>
                         ELSE Answer(r, why)
       ELSE Goto(r, "failed") /\ UNCHANGED <<answer, ctx>>
  /\ UNCHANGED <<fate, scan, acct, lastErr, emitted, retried, runs, voice>>

\* SaveAndApply after a success; its error hides the result.
Save(r, what) ==
  /\ At(r, "saving")
  /\ Answer(r, what)
  /\ UNCHANGED <<holders, fate, scan, acct, err, lastErr, emitted, retried, runs, voice>>

----------------------------------------------------------------------------
(* After a failed try.                                                     *)

\* Seeded bug: the text already sent is forgotten.
MayRefreshAlways(r) == err[r] = "auth" /\ RefreshEnabled

MayRefresh(r) == err[r] = "auth" /\ RefreshEnabled /\ ~emitted[r]

AbandonFailed(r) ==
  /\ At(r, "failed") /\ Pooled(r) /\ Aborted(r)
  /\ Answer(r, "abort")
  /\ UNCHANGED <<holders, fate, scan, acct, err, lastErr, emitted, retried, runs, voice>>

StartRefresh(r) ==
  /\ At(r, "failed") /\ (Pooled(r) => ~Aborted(r)) /\ MayRefresh(r)
  /\ Goto(r, "refreshing")
  /\ UNCHANGED <<holders, local>>

SkipRefresh(r) ==
  /\ At(r, "failed") /\ (Pooled(r) => ~Aborted(r)) /\ ~MayRefresh(r)
  /\ IF Pooled(r) THEN Goto(r, "judging") /\ UNCHANGED <<answer, ctx>>
                  ELSE Answer(r, err[r])
  /\ UNCHANGED <<holders, fate, scan, acct, err, lastErr, emitted, retried, runs, voice>>

\* tryRefreshAccount (or RefreshSession) fails: the first error stands.
RefreshFails(r) ==
  /\ At(r, "refreshing")
  /\ IF Pooled(r) THEN Goto(r, "judging") /\ UNCHANGED <<answer, ctx>>
                  ELSE Answer(r, err[r])
  /\ UNCHANGED <<holders, fate, scan, acct, err, lastErr, emitted, retried, runs, voice>>

RefreshNotSaved(r) ==
  /\ At(r, "refreshing") /\ Pooled(r)
  /\ err' = [err EXCEPT ![r] = "save"]
  /\ Goto(r, "judging")
  /\ UNCHANGED <<holders, ctx, fate, scan, acct, lastErr, emitted, retried, runs, voice, answer>>

Refreshed(r) ==
  /\ At(r, "refreshing")
  /\ Goto(r, "reloading")
  /\ UNCHANGED <<holders, local>>

ReloadFails(r, why) ==
  /\ At(r, "reloading")
  /\ err' = [err EXCEPT ![r] = why]
  /\ IF Pooled(r) THEN Goto(r, "judging") /\ UNCHANGED <<answer, ctx>>
                  ELSE Answer(r, why)
  /\ UNCHANGED <<holders, fate, scan, acct, lastErr, emitted, retried, runs, voice>>

Reloaded(r) ==
  /\ At(r, "reloading")
  /\ Goto(r, "retaking")
  /\ UNCHANGED <<holders, local>>

\* The slot was given back before the refresh: somebody may have taken it.
Rerun(r) ==
  /\ At(r, "retaking")
  /\ IF Pooled(r) THEN Slots!Enter(r, acct[r]) ELSE UNCHANGED holders
  /\ retried' = [retried EXCEPT ![r] = TRUE]
  /\ StartRun(r)
  /\ UNCHANGED <<ctx, fate, scan, acct, err, lastErr, emitted, voice, answer>>

\* Seeded bug: losing the slot ends the request.
SlotLostForGood(r) ==
  /\ At(r, "retaking") /\ Pooled(r) /\ Full(acct[r])
  /\ err' = [err EXCEPT ![r] = "capacity"]
  /\ Answer(r, "capacity")
  /\ UNCHANGED <<holders, fate, scan, acct, lastErr, emitted, retried, runs, voice>>

\* Seeded bug: losing the slot is not handled, the request waits for it.
SlotAwaited(r) == FALSE /\ UNCHANGED vars

SlotLost(r) ==
  /\ At(r, "retaking") /\ Pooled(r) /\ Full(acct[r])
  /\ err' = [err EXCEPT ![r] = "capacity"]
  /\ Goto(r, "judging")
  /\ UNCHANGED <<holders, ctx, fate, scan, acct, lastErr, emitted, retried, runs, voice, answer>>

Abandon(r) ==
  /\ At(r, "judging") /\ Aborted(r)
  /\ Answer(r, "abort")
  /\ UNCHANGED <<holders, fate, scan, acct, err, lastErr, emitted, retried, runs, voice>>

\* The variables of one try go out of scope with it.
EndOfTry(r) ==
  /\ acct' = [acct EXCEPT ![r] = NoAccount]
  /\ err' = [err EXCEPT ![r] = "none"]
  /\ retried' = [retried EXCEPT ![r] = FALSE]

\* Seeded bug: the second look at the context is missing.
RecordFailureOfAbort(r) ==
  /\ At(r, "judging")
  /\ fate' = [fate EXCEPT ![r][acct[r]] = err[r]]
  /\ lastErr' = [lastErr EXCEPT ![r] = err[r]]
  /\ IF emitted[r] THEN Answer(r, err[r]) ELSE Goto(r, "choosing") /\ UNCHANGED <<answer, ctx>>
  /\ EndOfTry(r)
  /\ UNCHANGED <<holders, scan, emitted, runs, voice>>

(* startAutoRelogin after an authentication failure, then                  *)
(* markAccountDispatchFailure and a save whose error is ignored.           *)
RecordFailure(r) ==
  /\ At(r, "judging") /\ ~Aborted(r)
  /\ fate' = [fate EXCEPT ![r][acct[r]] = err[r]]
  /\ lastErr' = [lastErr EXCEPT ![r] = err[r]]
  /\ IF emitted[r] THEN Answer(r, err[r]) ELSE Goto(r, "choosing") /\ UNCHANGED <<answer, ctx>>
  /\ EndOfTry(r)
  /\ UNCHANGED <<holders, scan, emitted, runs, voice>>

----------------------------------------------------------------------------
\* The timeout of the request fires, or its client disconnects.
ContextEnds(r) ==
  /\ pc[r] \notin {"idle", "answered"}
  /\ ctx[r] = "live"
  /\ ctx' = [ctx EXCEPT ![r] = "ended"]
  /\ UNCHANGED <<holders, pc, fate, scan, acct, err, lastErr, emitted, retried, runs, voice, answer>>

\* The goroutine takes up another request.
Again(r) ==
  /\ At(r, "answered")
  /\ Goto(r, "idle")
  /\ ctx' = [ctx EXCEPT ![r] = "live"]
  /\ fate' = [fate EXCEPT ![r] = [a \in Accounts |-> "none"]]
  /\ scan' = [scan EXCEPT ![r] = {}]
  /\ acct' = [acct EXCEPT ![r] = NoAccount]
  /\ err' = [err EXCEPT ![r] = "none"]
  /\ lastErr' = [lastErr EXCEPT ![r] = "none"]
  /\ emitted' = [emitted EXCEPT ![r] = FALSE]
  /\ retried' = [retried EXCEPT ![r] = FALSE]
  /\ runs' = [runs EXCEPT ![r] = 0]
  /\ voice' = [voice EXCEPT ![r] = {}]
  /\ answer' = [answer EXCEPT ![r] = "none"]
  /\ UNCHANGED holders

\* Steps of the handler itself, which need nobody else.
OwnStep(r) ==
  \/ \E a \in Accounts : SeeFull(r, a) \/ SeeRoom(r, a) \/ TakeSlot(r, a) \/ SkipBusy(r, a)
  \/ RefuseAtOnce(r) \/ GiveUp(r)
  \/ \E what \in {"ok", "save"} : Save(r, what)
  \/ AbandonFailed(r) \/ StartRefresh(r) \/ SkipRefresh(r)
  \/ Rerun(r) \/ SlotLost(r) \/ Abandon(r) \/ RecordFailure(r)

\* Answers of the outside world to a call of the handler.
Reply(r) ==
  \/ SessionReady(r) \/ RunSucceeds(r)
  \/ \E why \in Failures : SessionFails(r, why) \/ RunFails(r, why) \/ ReloadFails(r, why)
  \/ RefreshFails(r) \/ RefreshNotSaved(r) \/ Refreshed(r) \/ Reloaded(r)

Next == \E r \in Requests :
  \/ \E candidates \in SUBSET Accounts : BeginPool(r, candidates)
  \/ BeginPrimary(r) \/ OwnStep(r) \/ Reply(r) \/ Emit(r)
  \/ ContextEnds(r) \/ Again(r)

Spec == Init /\ [][Next]_vars

(* The context of every request ends sooner or later (it has a timeout);   *)
(* once it has ended, every external call made with it returns.            *)
FairSpec ==
  /\ Spec
  /\ \A r \in Requests :
       /\ WF_vars(OwnStep(r))
       /\ WF_vars(ContextEnds(r))
       /\ WF_vars(ctx[r] = "ended" /\ Reply(r))

----------------------------------------------------------------------------
Places == {"idle", "scanning", "choosing", "loading", "running", "saving",
           "failed", "refreshing", "reloading", "retaking", "judging", "answered"}

TypeOK ==
  /\ holders \in [Accounts -> SUBSET Requests]
  /\ pc \in [Requests -> Places]
  /\ ctx \in [Requests -> {"live", "ended"}]
  /\ fate \in [Requests -> [Accounts -> {"none", "open", "busy", "abort"} \cup Failed]]
  /\ scan \in [Requests -> SUBSET Accounts]
  /\ acct \in [Requests -> Accounts \cup {NoAccount}]
  /\ err \in [Requests -> {"none", "abort"} \cup Failed]
  /\ lastErr \in [Requests -> {"none"} \cup Failed]
  /\ emitted \in [Requests -> BOOLEAN]
  /\ retried \in [Requests -> BOOLEAN]
  /\ runs \in [Requests -> Nat]
  /\ voice \in [Requests -> SUBSET Nat]
  /\ answer \in [Requests -> {"none", "ok", "abort"} \cup Failed]

(* A slot is held exactly while its account loads or runs the prompt: on   *)
(* no path, in particular not on the path through a refresh, is it kept    *)
(* after the try, given back twice, or missing during an upstream run.     *)
SlotHeldExactlyWhileTrying ==
  \A r \in Requests, a \in Accounts :
     r \in holders[a] <=> acct[r] = a /\ pc[r] \in {"loading", "running"}

(* All the text a client receives comes from one upstream run: once a      *)
(* delta has gone out there is no second run, and a run that succeeds      *)
(* after text was emitted is the run that emitted it.                      *)
OneVoice ==
  \A r \in Requests :
     /\ Cardinality(voice[r]) <= 1
     /\ answer[r] = "ok" => voice[r] \subseteq {runs[r]}

(* A request is refused or fails only when there is nobody left to ask:    *)
(* unless it was aborted, had already emitted text, or could not save its  *)
(* success, every candidate was busy or failed by then.                    *)
FailsOnlyWhenExhausted ==
  \A r \in Requests :
     /\ answer[r] \in {"auth", "other", "capacity"}
     /\ ~emitted[r]
     => Open(r) = {}

(* An aborted request (its client left, or a deadline passed) is never     *)
(* held against the account that was serving it.                           *)
AbortsBlameNobody ==
  \A r \in Requests, a \in Accounts : fate[r][a] # "abort"

(* A request starts at most two upstream runs for each account it may use, *)
(* however the failures, refreshes and emissions interleave.               *)
BoundedRuns ==
  \A r \in Requests :
     LET candidates == {a \in Accounts : fate[r][a] # "none"}
     IN  runs[r] <= 2 * (IF candidates = {} THEN 1 ELSE Cardinality(candidates))

(* Every request is answered in the end.                                   *)
EveryRequestAnswered ==
  \A r \in Requests : pc[r] \notin {"idle", "answered"} ~> pc[r] = "answered"

=============================================================================
