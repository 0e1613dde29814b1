------------------------- MODULE PoolDispatchProofs -------------------------
(***************************************************************************)
(* Proofs about PoolDispatch, for every set of requests and accounts, all  *)
(* capacities, with and without session refresh.  The inductive invariant  *)
(* says what each place of the handler stands for: which of its variables  *)
(* are set there, whether text can have been emitted, and how many runs    *)
(* the accounts closed so far account for.                                 *)
(***************************************************************************)
EXTENDS PoolDispatch, FiniteSetTheorems, TLAPS

\* From taking an account to leaving it for good.
Trying == {"loading", "running", "failed", "refreshing", "reloading", "retaking",
           "judging", "saving"}

\* Without an account a request has nothing to record; with none left to try it
\* has begun nothing.
Settled ==
  \A r \in Requests :
    /\ pc[r] \in {"idle", "scanning", "choosing"} =>
         acct[r] = NoAccount /\ ~retried[r]
    /\ pc[r] \in {"idle", "scanning"} => runs[r] = 0
    /\ pc[r] = "idle" => \A a \in Accounts : fate[r][a] = "none"
    /\ pc[r] \in {"judging", "saving"} => Pooled(r)
    /\ answer[r] # "none" => pc[r] = "answered"

\* An account in use is an open candidate; the primary session has no rival.
AccountOpen ==
  \A r \in Requests : pc[r] \in Trying =>
    /\ Pooled(r) => fate[r][acct[r]] = "open"
    /\ ~Pooled(r) => \A a \in Accounts : fate[r][a] = "none"

\* An error is known from the moment a try fails.
ErrorKnown ==
  \A r \in Requests :
    pc[r] \in {"failed", "refreshing", "reloading", "retaking", "judging"} => err[r] # "none"

\* Where a further run may still follow, nothing has been emitted.
Silent ==
  \A r \in Requests :
    /\ emitted[r] <=> voice[r] # {}
    /\ voice[r] \subseteq {runs[r]}
    /\ pc[r] \in {"idle", "scanning", "choosing", "loading", "refreshing", "reloading",
                  "retaking"} => ~emitted[r]

Candidates(r) == {a \in Accounts : fate[r][a] # "none"}
Closed(r) == {a \in Accounts : fate[r][a] \notin {"none", "open"}}

\* The runs of the try under way.
Extra(r) ==
  CASE pc[r] \in {"idle", "scanning", "choosing", "loading"} -> 0
    [] pc[r] = "running" /\ ~retried[r] -> 1
    [] pc[r] \in {"failed", "refreshing", "reloading", "retaking"} -> 1
    [] OTHER -> 2

RunsCounted ==
  \A r \in Requests :
    /\ pc[r] # "answered" => runs[r] <= 2 * Cardinality(Closed(r)) + Extra(r)
    /\ retried[r] => pc[r] \in {"running", "judging", "saving", "answered"}

-----------------------------------------------------------------------------
(* Types.                                                                  *)

LEMMA InitTypes == Init => TypeOK
BY PoolAssumption DEF Init, TypeOK, Places

LEMMA MoveTypes ==
  ASSUME TypeOK, NEW r \in Requests, NEW place \in Places,
         NEW what \in {"none", "ok", "abort"} \cup Failed,
         \/ Goto(r, place) /\ UNCHANGED <<answer, ctx>>
         \/ Answer(r, what)
  PROVE  /\ pc' \in [Requests -> Places]
         /\ ctx' \in [Requests -> {"live", "ended"}]
         /\ answer' \in [Requests -> {"none", "ok", "abort"} \cup Failed]
<1>1. "answered" \in Places
  BY DEF Places
<1>2. CASE Goto(r, place) /\ UNCHANGED <<answer, ctx>>
  BY <1>2 DEF TypeOK, Goto
<1>3. CASE Answer(r, what)
  BY <1>1, <1>3 DEF TypeOK, Goto, Answer
<1>. QED  BY <1>2, <1>3

LEMMA ReleaseTypes ==
  ASSUME TypeOK, NEW r \in Requests, ReleaseSlot(r)
  PROVE  holders' \in [Accounts -> SUBSET Requests]
<1>1. CASE Pooled(r)
  <2>1. acct[r] \in Accounts
    BY <1>1 DEF TypeOK, Pooled
  <2>2. holders' = [holders EXCEPT ![acct[r]] = @ \ {r}]
    BY <1>1 DEF ReleaseSlot, Slots!Leave
  <2>. QED  BY <2>1, <2>2 DEF TypeOK
<1>2. CASE ~Pooled(r)
  BY <1>2 DEF TypeOK, ReleaseSlot
<1>. QED  BY <1>1, <1>2

LEMMA TypesStep ==
  ASSUME TypeOK, [Next]_vars PROVE TypeOK'
<1>. USE PoolAssumption
<1>1. ASSUME NEW r \in Requests, NEW candidates \in SUBSET Accounts, BeginPool(r, candidates)
      PROVE  TypeOK'
  BY <1>1 DEF BeginPool, TypeOK, Goto, Answer, Places, Failed
<1>2. ASSUME NEW r \in Requests, BeginPrimary(r) PROVE TypeOK'
  BY <1>2 DEF BeginPrimary, local, TypeOK, Goto, Answer, Places, Failed
<1>3. ASSUME NEW r \in Requests, NEW a \in Accounts, SeeFull(r, a) PROVE TypeOK'
  BY <1>3 DEF SeeFull, TypeOK, Goto, Answer, Places, Failed
<1>4. ASSUME NEW r \in Requests, NEW a \in Accounts, SeeRoom(r, a) PROVE TypeOK'
  BY <1>4 DEF SeeRoom, TypeOK, Goto, Answer, Places, Failed
<1>5. ASSUME NEW r \in Requests, NEW a \in Accounts, TakeSlot(r, a) PROVE TypeOK'
  BY <1>5 DEF TakeSlot, Slots!Enter, TypeOK, Goto, Answer, Places, Failed
<1>6. ASSUME NEW r \in Requests, NEW a \in Accounts, SkipBusy(r, a) PROVE TypeOK'
  BY <1>6 DEF SkipBusy, TypeOK, Goto, Answer, Places, Failed
<1>7. ASSUME NEW r \in Requests, RefuseAtOnce(r) PROVE TypeOK'
  BY <1>7 DEF RefuseAtOnce, TypeOK, Goto, Answer, Places, Failed
<1>8. ASSUME NEW r \in Requests, GiveUp(r) PROVE TypeOK'
  BY <1>8 DEF GiveUp, TypeOK, Goto, Answer, Places, Failed
<1>9. ASSUME NEW r \in Requests, NEW what \in {"ok", "save"}, Save(r, what)
      PROVE  TypeOK'
  BY <1>9 DEF Save, TypeOK, Goto, Answer, Places, Failed
<1>10. ASSUME NEW r \in Requests, AbandonFailed(r) PROVE TypeOK'
  BY <1>10 DEF AbandonFailed, TypeOK, Goto, Answer, Places, Failed
<1>11. ASSUME NEW r \in Requests, StartRefresh(r) PROVE TypeOK'
  BY <1>11 DEF StartRefresh, local, TypeOK, Goto, Answer, Places, Failed
<1>12. ASSUME NEW r \in Requests, SkipRefresh(r) PROVE TypeOK'
  <2>1. "judging" \in Places /\ err[r] \in {"none", "ok", "abort"} \cup Failed
    BY DEF TypeOK, Places, Failed, Failures
  <2>2. /\ pc' \in [Requests -> Places]
        /\ ctx' \in [Requests -> {"live", "ended"}]
        /\ answer' \in [Requests -> {"none", "ok", "abort"} \cup Failed]
    BY <1>12, <2>1, MoveTypes DEF SkipRefresh
  <2>. QED  BY <1>12, <2>2 DEF SkipRefresh, TypeOK, Failures, Failed
<1>13. ASSUME NEW r \in Requests, Rerun(r) PROVE TypeOK'
  <2>1. holders' \in [Accounts -> SUBSET Requests]
    BY <1>13 DEF Rerun, TypeOK, Pooled, Slots!Enter
  <2>. QED  BY <1>13, <2>1 DEF Rerun, StartRun, TypeOK, Places, Goto
<1>14. ASSUME NEW r \in Requests, SlotLost(r) PROVE TypeOK'
  BY <1>14 DEF SlotLost, TypeOK, Goto, Answer, Places, Failed
<1>15. ASSUME NEW r \in Requests, Abandon(r) PROVE TypeOK'
  BY <1>15 DEF Abandon, TypeOK, Goto, Answer, Places, Failed
<1>16. ASSUME NEW r \in Requests, RecordFailure(r) PROVE TypeOK'
  <2>1. "choosing" \in Places /\ err[r] \in {"none", "ok", "abort"} \cup Failed
    BY DEF TypeOK, Places, Failed, Failures
  <2>2. /\ pc' \in [Requests -> Places]
        /\ ctx' \in [Requests -> {"live", "ended"}]
        /\ answer' \in [Requests -> {"none", "ok", "abort"} \cup Failed]
    BY <1>16, <2>1, MoveTypes DEF RecordFailure
  <2>. QED  BY <1>16, <2>2 DEF RecordFailure, EndOfTry, Aborted, TypeOK, Failed
<1>17. ASSUME NEW r \in Requests, SessionReady(r) PROVE TypeOK'
  BY <1>17 DEF SessionReady, StartRun, TypeOK, Goto, Answer, Places, Failed
<1>18. ASSUME NEW r \in Requests, RunSucceeds(r) PROVE TypeOK'
  <2>1. "saving" \in Places /\ "ok" \in {"none", "ok", "abort"} \cup Failed
    BY DEF TypeOK, Places, Failed, Failures
  <2>2. /\ pc' \in [Requests -> Places]
        /\ ctx' \in [Requests -> {"live", "ended"}]
        /\ answer' \in [Requests -> {"none", "ok", "abort"} \cup Failed]
    BY <1>18, <2>1, MoveTypes DEF RunSucceeds
  <2>3. holders' \in [Accounts -> SUBSET Requests]
    BY <1>18, ReleaseTypes DEF RunSucceeds
  <2>. QED  BY <1>18, <2>2, <2>3 DEF RunSucceeds, TypeOK, Failures, Failed
<1>19. ASSUME NEW r \in Requests, NEW why \in Failures, SessionFails(r, why)
       PROVE  TypeOK'
  <2>1. "failed" \in Places /\ why \in {"none", "ok", "abort"} \cup Failed
    BY DEF TypeOK, Places, Failed, Failures
  <2>2. /\ pc' \in [Requests -> Places]
        /\ ctx' \in [Requests -> {"live", "ended"}]
        /\ answer' \in [Requests -> {"none", "ok", "abort"} \cup Failed]
    BY <1>19, <2>1, MoveTypes DEF SessionFails
  <2>3. holders' \in [Accounts -> SUBSET Requests]
    BY <1>19, ReleaseTypes DEF SessionFails
  <2>. QED  BY <1>19, <2>2, <2>3 DEF SessionFails, TypeOK, Failures, Failed
<1>20. ASSUME NEW r \in Requests, NEW why \in Failures, RunFails(r, why) PROVE TypeOK'
  <2>1. "failed" \in Places /\ "judging" \in Places /\ why \in {"none", "ok", "abort"} \cup Failed
    BY DEF TypeOK, Places, Failed, Failures
  <2>2. /\ pc' \in [Requests -> Places]
        /\ ctx' \in [Requests -> {"live", "ended"}]
        /\ answer' \in [Requests -> {"none", "ok", "abort"} \cup Failed]
    BY <1>20, <2>1, MoveTypes DEF RunFails
  <2>3. holders' \in [Accounts -> SUBSET Requests]
    BY <1>20, ReleaseTypes DEF RunFails
  <2>. QED  BY <1>20, <2>2, <2>3 DEF RunFails, TypeOK, Failures, Failed
<1>21. ASSUME NEW r \in Requests, NEW why \in Failures, ReloadFails(r, why)
       PROVE  TypeOK'
  <2>1. "judging" \in Places /\ why \in {"none", "ok", "abort"} \cup Failed
    BY DEF TypeOK, Places, Failed, Failures
  <2>2. /\ pc' \in [Requests -> Places]
        /\ ctx' \in [Requests -> {"live", "ended"}]
        /\ answer' \in [Requests -> {"none", "ok", "abort"} \cup Failed]
    BY <1>21, <2>1, MoveTypes DEF ReloadFails
  <2>. QED  BY <1>21, <2>2 DEF ReloadFails, TypeOK, Failures, Failed
<1>22. ASSUME NEW r \in Requests, RefreshFails(r) PROVE TypeOK'
  <2>1. "judging" \in Places /\ err[r] \in {"none", "ok", "abort"} \cup Failed
    BY DEF TypeOK, Places, Failed, Failures
  <2>2. /\ pc' \in [Requests -> Places]
        /\ ctx' \in [Requests -> {"live", "ended"}]
        /\ answer' \in [Requests -> {"none", "ok", "abort"} \cup Failed]
    BY <1>22, <2>1, MoveTypes DEF RefreshFails
  <2>. QED  BY <1>22, <2>2 DEF RefreshFails, TypeOK, Failures, Failed
<1>23. ASSUME NEW r \in Requests, RefreshNotSaved(r) PROVE TypeOK'
  BY <1>23 DEF RefreshNotSaved, TypeOK, Goto, Answer, Places, Failed
<1>24. ASSUME NEW r \in Requests, Refreshed(r) PROVE TypeOK'
  BY <1>24 DEF Refreshed, local, TypeOK, Goto, Answer, Places, Failed
<1>25. ASSUME NEW r \in Requests, Reloaded(r) PROVE TypeOK'
  BY <1>25 DEF Reloaded, local, TypeOK, Goto, Answer, Places, Failed
<1>26. ASSUME NEW r \in Requests, Emit(r) PROVE TypeOK'
  BY <1>26 DEF Emit, TypeOK, Goto, Answer, Places, Failed
<1>27. ASSUME NEW r \in Requests, ContextEnds(r) PROVE TypeOK'
  BY <1>27 DEF ContextEnds, TypeOK, Goto, Answer, Places, Failed
<1>28. ASSUME NEW r \in Requests, Again(r) PROVE TypeOK'
  BY <1>28 DEF Again, TypeOK, Goto, Answer, Places, Failed
<1>29. CASE UNCHANGED vars
  BY <1>29 DEF vars, local, TypeOK
<1>. QED  BY <1>1, <1>2, <1>3, <1>4, <1>5, <1>6, <1>7, <1>8, <1>9, <1>10, <1>11,
          <1>12, <1>13, <1>14, <1>15, <1>16, <1>17, <1>18, <1>19, <1>20, <1>21,
          <1>22, <1>23, <1>24, <1>25, <1>26, <1>27, <1>28, <1>29
     DEF Next, OwnStep, Reply


-----------------------------------------------------------------------------
(* What each place stands for.                                             *)

Shape == Settled /\ AccountOpen /\ ErrorKnown /\ Silent

LEMMA InitShape == Init => Shape
BY DEF Init, Shape, Settled, AccountOpen, ErrorKnown, Silent, Trying

\* An answer leaves all behind that the places stand for.
LEMMA AnswerShape ==
  ASSUME TypeOK, Shape, NEW r \in Requests, NEW what, Answer(r, what),
         UNCHANGED <<fate, acct, emitted, retried, runs, voice>>,
         \A q \in Requests : q # r => err'[q] = err[q]
  PROVE  Shape'
<1>1. /\ pc'[r] = "answered"
      /\ \A q \in Requests : q # r => pc'[q] = pc[q] /\ answer'[q] = answer[q]
  BY DEF Answer, Goto, TypeOK
<1>2. Settled'
  BY <1>1 DEF Shape, Settled, Pooled
<1>3. AccountOpen'
  BY <1>1 DEF Shape, AccountOpen, Trying, Pooled
<1>4. ErrorKnown'
  BY <1>1 DEF Shape, ErrorKnown
<1>5. Silent'
  BY <1>1 DEF Shape, Silent
<1>. QED  BY <1>2, <1>3, <1>4, <1>5 DEF Shape

\* So does a step within a try that changes nothing but the error.
LEMMA MoveShape ==
  ASSUME TypeOK, Shape, NEW r \in Requests, pc[r] \in Trying,
         NEW place \in {"failed", "judging", "saving"}, Goto(r, place),
         UNCHANGED <<fate, acct, emitted, retried, runs, voice, answer>>,
         \A q \in Requests : q # r => err'[q] = err[q],
         place = "saving" \/ err'[r] # "none",
         place = "failed" \/ Pooled(r)
  PROVE  Shape'
<1>1. pc'[r] = place /\ \A q \in Requests : q # r => pc'[q] = pc[q]
  BY DEF Goto, TypeOK
<1>2. Settled'
  BY <1>1 DEF Shape, Settled, Trying, Pooled
<1>3. AccountOpen'
  BY <1>1 DEF Shape, AccountOpen, Trying, Pooled
<1>4. ErrorKnown'
  BY <1>1 DEF Shape, ErrorKnown
<1>5. Silent'
  BY <1>1 DEF Shape, Silent
<1>. QED  BY <1>2, <1>3, <1>4, <1>5 DEF Shape

LEMMA ShapeStep ==
  ASSUME TypeOK, Shape, [Next]_vars PROVE Shape'
<1>. USE PoolAssumption
<1>1. ASSUME NEW r \in Requests, NEW candidates \in SUBSET Accounts, BeginPool(r, candidates)
      PROVE  Shape'
  BY <1>1 DEF BeginPool,
       Shape, Settled, AccountOpen, ErrorKnown, Silent, Trying, TypeOK, Goto, Answer, At, Pooled
<1>2. ASSUME NEW r \in Requests, BeginPrimary(r) PROVE Shape'
  BY <1>2 DEF BeginPrimary, local,
       Shape, Settled, AccountOpen, ErrorKnown, Silent, Trying, TypeOK, Goto, Answer, At, Pooled
<1>3. ASSUME NEW r \in Requests, NEW a \in Accounts, SeeFull(r, a) PROVE Shape'
  BY <1>3 DEF SeeFull,
       Shape, Settled, AccountOpen, ErrorKnown, Silent, Trying, TypeOK, Goto, Answer, At, Pooled
<1>4. ASSUME NEW r \in Requests, NEW a \in Accounts, SeeRoom(r, a) PROVE Shape'
  BY <1>4 DEF SeeRoom,
       Shape, Settled, AccountOpen, ErrorKnown, Silent, Trying, TypeOK, Goto, Answer, At, Pooled
<1>5. ASSUME NEW r \in Requests, NEW a \in Accounts, TakeSlot(r, a) PROVE Shape'
  BY <1>5 DEF TakeSlot, Open,
       Shape, Settled, AccountOpen, ErrorKnown, Silent, Trying, TypeOK, Goto, Answer, At, Pooled
<1>6. ASSUME NEW r \in Requests, NEW a \in Accounts, SkipBusy(r, a) PROVE Shape'
  BY <1>6 DEF SkipBusy,
       Shape, Settled, AccountOpen, ErrorKnown, Silent, Trying, TypeOK, Goto, Answer, At, Pooled
<1>7. ASSUME NEW r \in Requests, RefuseAtOnce(r) PROVE Shape'
  BY <1>7 DEF RefuseAtOnce,
       Shape, Settled, AccountOpen, ErrorKnown, Silent, Trying, TypeOK, Goto, Answer, At, Pooled
<1>8. ASSUME NEW r \in Requests, GiveUp(r) PROVE Shape'
  BY <1>8, AnswerShape DEF GiveUp
<1>9. ASSUME NEW r \in Requests, NEW what \in {"ok", "save"}, Save(r, what)
      PROVE  Shape'
  BY <1>9, AnswerShape DEF Save
<1>10. ASSUME NEW r \in Requests, AbandonFailed(r) PROVE Shape'
  BY <1>10, AnswerShape DEF AbandonFailed
<1>11. ASSUME NEW r \in Requests, StartRefresh(r) PROVE Shape'
  BY <1>11 DEF StartRefresh, MayRefresh, local,
       Shape, Settled, AccountOpen, ErrorKnown, Silent, Trying, TypeOK, Goto, Answer, At, Pooled
<1>12. ASSUME NEW r \in Requests, SkipRefresh(r) PROVE Shape'
  <2>1. CASE Pooled(r)
    BY <1>12, <2>1, MoveShape DEF SkipRefresh, At, Trying, TypeOK, Shape, ErrorKnown
  <2>2. CASE ~Pooled(r)
    BY <1>12, <2>2, AnswerShape DEF SkipRefresh, TypeOK
  <2>. QED  BY <2>1, <2>2
<1>13. ASSUME NEW r \in Requests, Rerun(r) PROVE Shape'
  BY <1>13 DEF Rerun, StartRun, Slots!Enter,
       Shape, Settled, AccountOpen, ErrorKnown, Silent, Trying, TypeOK, Goto, Answer, At, Pooled
<1>14. ASSUME NEW r \in Requests, SlotLost(r) PROVE Shape'
  BY <1>14 DEF SlotLost,
       Shape, Settled, AccountOpen, ErrorKnown, Silent, Trying, TypeOK, Goto, Answer, At, Pooled
<1>15. ASSUME NEW r \in Requests, Abandon(r) PROVE Shape'
  BY <1>15, AnswerShape DEF Abandon
<1>16. ASSUME NEW r \in Requests, RecordFailure(r) PROVE Shape'
  BY <1>16 DEF RecordFailure, EndOfTry,
       Shape, Settled, AccountOpen, ErrorKnown, Silent, Trying, TypeOK, Goto, Answer, At, Pooled
<1>17. ASSUME NEW r \in Requests, SessionReady(r) PROVE Shape'
  BY <1>17 DEF SessionReady, StartRun,
       Shape, Settled, AccountOpen, ErrorKnown, Silent, Trying, TypeOK, Goto, Answer, At, Pooled
<1>18. ASSUME NEW r \in Requests, RunSucceeds(r) PROVE Shape'
  <2>1. CASE Pooled(r)
    BY <1>18, <2>1, MoveShape DEF RunSucceeds, At, Trying, TypeOK, Shape, ErrorKnown
  <2>2. CASE ~Pooled(r)
    BY <1>18, <2>2, AnswerShape DEF RunSucceeds, TypeOK
  <2>. QED  BY <2>1, <2>2
<1>19. ASSUME NEW r \in Requests, NEW why \in Failures, SessionFails(r, why)
       PROVE  Shape'
  <2>1. CASE Pooled(r)
    BY <1>19, <2>1, MoveShape DEF SessionFails, At, Trying, TypeOK, Shape, ErrorKnown, Failures
  <2>2. CASE ~Pooled(r)
    BY <1>19, <2>2, AnswerShape DEF SessionFails, TypeOK
  <2>. QED  BY <2>1, <2>2
<1>20. ASSUME NEW r \in Requests, NEW why \in Failures, RunFails(r, why) PROVE Shape'
  <2>1. CASE Pooled(r) \/ ~retried[r]
    BY <1>20, <2>1, MoveShape DEF RunFails, Failures, At, Trying, TypeOK
  <2>2. CASE ~Pooled(r) /\ retried[r]
    BY <1>20, <2>2, AnswerShape DEF RunFails, TypeOK
  <2>. QED  BY <2>1, <2>2
<1>21. ASSUME NEW r \in Requests, NEW why \in Failures, ReloadFails(r, why)
       PROVE  Shape'
  <2>1. CASE Pooled(r)
    BY <1>21, <2>1, MoveShape DEF ReloadFails, At, Trying, TypeOK, Shape, ErrorKnown, Failures
  <2>2. CASE ~Pooled(r)
    BY <1>21, <2>2, AnswerShape DEF ReloadFails, TypeOK
  <2>. QED  BY <2>1, <2>2
<1>22. ASSUME NEW r \in Requests, RefreshFails(r) PROVE Shape'
  <2>1. CASE Pooled(r)
    BY <1>22, <2>1, MoveShape DEF RefreshFails, At, Trying, TypeOK, Shape, ErrorKnown
  <2>2. CASE ~Pooled(r)
    BY <1>22, <2>2, AnswerShape DEF RefreshFails, TypeOK
  <2>. QED  BY <2>1, <2>2
<1>23. ASSUME NEW r \in Requests, RefreshNotSaved(r) PROVE Shape'
  BY <1>23 DEF RefreshNotSaved,
       Shape, Settled, AccountOpen, ErrorKnown, Silent, Trying, TypeOK, Goto, Answer, At, Pooled
<1>24. ASSUME NEW r \in Requests, Refreshed(r) PROVE Shape'
  BY <1>24 DEF Refreshed, local,
       Shape, Settled, AccountOpen, ErrorKnown, Silent, Trying, TypeOK, Goto, Answer, At, Pooled
<1>25. ASSUME NEW r \in Requests, Reloaded(r) PROVE Shape'
  BY <1>25 DEF Reloaded, local,
       Shape, Settled, AccountOpen, ErrorKnown, Silent, Trying, TypeOK, Goto, Answer, At, Pooled
<1>26. ASSUME NEW r \in Requests, Emit(r) PROVE Shape'
  BY <1>26 DEF Emit,
       Shape, Settled, AccountOpen, ErrorKnown, Silent, Trying, TypeOK, Goto, Answer, At, Pooled
<1>27. ASSUME NEW r \in Requests, ContextEnds(r) PROVE Shape'
  BY <1>27 DEF ContextEnds,
       Shape, Settled, AccountOpen, ErrorKnown, Silent, Trying, TypeOK, Goto, Answer, At, Pooled
<1>28. ASSUME NEW r \in Requests, Again(r) PROVE Shape'
  BY <1>28 DEF Again,
       Shape, Settled, AccountOpen, ErrorKnown, Silent, Trying, TypeOK, Goto, Answer, At, Pooled
<1>29. CASE UNCHANGED vars
  BY <1>29 DEF vars, local,
       Shape, Settled, AccountOpen, ErrorKnown, Silent, Trying, TypeOK, Goto, Answer, At, Pooled
<1>. QED  BY <1>1, <1>2, <1>3, <1>4, <1>5, <1>6, <1>7, <1>8, <1>9, <1>10, <1>11,
          <1>12, <1>13, <1>14, <1>15, <1>16, <1>17, <1>18, <1>19, <1>20, <1>21,
          <1>22, <1>23, <1>24, <1>25, <1>26, <1>27, <1>28, <1>29
     DEF Next, OwnStep, Reply

-----------------------------------------------------------------------------
(* Slots and fates.                                                        *)

LEMMA ReleaseFrees ==
  ASSUME TypeOK, SlotHeldExactlyWhileTrying, NEW r \in Requests, ReleaseSlot(r),
         acct' = acct, pc'[r] \notin {"loading", "running"},
         \A q \in Requests : q # r => pc'[q] = pc[q]
  PROVE  SlotHeldExactlyWhileTrying'
<1>1. CASE Pooled(r)
  <2>1. acct[r] \in Accounts /\ holders' = [holders EXCEPT ![acct[r]] = @ \ {r}]
    BY <1>1 DEF ReleaseSlot, Slots!Leave, Pooled, TypeOK
  <2>. QED  BY <2>1 DEF SlotHeldExactlyWhileTrying, TypeOK
<1>2. CASE ~Pooled(r)
  BY <1>2, PoolAssumption DEF ReleaseSlot, Pooled, SlotHeldExactlyWhileTrying
<1>. QED  BY <1>1, <1>2

LEMMA SlotsStep ==
  ASSUME TypeOK, Shape, SlotHeldExactlyWhileTrying, [Next]_vars
  PROVE  SlotHeldExactlyWhileTrying'
<1>. USE PoolAssumption
<1>1. ASSUME NEW r \in Requests, NEW candidates \in SUBSET Accounts, BeginPool(r, candidates)
      PROVE  SlotHeldExactlyWhileTrying'
  BY <1>1 DEF BeginPool,
       SlotHeldExactlyWhileTrying, TypeOK, Goto, Answer, At, Pooled, Shape, Settled
<1>2. ASSUME NEW r \in Requests, BeginPrimary(r) PROVE SlotHeldExactlyWhileTrying'
  BY <1>2 DEF BeginPrimary, local,
       SlotHeldExactlyWhileTrying, TypeOK, Goto, Answer, At, Pooled, Shape, Settled
<1>3. ASSUME NEW r \in Requests, NEW a \in Accounts, SeeFull(r, a)
      PROVE  SlotHeldExactlyWhileTrying'
  BY <1>3 DEF SeeFull,
       SlotHeldExactlyWhileTrying, TypeOK, Goto, Answer, At, Pooled
<1>4. ASSUME NEW r \in Requests, NEW a \in Accounts, SeeRoom(r, a)
      PROVE  SlotHeldExactlyWhileTrying'
  BY <1>4 DEF SeeRoom,
       SlotHeldExactlyWhileTrying, TypeOK, Goto, Answer, At, Pooled
<1>5. ASSUME NEW r \in Requests, NEW a \in Accounts, TakeSlot(r, a)
      PROVE  SlotHeldExactlyWhileTrying'
  BY <1>5 DEF TakeSlot, Slots!Enter,
       SlotHeldExactlyWhileTrying, TypeOK, Goto, Answer, At, Pooled, Shape, Settled
<1>6. ASSUME NEW r \in Requests, NEW a \in Accounts, SkipBusy(r, a)
      PROVE  SlotHeldExactlyWhileTrying'
  BY <1>6 DEF SkipBusy,
       SlotHeldExactlyWhileTrying, TypeOK, Goto, Answer, At, Pooled
<1>7. ASSUME NEW r \in Requests, RefuseAtOnce(r) PROVE SlotHeldExactlyWhileTrying'
  BY <1>7 DEF RefuseAtOnce,
       SlotHeldExactlyWhileTrying, TypeOK, Goto, Answer, At, Pooled
<1>8. ASSUME NEW r \in Requests, GiveUp(r) PROVE SlotHeldExactlyWhileTrying'
  BY <1>8 DEF GiveUp,
       SlotHeldExactlyWhileTrying, TypeOK, Goto, Answer, At, Pooled
<1>9. ASSUME NEW r \in Requests, NEW what \in {"ok", "save"}, Save(r, what)
      PROVE  SlotHeldExactlyWhileTrying'
  BY <1>9 DEF Save,
       SlotHeldExactlyWhileTrying, TypeOK, Goto, Answer, At, Pooled
<1>10. ASSUME NEW r \in Requests, AbandonFailed(r) PROVE SlotHeldExactlyWhileTrying'
  BY <1>10 DEF AbandonFailed,
       SlotHeldExactlyWhileTrying, TypeOK, Goto, Answer, At, Pooled
<1>11. ASSUME NEW r \in Requests, StartRefresh(r) PROVE SlotHeldExactlyWhileTrying'
  BY <1>11 DEF StartRefresh, local,
       SlotHeldExactlyWhileTrying, TypeOK, Goto, Answer, At, Pooled
<1>12. ASSUME NEW r \in Requests, SkipRefresh(r) PROVE SlotHeldExactlyWhileTrying'
  BY <1>12 DEF SkipRefresh,
       SlotHeldExactlyWhileTrying, TypeOK, Goto, Answer, At, Pooled
<1>13. ASSUME NEW r \in Requests, Rerun(r) PROVE SlotHeldExactlyWhileTrying'
  <2>1. CASE Pooled(r)
    BY <1>13, <2>1 DEF Rerun, StartRun, Slots!Enter,
       SlotHeldExactlyWhileTrying, TypeOK, Goto, At, Pooled
  <2>2. CASE ~Pooled(r)
    BY <1>13, <2>2 DEF Rerun, StartRun, SlotHeldExactlyWhileTrying, TypeOK, Goto, Pooled
  <2>. QED  BY <2>1, <2>2
<1>14. ASSUME NEW r \in Requests, SlotLost(r) PROVE SlotHeldExactlyWhileTrying'
  BY <1>14 DEF SlotLost,
       SlotHeldExactlyWhileTrying, TypeOK, Goto, Answer, At, Pooled
<1>15. ASSUME NEW r \in Requests, Abandon(r) PROVE SlotHeldExactlyWhileTrying'
  BY <1>15 DEF Abandon,
       SlotHeldExactlyWhileTrying, TypeOK, Goto, Answer, At, Pooled
<1>16. ASSUME NEW r \in Requests, RecordFailure(r) PROVE SlotHeldExactlyWhileTrying'
  BY <1>16 DEF RecordFailure, EndOfTry,
       SlotHeldExactlyWhileTrying, TypeOK, Goto, Answer, At, Pooled
<1>17. ASSUME NEW r \in Requests, SessionReady(r) PROVE SlotHeldExactlyWhileTrying'
  BY <1>17 DEF SessionReady, StartRun,
       SlotHeldExactlyWhileTrying, TypeOK, Goto, Answer, At, Pooled
<1>18. ASSUME NEW r \in Requests, RunSucceeds(r) PROVE SlotHeldExactlyWhileTrying'
  <2>1. pc'[r] \notin {"loading", "running"} /\ \A q \in Requests : q # r => pc'[q] = pc[q]
    BY <1>18 DEF RunSucceeds, TypeOK, Goto, Answer
  <2>. QED  BY <1>18, <2>1, ReleaseFrees DEF RunSucceeds
<1>19. ASSUME NEW r \in Requests, NEW why \in Failures, SessionFails(r, why)
       PROVE  SlotHeldExactlyWhileTrying'
  <2>1. pc'[r] \notin {"loading", "running"} /\ \A q \in Requests : q # r => pc'[q] = pc[q]
    BY <1>19 DEF SessionFails, TypeOK, Goto, Answer
  <2>. QED  BY <1>19, <2>1, ReleaseFrees DEF SessionFails
<1>20. ASSUME NEW r \in Requests, NEW why \in Failures, RunFails(r, why)
       PROVE  SlotHeldExactlyWhileTrying'
  <2>1. pc'[r] \notin {"loading", "running"} /\ \A q \in Requests : q # r => pc'[q] = pc[q]
    BY <1>20 DEF RunFails, TypeOK, Goto, Answer
  <2>. QED  BY <1>20, <2>1, ReleaseFrees DEF RunFails
<1>21. ASSUME NEW r \in Requests, NEW why \in Failures, ReloadFails(r, why)
       PROVE  SlotHeldExactlyWhileTrying'
  BY <1>21 DEF ReloadFails,
       SlotHeldExactlyWhileTrying, TypeOK, Goto, Answer, At, Pooled
<1>22. ASSUME NEW r \in Requests, RefreshFails(r) PROVE SlotHeldExactlyWhileTrying'
  BY <1>22 DEF RefreshFails,
       SlotHeldExactlyWhileTrying, TypeOK, Goto, Answer, At, Pooled
<1>23. ASSUME NEW r \in Requests, RefreshNotSaved(r) PROVE SlotHeldExactlyWhileTrying'
  BY <1>23 DEF RefreshNotSaved,
       SlotHeldExactlyWhileTrying, TypeOK, Goto, Answer, At, Pooled
<1>24. ASSUME NEW r \in Requests, Refreshed(r) PROVE SlotHeldExactlyWhileTrying'
  BY <1>24 DEF Refreshed, local,
       SlotHeldExactlyWhileTrying, TypeOK, Goto, Answer, At, Pooled
<1>25. ASSUME NEW r \in Requests, Reloaded(r) PROVE SlotHeldExactlyWhileTrying'
  BY <1>25 DEF Reloaded, local,
       SlotHeldExactlyWhileTrying, TypeOK, Goto, Answer, At, Pooled
<1>26. ASSUME NEW r \in Requests, Emit(r) PROVE SlotHeldExactlyWhileTrying'
  BY <1>26 DEF Emit,
       SlotHeldExactlyWhileTrying, TypeOK, Goto, Answer, At, Pooled
<1>27. ASSUME NEW r \in Requests, ContextEnds(r) PROVE SlotHeldExactlyWhileTrying'
  BY <1>27 DEF ContextEnds,
       SlotHeldExactlyWhileTrying, TypeOK, Goto, Answer, At, Pooled
<1>28. ASSUME NEW r \in Requests, Again(r) PROVE SlotHeldExactlyWhileTrying'
  BY <1>28 DEF Again,
       SlotHeldExactlyWhileTrying, TypeOK, Goto, Answer, At, Pooled
<1>29. CASE UNCHANGED vars
  BY <1>29 DEF vars, local,
       SlotHeldExactlyWhileTrying, TypeOK, Goto, Answer, At, Pooled
<1>. QED  BY <1>1, <1>2, <1>3, <1>4, <1>5, <1>6, <1>7, <1>8, <1>9, <1>10, <1>11,
          <1>12, <1>13, <1>14, <1>15, <1>16, <1>17, <1>18, <1>19, <1>20, <1>21,
          <1>22, <1>23, <1>24, <1>25, <1>26, <1>27, <1>28, <1>29
     DEF Next, OwnStep, Reply

\* Who returns an error, having no account in use, has no candidate left.
LEMMA FatesKept ==
  ASSUME TypeOK, FailsOnlyWhenExhausted, AbortsBlameNobody, NEW r \in Requests,
         UNCHANGED <<fate, emitted>>,
         \A q \in Requests : q # r => answer'[q] = answer[q],
         \/ answer'[r] = answer[r]
         \/ answer'[r] \notin {"auth", "other", "capacity"}
         \/ \A a \in Accounts : fate[r][a] # "open"
  PROVE  FailsOnlyWhenExhausted' /\ AbortsBlameNobody'
BY DEF FailsOnlyWhenExhausted, AbortsBlameNobody, Open

LEMMA FatesStep ==
  ASSUME TypeOK, Shape, FailsOnlyWhenExhausted, AbortsBlameNobody, [Next]_vars
  PROVE  FailsOnlyWhenExhausted' /\ AbortsBlameNobody'
<1>. USE PoolAssumption
<1>1. ASSUME NEW r \in Requests, NEW candidates \in SUBSET Accounts, BeginPool(r, candidates)
      PROVE  FailsOnlyWhenExhausted' /\ AbortsBlameNobody'
  <2>1. /\ answer' = answer /\ emitted' = emitted /\ answer[r] = "none"
        /\ fate' = [fate EXCEPT ![r] = [a \in Accounts |->
                       IF a \in candidates THEN "open" ELSE "none"]]
    BY <1>1 DEF BeginPool, At, Shape, Settled, TypeOK
  <2>2. \A q \in Requests : q # r => fate'[q] = fate[q]
    BY <2>1 DEF TypeOK
  <2>3. \A a \in Accounts : fate'[r][a] \in {"open", "none"}
    BY <2>1 DEF TypeOK
  <2>. QED  BY <2>1, <2>2, <2>3 DEF FailsOnlyWhenExhausted, AbortsBlameNobody, Open
<1>2. ASSUME NEW r \in Requests, BeginPrimary(r)
      PROVE  FailsOnlyWhenExhausted' /\ AbortsBlameNobody'
  BY <1>2 DEF BeginPrimary, local,
       FailsOnlyWhenExhausted, AbortsBlameNobody, Open, Shape, AccountOpen, Settled,
       Trying, Aborted, TypeOK, Goto, Answer, At, Pooled
<1>3. ASSUME NEW r \in Requests, NEW a \in Accounts, SeeFull(r, a)
      PROVE  FailsOnlyWhenExhausted' /\ AbortsBlameNobody'
  BY <1>3 DEF SeeFull,
       FailsOnlyWhenExhausted, AbortsBlameNobody, Open, Shape, AccountOpen, Settled,
       Trying, Aborted, TypeOK, Goto, Answer, At, Pooled
<1>4. ASSUME NEW r \in Requests, NEW a \in Accounts, SeeRoom(r, a)
      PROVE  FailsOnlyWhenExhausted' /\ AbortsBlameNobody'
  BY <1>4 DEF SeeRoom,
       FailsOnlyWhenExhausted, AbortsBlameNobody, Open, Shape, AccountOpen, Settled,
       Trying, Aborted, TypeOK, Goto, Answer, At, Pooled
<1>5. ASSUME NEW r \in Requests, NEW a \in Accounts, TakeSlot(r, a)
      PROVE  FailsOnlyWhenExhausted' /\ AbortsBlameNobody'
  BY <1>5 DEF TakeSlot,
       FailsOnlyWhenExhausted, AbortsBlameNobody, Open, Shape, AccountOpen, Settled,
       Trying, Aborted, TypeOK, Goto, Answer, At, Pooled
<1>6. ASSUME NEW r \in Requests, NEW a \in Accounts, SkipBusy(r, a)
      PROVE  FailsOnlyWhenExhausted' /\ AbortsBlameNobody'
  BY <1>6 DEF SkipBusy,
       FailsOnlyWhenExhausted, AbortsBlameNobody, Open, Shape, AccountOpen, Settled,
       Trying, Aborted, TypeOK, Goto, Answer, At, Pooled
<1>7. ASSUME NEW r \in Requests, RefuseAtOnce(r)
      PROVE  FailsOnlyWhenExhausted' /\ AbortsBlameNobody'
  BY <1>7 DEF RefuseAtOnce,
       FailsOnlyWhenExhausted, AbortsBlameNobody, Open, Shape, AccountOpen, Settled,
       Trying, Aborted, TypeOK, Goto, Answer, At, Pooled
<1>8. ASSUME NEW r \in Requests, GiveUp(r)
      PROVE  FailsOnlyWhenExhausted' /\ AbortsBlameNobody'
  BY <1>8 DEF GiveUp,
       FailsOnlyWhenExhausted, AbortsBlameNobody, Open, Shape, AccountOpen, Settled,
       Trying, Aborted, TypeOK, Goto, Answer, At, Pooled
<1>9. ASSUME NEW r \in Requests, NEW what \in {"ok", "save"}, Save(r, what)
      PROVE  FailsOnlyWhenExhausted' /\ AbortsBlameNobody'
  BY <1>9 DEF Save,
       FailsOnlyWhenExhausted, AbortsBlameNobody, Open, Shape, AccountOpen, Settled,
       Trying, Aborted, TypeOK, Goto, Answer, At, Pooled
<1>10. ASSUME NEW r \in Requests, AbandonFailed(r)
       PROVE  FailsOnlyWhenExhausted' /\ AbortsBlameNobody'
  BY <1>10 DEF AbandonFailed,
       FailsOnlyWhenExhausted, AbortsBlameNobody, Open, Shape, AccountOpen, Settled,
       Trying, Aborted, TypeOK, Goto, Answer, At, Pooled
<1>11. ASSUME NEW r \in Requests, StartRefresh(r)
       PROVE  FailsOnlyWhenExhausted' /\ AbortsBlameNobody'
  BY <1>11 DEF StartRefresh, local,
       FailsOnlyWhenExhausted, AbortsBlameNobody, Open, Shape, AccountOpen, Settled,
       Trying, Aborted, TypeOK, Goto, Answer, At, Pooled
<1>12. ASSUME NEW r \in Requests, SkipRefresh(r)
       PROVE  FailsOnlyWhenExhausted' /\ AbortsBlameNobody'
  <2>1. CASE Pooled(r)
    BY <1>12, <2>1, FatesKept DEF SkipRefresh
  <2>2. CASE ~Pooled(r)
    <3>1. \A a \in Accounts : fate[r][a] # "open"
      BY <1>12, <2>2 DEF SkipRefresh, At, Shape, AccountOpen, Trying
    <3>. QED  BY <1>12, <2>2, <3>1, FatesKept DEF SkipRefresh, Answer, Goto, TypeOK
  <2>. QED  BY <2>1, <2>2
<1>13. ASSUME NEW r \in Requests, Rerun(r)
       PROVE  FailsOnlyWhenExhausted' /\ AbortsBlameNobody'
  BY <1>13 DEF Rerun, StartRun,
       FailsOnlyWhenExhausted, AbortsBlameNobody, Open, Shape, AccountOpen, Settled,
       Trying, Aborted, TypeOK, Goto, Answer, At, Pooled
<1>14. ASSUME NEW r \in Requests, SlotLost(r)
       PROVE  FailsOnlyWhenExhausted' /\ AbortsBlameNobody'
  BY <1>14 DEF SlotLost,
       FailsOnlyWhenExhausted, AbortsBlameNobody, Open, Shape, AccountOpen, Settled,
       Trying, Aborted, TypeOK, Goto, Answer, At, Pooled
<1>15. ASSUME NEW r \in Requests, Abandon(r)
       PROVE  FailsOnlyWhenExhausted' /\ AbortsBlameNobody'
  BY <1>15 DEF Abandon,
       FailsOnlyWhenExhausted, AbortsBlameNobody, Open, Shape, AccountOpen, Settled,
       Trying, Aborted, TypeOK, Goto, Answer, At, Pooled
<1>16. ASSUME NEW r \in Requests, RecordFailure(r)
       PROVE  FailsOnlyWhenExhausted' /\ AbortsBlameNobody'
  BY <1>16 DEF RecordFailure, EndOfTry,
       FailsOnlyWhenExhausted, AbortsBlameNobody, Open, Shape, AccountOpen, Settled,
       Trying, Aborted, TypeOK, Goto, Answer, At, Pooled
<1>17. ASSUME NEW r \in Requests, SessionReady(r)
       PROVE  FailsOnlyWhenExhausted' /\ AbortsBlameNobody'
  BY <1>17 DEF SessionReady, StartRun,
       FailsOnlyWhenExhausted, AbortsBlameNobody, Open, Shape, AccountOpen, Settled,
       Trying, Aborted, TypeOK, Goto, Answer, At, Pooled
<1>18. ASSUME NEW r \in Requests, RunSucceeds(r)
       PROVE  FailsOnlyWhenExhausted' /\ AbortsBlameNobody'
  <2>1. CASE Pooled(r)
    BY <1>18, <2>1, FatesKept DEF RunSucceeds
  <2>2. CASE ~Pooled(r)
    <3>1. \A a \in Accounts : fate[r][a] # "open"
      BY <1>18, <2>2 DEF RunSucceeds, At, Shape, AccountOpen, Trying
    <3>. QED  BY <1>18, <2>2, <3>1, FatesKept DEF RunSucceeds, Answer, Goto, TypeOK
  <2>. QED  BY <2>1, <2>2
<1>19. ASSUME NEW r \in Requests, NEW why \in Failures, SessionFails(r, why)
       PROVE  FailsOnlyWhenExhausted' /\ AbortsBlameNobody'
  <2>1. CASE Pooled(r)
    BY <1>19, <2>1, FatesKept DEF SessionFails
  <2>2. CASE ~Pooled(r)
    <3>1. \A a \in Accounts : fate[r][a] # "open"
      BY <1>19, <2>2 DEF SessionFails, At, Shape, AccountOpen, Trying
    <3>. QED  BY <1>19, <2>2, <3>1, FatesKept DEF SessionFails, Answer, Goto, TypeOK
  <2>. QED  BY <2>1, <2>2
<1>20. ASSUME NEW r \in Requests, NEW why \in Failures, RunFails(r, why)
       PROVE  FailsOnlyWhenExhausted' /\ AbortsBlameNobody'
  <2>1. CASE Pooled(r)
    BY <1>20, <2>1, FatesKept DEF RunFails, Goto, Answer, TypeOK
  <2>2. CASE ~Pooled(r)
    <3>1. \A a \in Accounts : fate[r][a] # "open"
      BY <1>20, <2>2 DEF RunFails, At, Shape, AccountOpen, Trying
    <3>. QED  BY <1>20, <2>2, <3>1, FatesKept DEF RunFails, Answer, Goto, TypeOK
  <2>. QED  BY <2>1, <2>2
<1>21. ASSUME NEW r \in Requests, NEW why \in Failures, ReloadFails(r, why)
       PROVE  FailsOnlyWhenExhausted' /\ AbortsBlameNobody'
  <2>1. CASE Pooled(r)
    BY <1>21, <2>1, FatesKept DEF ReloadFails
  <2>2. CASE ~Pooled(r)
    <3>1. \A a \in Accounts : fate[r][a] # "open"
      BY <1>21, <2>2 DEF ReloadFails, At, Shape, AccountOpen, Trying
    <3>. QED  BY <1>21, <2>2, <3>1, FatesKept DEF ReloadFails, Answer, Goto, TypeOK
  <2>. QED  BY <2>1, <2>2
<1>22. ASSUME NEW r \in Requests, RefreshFails(r)
       PROVE  FailsOnlyWhenExhausted' /\ AbortsBlameNobody'
  <2>1. CASE Pooled(r)
    BY <1>22, <2>1, FatesKept DEF RefreshFails
  <2>2. CASE ~Pooled(r)
    <3>1. \A a \in Accounts : fate[r][a] # "open"
      BY <1>22, <2>2 DEF RefreshFails, At, Shape, AccountOpen, Trying
    <3>. QED  BY <1>22, <2>2, <3>1, FatesKept DEF RefreshFails, Answer, Goto, TypeOK
  <2>. QED  BY <2>1, <2>2
<1>23. ASSUME NEW r \in Requests, RefreshNotSaved(r)
       PROVE  FailsOnlyWhenExhausted' /\ AbortsBlameNobody'
  BY <1>23 DEF RefreshNotSaved,
       FailsOnlyWhenExhausted, AbortsBlameNobody, Open, Shape, AccountOpen, Settled,
       Trying, Aborted, TypeOK, Goto, Answer, At, Pooled
<1>24. ASSUME NEW r \in Requests, Refreshed(r)
       PROVE  FailsOnlyWhenExhausted' /\ AbortsBlameNobody'
  BY <1>24 DEF Refreshed, local,
       FailsOnlyWhenExhausted, AbortsBlameNobody, Open, Shape, AccountOpen, Settled,
       Trying, Aborted, TypeOK, Goto, Answer, At, Pooled
<1>25. ASSUME NEW r \in Requests, Reloaded(r)
       PROVE  FailsOnlyWhenExhausted' /\ AbortsBlameNobody'
  BY <1>25 DEF Reloaded, local,
       FailsOnlyWhenExhausted, AbortsBlameNobody, Open, Shape, AccountOpen, Settled,
       Trying, Aborted, TypeOK, Goto, Answer, At, Pooled
<1>26. ASSUME NEW r \in Requests, Emit(r)
       PROVE  FailsOnlyWhenExhausted' /\ AbortsBlameNobody'
  BY <1>26 DEF Emit,
       FailsOnlyWhenExhausted, AbortsBlameNobody, Open, Shape, AccountOpen, Settled,
       Trying, Aborted, TypeOK, Goto, Answer, At, Pooled
<1>27. ASSUME NEW r \in Requests, ContextEnds(r)
       PROVE  FailsOnlyWhenExhausted' /\ AbortsBlameNobody'
  BY <1>27 DEF ContextEnds,
       FailsOnlyWhenExhausted, AbortsBlameNobody, Open, Shape, AccountOpen, Settled,
       Trying, Aborted, TypeOK, Goto, Answer, At, Pooled
<1>28. ASSUME NEW r \in Requests, Again(r)
       PROVE  FailsOnlyWhenExhausted' /\ AbortsBlameNobody'
  BY <1>28 DEF Again,
       FailsOnlyWhenExhausted, AbortsBlameNobody, Open, Shape, AccountOpen, Settled,
       Trying, Aborted, TypeOK, Goto, Answer, At, Pooled
<1>29. CASE UNCHANGED vars
  BY <1>29 DEF vars, local,
       FailsOnlyWhenExhausted, AbortsBlameNobody, Open, Shape, AccountOpen, Settled,
       Trying, Aborted, TypeOK, Goto, Answer, At, Pooled
<1>. QED  BY <1>1, <1>2, <1>3, <1>4, <1>5, <1>6, <1>7, <1>8, <1>9, <1>10, <1>11,
          <1>12, <1>13, <1>14, <1>15, <1>16, <1>17, <1>18, <1>19, <1>20, <1>21,
          <1>22, <1>23, <1>24, <1>25, <1>26, <1>27, <1>28, <1>29
     DEF Next, OwnStep, Reply

-----------------------------------------------------------------------------
(* Counting runs.                                                          *)

LEMMA AccountsCount ==
  \A S \in SUBSET Accounts : IsFiniteSet(S) /\ Cardinality(S) \in Nat
BY PoolAssumption, FS_Subset, FS_CardinalityType

\* A step that closes no account: the request gains at most what its place allows.
LEMMA RunsKept ==
  ASSUME TypeOK, RunsCounted, NEW r \in Requests, fate' = fate,
         \A q \in Requests : q # r =>
           pc'[q] = pc[q] /\ runs'[q] = runs[q] /\ retried'[q] = retried[q],
         runs'[r] \in Nat,
         pc'[r] = "answered" \/ (pc[r] # "answered"
                                 /\ runs'[r] - Extra(r)' <= runs[r] - Extra(r)),
         retried'[r] => pc'[r] \in {"running", "judging", "saving", "answered"}
  PROVE  RunsCounted'
<1>1. \A q \in Requests : Closed(q)' = Closed(q)
  BY DEF Closed
<1>2. \A q \in Requests : Cardinality(Closed(q)) \in Nat
  BY AccountsCount DEF Closed
<1>3. \A q \in Requests : q # r => Extra(q)' = Extra(q)
  BY DEF Extra
<1>4. Extra(r) \in Nat /\ Extra(r)' \in Nat
  BY DEF Extra
<1>5. runs \in [Requests -> Nat]
  BY DEF TypeOK
<1>. QED  BY <1>1, <1>2, <1>3, <1>4, <1>5 DEF RunsCounted

LEMMA RunsStep ==
  ASSUME TypeOK, Shape, RunsCounted, [Next]_vars PROVE RunsCounted'
<1>. USE PoolAssumption
<1>1. ASSUME NEW r \in Requests, NEW candidates \in SUBSET Accounts, BeginPool(r, candidates)
      PROVE  RunsCounted'
  <2>1. \A q \in Requests : q # r =>
          pc'[q] = pc[q] /\ Extra(q)' = Extra(q) /\ Closed(q)' = Closed(q)
    BY <1>1 DEF BeginPool, Goto, TypeOK, Extra, Closed
  <2>2. /\ runs' = runs /\ retried' = retried /\ runs[r] = 0 /\ ~retried[r]
        /\ Extra(r)' = 0
    BY <1>1 DEF BeginPool, At, Shape, Settled, Goto, TypeOK, Extra
  <2>3. Cardinality(Closed(r)') \in Nat
    BY AccountsCount DEF Closed
  <2>. QED  BY <2>1, <2>2, <2>3 DEF RunsCounted
<1>2. ASSUME NEW r \in Requests, BeginPrimary(r) PROVE RunsCounted'
  <2>1. /\ fate' = fate
        /\ \A q \in Requests : q # r =>
             pc'[q] = pc[q] /\ runs'[q] = runs[q] /\ retried'[q] = retried[q]
    BY <1>2 DEF BeginPrimary, local, Goto, Answer, TypeOK
  <2>2. /\ runs'[r] \in Nat
        /\ pc'[r] = "answered" \/ (pc[r] # "answered"
                                   /\ runs'[r] - Extra(r)' <= runs[r] - Extra(r))
        /\ retried'[r] => pc'[r] \in {"running", "judging", "saving", "answered"}
    BY <1>2 DEF BeginPrimary, local, Extra,
       Shape, Settled, RunsCounted, TypeOK, Goto, Answer, At, Pooled
  <2>. QED  BY <2>1, <2>2, RunsKept
<1>3. ASSUME NEW r \in Requests, NEW a \in Accounts, SeeFull(r, a) PROVE RunsCounted'
  <2>1. /\ fate' = fate
        /\ \A q \in Requests : q # r =>
             pc'[q] = pc[q] /\ runs'[q] = runs[q] /\ retried'[q] = retried[q]
    BY <1>3 DEF SeeFull, Goto, Answer, TypeOK
  <2>2. /\ runs'[r] \in Nat
        /\ pc'[r] = "answered" \/ (pc[r] # "answered"
                                   /\ runs'[r] - Extra(r)' <= runs[r] - Extra(r))
        /\ retried'[r] => pc'[r] \in {"running", "judging", "saving", "answered"}
    BY <1>3 DEF SeeFull, Extra,
       Shape, Settled, RunsCounted, TypeOK, Goto, Answer, At, Pooled
  <2>. QED  BY <2>1, <2>2, RunsKept
<1>4. ASSUME NEW r \in Requests, NEW a \in Accounts, SeeRoom(r, a) PROVE RunsCounted'
  <2>1. /\ fate' = fate
        /\ \A q \in Requests : q # r =>
             pc'[q] = pc[q] /\ runs'[q] = runs[q] /\ retried'[q] = retried[q]
    BY <1>4 DEF SeeRoom, Goto, Answer, TypeOK
  <2>2. /\ runs'[r] \in Nat
        /\ pc'[r] = "answered" \/ (pc[r] # "answered"
                                   /\ runs'[r] - Extra(r)' <= runs[r] - Extra(r))
        /\ retried'[r] => pc'[r] \in {"running", "judging", "saving", "answered"}
    BY <1>4 DEF SeeRoom, Extra,
       Shape, Settled, RunsCounted, TypeOK, Goto, Answer, At, Pooled
  <2>. QED  BY <2>1, <2>2, RunsKept
<1>5. ASSUME NEW r \in Requests, NEW a \in Accounts, TakeSlot(r, a) PROVE RunsCounted'
  <2>1. /\ fate' = fate
        /\ \A q \in Requests : q # r =>
             pc'[q] = pc[q] /\ runs'[q] = runs[q] /\ retried'[q] = retried[q]
    BY <1>5 DEF TakeSlot, Goto, Answer, TypeOK
  <2>2. /\ runs'[r] \in Nat
        /\ pc'[r] = "answered" \/ (pc[r] # "answered"
                                   /\ runs'[r] - Extra(r)' <= runs[r] - Extra(r))
        /\ retried'[r] => pc'[r] \in {"running", "judging", "saving", "answered"}
    BY <1>5 DEF TakeSlot, Extra,
       Shape, Settled, RunsCounted, TypeOK, Goto, Answer, At, Pooled
  <2>. QED  BY <2>1, <2>2, RunsKept
<1>6. ASSUME NEW r \in Requests, NEW a \in Accounts, SkipBusy(r, a) PROVE RunsCounted'
  <2>1. \A q \in Requests : q # r => Extra(q)' = Extra(q) /\ Closed(q)' = Closed(q)
    BY <1>6 DEF SkipBusy, TypeOK, Extra, Closed
  <2>2. UNCHANGED <<pc, runs, retried>> /\ Extra(r)' = Extra(r) /\ Extra(r) \in Nat
    BY <1>6 DEF SkipBusy, Extra
  <2>3. Closed(r)' = Closed(r) \cup {a}
    BY <1>6 DEF SkipBusy, TypeOK, Closed
  <2>4. Cardinality(Closed(r)) <= Cardinality(Closed(r)')
    BY <2>3, AccountsCount, FS_Subset DEF Closed
  <2>5. Cardinality(Closed(r)) \in Nat /\ Cardinality(Closed(r)') \in Nat
    BY AccountsCount DEF Closed
  <2>. QED  BY <2>1, <2>2, <2>4, <2>5 DEF RunsCounted, TypeOK
<1>7. ASSUME NEW r \in Requests, RefuseAtOnce(r) PROVE RunsCounted'
  <2>1. \A q \in Requests : q # r =>
          pc'[q] = pc[q] /\ Extra(q)' = Extra(q) /\ Closed(q)' = Closed(q)
    BY <1>7 DEF RefuseAtOnce, Answer, Goto, TypeOK, Extra, Closed
  <2>2. pc'[r] = "answered" /\ runs' = runs /\ retried' = retried
    BY <1>7 DEF RefuseAtOnce, Answer, Goto, TypeOK
  <2>. QED  BY <2>1, <2>2 DEF RunsCounted
<1>8. ASSUME NEW r \in Requests, GiveUp(r) PROVE RunsCounted'
  <2>1. /\ fate' = fate
        /\ \A q \in Requests : q # r =>
             pc'[q] = pc[q] /\ runs'[q] = runs[q] /\ retried'[q] = retried[q]
    BY <1>8 DEF GiveUp, Goto, Answer, TypeOK
  <2>2. /\ runs'[r] \in Nat
        /\ pc'[r] = "answered" \/ (pc[r] # "answered"
                                   /\ runs'[r] - Extra(r)' <= runs[r] - Extra(r))
        /\ retried'[r] => pc'[r] \in {"running", "judging", "saving", "answered"}
    BY <1>8 DEF GiveUp, Extra,
       Shape, Settled, RunsCounted, TypeOK, Goto, Answer, At, Pooled
  <2>. QED  BY <2>1, <2>2, RunsKept
<1>9. ASSUME NEW r \in Requests, NEW what \in {"ok", "save"}, Save(r, what)
      PROVE  RunsCounted'
  <2>1. /\ fate' = fate
        /\ \A q \in Requests : q # r =>
             pc'[q] = pc[q] /\ runs'[q] = runs[q] /\ retried'[q] = retried[q]
    BY <1>9 DEF Save, Goto, Answer, TypeOK
  <2>2. /\ runs'[r] \in Nat
        /\ pc'[r] = "answered" \/ (pc[r] # "answered"
                                   /\ runs'[r] - Extra(r)' <= runs[r] - Extra(r))
        /\ retried'[r] => pc'[r] \in {"running", "judging", "saving", "answered"}
    BY <1>9 DEF Save, Extra,
       Shape, Settled, RunsCounted, TypeOK, Goto, Answer, At, Pooled
  <2>. QED  BY <2>1, <2>2, RunsKept
<1>10. ASSUME NEW r \in Requests, AbandonFailed(r) PROVE RunsCounted'
  <2>1. /\ fate' = fate
        /\ \A q \in Requests : q # r =>
             pc'[q] = pc[q] /\ runs'[q] = runs[q] /\ retried'[q] = retried[q]
    BY <1>10 DEF AbandonFailed, Goto, Answer, TypeOK
  <2>2. /\ runs'[r] \in Nat
        /\ pc'[r] = "answered" \/ (pc[r] # "answered"
                                   /\ runs'[r] - Extra(r)' <= runs[r] - Extra(r))
        /\ retried'[r] => pc'[r] \in {"running", "judging", "saving", "answered"}
    BY <1>10 DEF AbandonFailed, Extra,
       Shape, Settled, RunsCounted, TypeOK, Goto, Answer, At, Pooled
  <2>. QED  BY <2>1, <2>2, RunsKept
<1>11. ASSUME NEW r \in Requests, StartRefresh(r) PROVE RunsCounted'
  <2>1. /\ fate' = fate
        /\ \A q \in Requests : q # r =>
             pc'[q] = pc[q] /\ runs'[q] = runs[q] /\ retried'[q] = retried[q]
    BY <1>11 DEF StartRefresh, local, Goto, Answer, TypeOK
  <2>2. /\ runs'[r] \in Nat
        /\ pc'[r] = "answered" \/ (pc[r] # "answered"
                                   /\ runs'[r] - Extra(r)' <= runs[r] - Extra(r))
        /\ retried'[r] => pc'[r] \in {"running", "judging", "saving", "answered"}
    <3>1. pc[r] = "failed" /\ pc'[r] = "refreshing" /\ UNCHANGED <<runs, retried>>
      BY <1>11 DEF StartRefresh, local, At, Goto, Answer, TypeOK
    <3>2. Extra(r) = 1 /\ Extra(r)' = 1 /\ ~retried[r] /\ runs[r] \in Nat
      BY <3>1 DEF Extra, RunsCounted, TypeOK
    <3>. QED  BY <3>1, <3>2
  <2>. QED  BY <2>1, <2>2, RunsKept
<1>12. ASSUME NEW r \in Requests, SkipRefresh(r) PROVE RunsCounted'
  <2>1. /\ fate' = fate
        /\ \A q \in Requests : q # r =>
             pc'[q] = pc[q] /\ runs'[q] = runs[q] /\ retried'[q] = retried[q]
    BY <1>12 DEF SkipRefresh, Goto, Answer, TypeOK
  <2>2. /\ runs'[r] \in Nat
        /\ pc'[r] = "answered" \/ (pc[r] # "answered"
                                   /\ runs'[r] - Extra(r)' <= runs[r] - Extra(r))
        /\ retried'[r] => pc'[r] \in {"running", "judging", "saving", "answered"}
    BY <1>12 DEF SkipRefresh, Extra,
       Shape, Settled, RunsCounted, TypeOK, Goto, Answer, At, Pooled
  <2>. QED  BY <2>1, <2>2, RunsKept
<1>13. ASSUME NEW r \in Requests, Rerun(r) PROVE RunsCounted'
  <2>1. /\ fate' = fate
        /\ \A q \in Requests : q # r =>
             pc'[q] = pc[q] /\ runs'[q] = runs[q] /\ retried'[q] = retried[q]
    BY <1>13 DEF Rerun, StartRun, Goto, Answer, TypeOK
  <2>2. /\ runs'[r] \in Nat
        /\ pc'[r] = "answered" \/ (pc[r] # "answered"
                                   /\ runs'[r] - Extra(r)' <= runs[r] - Extra(r))
        /\ retried'[r] => pc'[r] \in {"running", "judging", "saving", "answered"}
    BY <1>13 DEF Rerun, StartRun, Extra,
       Shape, Settled, RunsCounted, TypeOK, Goto, Answer, At, Pooled
  <2>. QED  BY <2>1, <2>2, RunsKept
<1>14. ASSUME NEW r \in Requests, SlotLost(r) PROVE RunsCounted'
  <2>1. /\ fate' = fate
        /\ \A q \in Requests : q # r =>
             pc'[q] = pc[q] /\ runs'[q] = runs[q] /\ retried'[q] = retried[q]
    BY <1>14 DEF SlotLost, Goto, Answer, TypeOK
  <2>2. /\ runs'[r] \in Nat
        /\ pc'[r] = "answered" \/ (pc[r] # "answered"
                                   /\ runs'[r] - Extra(r)' <= runs[r] - Extra(r))
        /\ retried'[r] => pc'[r] \in {"running", "judging", "saving", "answered"}
    BY <1>14 DEF SlotLost, Extra,
       Shape, Settled, RunsCounted, TypeOK, Goto, Answer, At, Pooled
  <2>. QED  BY <2>1, <2>2, RunsKept
<1>15. ASSUME NEW r \in Requests, Abandon(r) PROVE RunsCounted'
  <2>1. /\ fate' = fate
        /\ \A q \in Requests : q # r =>
             pc'[q] = pc[q] /\ runs'[q] = runs[q] /\ retried'[q] = retried[q]
    BY <1>15 DEF Abandon, Goto, Answer, TypeOK
  <2>2. /\ runs'[r] \in Nat
        /\ pc'[r] = "answered" \/ (pc[r] # "answered"
                                   /\ runs'[r] - Extra(r)' <= runs[r] - Extra(r))
        /\ retried'[r] => pc'[r] \in {"running", "judging", "saving", "answered"}
    BY <1>15 DEF Abandon, Extra,
       Shape, Settled, RunsCounted, TypeOK, Goto, Answer, At, Pooled
  <2>. QED  BY <2>1, <2>2, RunsKept
<1>16. ASSUME NEW r \in Requests, RecordFailure(r) PROVE RunsCounted'
  <2>1. \A q \in Requests : q # r =>
          /\ pc'[q] = pc[q] /\ retried'[q] = retried[q]
          /\ Extra(q)' = Extra(q) /\ Closed(q)' = Closed(q)
    BY <1>16 DEF RecordFailure, EndOfTry, Answer, Goto, TypeOK, Extra, Closed
  <2>2. runs' = runs /\ ~retried'[r] /\ pc'[r] \in {"answered", "choosing"}
    BY <1>16 DEF RecordFailure, EndOfTry, Answer, Goto, TypeOK
  <2>3. runs[r] <= 2 * Cardinality(Closed(r)) + 2
    BY <1>16 DEF RecordFailure, At, RunsCounted, Extra
  <2>4. acct[r] \in Accounts /\ acct[r] \notin Closed(r)
    BY <1>16 DEF RecordFailure, At, Shape, Settled, AccountOpen, Trying, Pooled, Closed, TypeOK
  <2>5. Closed(r)' = Closed(r) \cup {acct[r]}
    <3>1. err[r] \notin {"none", "open"} /\ fate' = [fate EXCEPT ![r][acct[r]] = err[r]]
      BY <1>16 DEF RecordFailure, At, Shape, ErrorKnown, TypeOK, Failed
    <3>. QED  BY <2>4, <3>1 DEF Closed, TypeOK
  <2>6. Cardinality(Closed(r)') = Cardinality(Closed(r)) + 1
    BY <2>4, <2>5, AccountsCount, FS_AddElement DEF Closed
  <2>7. Cardinality(Closed(r)) \in Nat
    BY AccountsCount DEF Closed
  <2>8. pc'[r] = "choosing" => Extra(r)' = 0
    BY DEF Extra
  <2>. QED  BY <2>1, <2>2, <2>3, <2>6, <2>7, <2>8 DEF RunsCounted, TypeOK
<1>17. ASSUME NEW r \in Requests, SessionReady(r) PROVE RunsCounted'
  <2>1. /\ fate' = fate
        /\ \A q \in Requests : q # r =>
             pc'[q] = pc[q] /\ runs'[q] = runs[q] /\ retried'[q] = retried[q]
    BY <1>17 DEF SessionReady, StartRun, Goto, Answer, TypeOK
  <2>2. /\ runs'[r] \in Nat
        /\ pc'[r] = "answered" \/ (pc[r] # "answered"
                                   /\ runs'[r] - Extra(r)' <= runs[r] - Extra(r))
        /\ retried'[r] => pc'[r] \in {"running", "judging", "saving", "answered"}
    BY <1>17 DEF SessionReady, StartRun, Extra,
       Shape, Settled, RunsCounted, TypeOK, Goto, Answer, At, Pooled
  <2>. QED  BY <2>1, <2>2, RunsKept
<1>18. ASSUME NEW r \in Requests, RunSucceeds(r) PROVE RunsCounted'
  <2>1. /\ fate' = fate
        /\ \A q \in Requests : q # r =>
             pc'[q] = pc[q] /\ runs'[q] = runs[q] /\ retried'[q] = retried[q]
    BY <1>18 DEF RunSucceeds, Goto, Answer, TypeOK
  <2>2. /\ runs'[r] \in Nat
        /\ pc'[r] = "answered" \/ (pc[r] # "answered"
                                   /\ runs'[r] - Extra(r)' <= runs[r] - Extra(r))
        /\ retried'[r] => pc'[r] \in {"running", "judging", "saving", "answered"}
    BY <1>18 DEF RunSucceeds, Extra,
       Shape, Settled, RunsCounted, TypeOK, Goto, Answer, At, Pooled
  <2>. QED  BY <2>1, <2>2, RunsKept
<1>19. ASSUME NEW r \in Requests, NEW why \in Failures, SessionFails(r, why)
       PROVE  RunsCounted'
  <2>1. /\ fate' = fate
        /\ \A q \in Requests : q # r =>
             pc'[q] = pc[q] /\ runs'[q] = runs[q] /\ retried'[q] = retried[q]
    BY <1>19 DEF SessionFails, Goto, Answer, TypeOK
  <2>2. /\ runs'[r] \in Nat
        /\ pc'[r] = "answered" \/ (pc[r] # "answered"
                                   /\ runs'[r] - Extra(r)' <= runs[r] - Extra(r))
        /\ retried'[r] => pc'[r] \in {"running", "judging", "saving", "answered"}
    <3>1. pc[r] = "loading" /\ pc'[r] \in {"failed", "answered"} /\ UNCHANGED <<runs, retried>>
      BY <1>19 DEF SessionFails, At, Goto, Answer, TypeOK
    <3>2. Extra(r) = 0 /\ Extra(r)' \in {1, 2} /\ ~retried[r] /\ runs[r] \in Nat
      BY <3>1 DEF Extra, RunsCounted, TypeOK
    <3>. QED  BY <3>1, <3>2
  <2>. QED  BY <2>1, <2>2, RunsKept
<1>20. ASSUME NEW r \in Requests, NEW why \in Failures, RunFails(r, why)
       PROVE  RunsCounted'
  <2>1. /\ fate' = fate
        /\ \A q \in Requests : q # r =>
             pc'[q] = pc[q] /\ runs'[q] = runs[q] /\ retried'[q] = retried[q]
    BY <1>20 DEF RunFails, Goto, Answer, TypeOK
  <2>2. /\ runs'[r] \in Nat
        /\ pc'[r] = "answered" \/ (pc[r] # "answered"
                                   /\ runs'[r] - Extra(r)' <= runs[r] - Extra(r))
        /\ retried'[r] => pc'[r] \in {"running", "judging", "saving", "answered"}
    BY <1>20 DEF RunFails, Extra,
       Shape, Settled, RunsCounted, TypeOK, Goto, Answer, At, Pooled
  <2>. QED  BY <2>1, <2>2, RunsKept
<1>21. ASSUME NEW r \in Requests, NEW why \in Failures, ReloadFails(r, why)
       PROVE  RunsCounted'
  <2>1. /\ fate' = fate
        /\ \A q \in Requests : q # r =>
             pc'[q] = pc[q] /\ runs'[q] = runs[q] /\ retried'[q] = retried[q]
    BY <1>21 DEF ReloadFails, Goto, Answer, TypeOK
  <2>2. /\ runs'[r] \in Nat
        /\ pc'[r] = "answered" \/ (pc[r] # "answered"
                                   /\ runs'[r] - Extra(r)' <= runs[r] - Extra(r))
        /\ retried'[r] => pc'[r] \in {"running", "judging", "saving", "answered"}
    BY <1>21 DEF ReloadFails, Extra,
       Shape, Settled, RunsCounted, TypeOK, Goto, Answer, At, Pooled
  <2>. QED  BY <2>1, <2>2, RunsKept
<1>22. ASSUME NEW r \in Requests, RefreshFails(r) PROVE RunsCounted'
  <2>1. /\ fate' = fate
        /\ \A q \in Requests : q # r =>
             pc'[q] = pc[q] /\ runs'[q] = runs[q] /\ retried'[q] = retried[q]
    BY <1>22 DEF RefreshFails, Goto, Answer, TypeOK
  <2>2. /\ runs'[r] \in Nat
        /\ pc'[r] = "answered" \/ (pc[r] # "answered"
                                   /\ runs'[r] - Extra(r)' <= runs[r] - Extra(r))
        /\ retried'[r] => pc'[r] \in {"running", "judging", "saving", "answered"}
    BY <1>22 DEF RefreshFails, Extra,
       Shape, Settled, RunsCounted, TypeOK, Goto, Answer, At, Pooled
  <2>. QED  BY <2>1, <2>2, RunsKept
<1>23. ASSUME NEW r \in Requests, RefreshNotSaved(r) PROVE RunsCounted'
  <2>1. /\ fate' = fate
        /\ \A q \in Requests : q # r =>
             pc'[q] = pc[q] /\ runs'[q] = runs[q] /\ retried'[q] = retried[q]
    BY <1>23 DEF RefreshNotSaved, Goto, Answer, TypeOK
  <2>2. /\ runs'[r] \in Nat
        /\ pc'[r] = "answered" \/ (pc[r] # "answered"
                                   /\ runs'[r] - Extra(r)' <= runs[r] - Extra(r))
        /\ retried'[r] => pc'[r] \in {"running", "judging", "saving", "answered"}
    BY <1>23 DEF RefreshNotSaved, Extra,
       Shape, Settled, RunsCounted, TypeOK, Goto, Answer, At, Pooled
  <2>. QED  BY <2>1, <2>2, RunsKept
<1>24. ASSUME NEW r \in Requests, Refreshed(r) PROVE RunsCounted'
  <2>1. /\ fate' = fate
        /\ \A q \in Requests : q # r =>
             pc'[q] = pc[q] /\ runs'[q] = runs[q] /\ retried'[q] = retried[q]
    BY <1>24 DEF Refreshed, local, Goto, Answer, TypeOK
  <2>2. /\ runs'[r] \in Nat
        /\ pc'[r] = "answered" \/ (pc[r] # "answered"
                                   /\ runs'[r] - Extra(r)' <= runs[r] - Extra(r))
        /\ retried'[r] => pc'[r] \in {"running", "judging", "saving", "answered"}
    <3>1. pc[r] = "refreshing" /\ pc'[r] = "reloading" /\ UNCHANGED <<runs, retried>>
      BY <1>24 DEF Refreshed, local, At, Goto, Answer, TypeOK
    <3>2. Extra(r) = 1 /\ Extra(r)' = 1 /\ ~retried[r] /\ runs[r] \in Nat
      BY <3>1 DEF Extra, RunsCounted, TypeOK
    <3>. QED  BY <3>1, <3>2
  <2>. QED  BY <2>1, <2>2, RunsKept
<1>25. ASSUME NEW r \in Requests, Reloaded(r) PROVE RunsCounted'
  <2>1. /\ fate' = fate
        /\ \A q \in Requests : q # r =>
             pc'[q] = pc[q] /\ runs'[q] = runs[q] /\ retried'[q] = retried[q]
    BY <1>25 DEF Reloaded, local, Goto, Answer, TypeOK
  <2>2. /\ runs'[r] \in Nat
        /\ pc'[r] = "answered" \/ (pc[r] # "answered"
                                   /\ runs'[r] - Extra(r)' <= runs[r] - Extra(r))
        /\ retried'[r] => pc'[r] \in {"running", "judging", "saving", "answered"}
    <3>1. pc[r] = "reloading" /\ pc'[r] = "retaking" /\ UNCHANGED <<runs, retried>>
      BY <1>25 DEF Reloaded, local, At, Goto, Answer, TypeOK
    <3>2. Extra(r) = 1 /\ Extra(r)' = 1 /\ ~retried[r] /\ runs[r] \in Nat
      BY <3>1 DEF Extra, RunsCounted, TypeOK
    <3>. QED  BY <3>1, <3>2
  <2>. QED  BY <2>1, <2>2, RunsKept
<1>26. ASSUME NEW r \in Requests, Emit(r) PROVE RunsCounted'
  <2>1. /\ fate' = fate
        /\ \A q \in Requests : q # r =>
             pc'[q] = pc[q] /\ runs'[q] = runs[q] /\ retried'[q] = retried[q]
    BY <1>26 DEF Emit, Goto, Answer, TypeOK
  <2>2. /\ runs'[r] \in Nat
        /\ pc'[r] = "answered" \/ (pc[r] # "answered"
                                   /\ runs'[r] - Extra(r)' <= runs[r] - Extra(r))
        /\ retried'[r] => pc'[r] \in {"running", "judging", "saving", "answered"}
    BY <1>26 DEF Emit, Extra,
       Shape, Settled, RunsCounted, TypeOK, Goto, Answer, At, Pooled
  <2>. QED  BY <2>1, <2>2, RunsKept
<1>27. ASSUME NEW r \in Requests, ContextEnds(r) PROVE RunsCounted'
  <2>1. /\ fate' = fate
        /\ \A q \in Requests : q # r =>
             pc'[q] = pc[q] /\ runs'[q] = runs[q] /\ retried'[q] = retried[q]
    BY <1>27 DEF ContextEnds, Goto, Answer, TypeOK
  <2>2. /\ runs'[r] \in Nat
        /\ pc'[r] = "answered" \/ (pc[r] # "answered"
                                   /\ runs'[r] - Extra(r)' <= runs[r] - Extra(r))
        /\ retried'[r] => pc'[r] \in {"running", "judging", "saving", "answered"}
    BY <1>27 DEF ContextEnds, Extra,
       Shape, Settled, RunsCounted, TypeOK, Goto, Answer, At, Pooled
  <2>. QED  BY <2>1, <2>2, RunsKept
<1>28. ASSUME NEW r \in Requests, Again(r) PROVE RunsCounted'
  <2>1. \A q \in Requests : q # r =>
          /\ pc'[q] = pc[q] /\ runs'[q] = runs[q] /\ retried'[q] = retried[q]
          /\ Extra(q)' = Extra(q) /\ Closed(q)' = Closed(q)
    BY <1>28 DEF Again, Goto, TypeOK, Extra, Closed
  <2>2. runs'[r] = 0 /\ ~retried'[r] /\ Extra(r)' = 0
    BY <1>28 DEF Again, Goto, TypeOK, Extra
  <2>3. Cardinality(Closed(r)') \in Nat
    BY AccountsCount DEF Closed
  <2>. QED  BY <2>1, <2>2, <2>3 DEF RunsCounted
<1>29. CASE UNCHANGED vars
  BY <1>29, RunsKept DEF vars, local, RunsCounted, Extra, Closed
<1>. QED  BY <1>1, <1>2, <1>3, <1>4, <1>5, <1>6, <1>7, <1>8, <1>9, <1>10, <1>11,
          <1>12, <1>13, <1>14, <1>15, <1>16, <1>17, <1>18, <1>19, <1>20, <1>21,
          <1>22, <1>23, <1>24, <1>25, <1>26, <1>27, <1>28, <1>29
     DEF Next, OwnStep, Reply

\* Before the answer, the accounts of the request allow for its runs.
RunsAllowed ==
  \A r \in Requests : pc[r] # "answered" =>
    runs[r] <= 2 * (IF Candidates(r) = {} THEN 1 ELSE Cardinality(Candidates(r)))

LEMMA CountedRunsAllowed ==
  ASSUME TypeOK, Shape, RunsCounted PROVE RunsAllowed
<1>. SUFFICES ASSUME NEW r \in Requests, pc[r] # "answered"
              PROVE  runs[r] <= 2 * (IF Candidates(r) = {} THEN 1
                                     ELSE Cardinality(Candidates(r)))
  BY DEF RunsAllowed
<1>1. /\ Cardinality(Closed(r)) \in Nat /\ Cardinality(Candidates(r)) \in Nat
      /\ runs[r] \in Nat /\ runs[r] <= 2 * Cardinality(Closed(r)) + Extra(r)
  BY AccountsCount DEF Closed, Candidates, RunsCounted, TypeOK
<1>2. Closed(r) \subseteq Candidates(r)
  BY DEF Closed, Candidates
<1>3. CASE pc[r] \in Trying /\ Pooled(r)
  <2>1. acct[r] \in Candidates(r) \ Closed(r)
    BY <1>3 DEF Shape, AccountOpen, Candidates, Closed, Pooled, TypeOK
  <2>2. Closed(r) \cup {acct[r]} \subseteq Candidates(r) /\ IsFiniteSet(Candidates(r))
    BY <1>2, <2>1, AccountsCount DEF Candidates
  <2>3. Cardinality(Closed(r) \cup {acct[r]}) = Cardinality(Closed(r)) + 1
    BY <2>1, AccountsCount, FS_AddElement DEF Closed
  <2>4. Cardinality(Closed(r)) + 1 <= Cardinality(Candidates(r))
    BY <2>2, <2>3, FS_Subset
  <2>5. Candidates(r) # {} /\ Extra(r) \in 0..2
    BY <2>1 DEF Extra
  <2>. QED  BY <1>1, <2>4, <2>5
<1>4. CASE pc[r] \in Trying /\ ~Pooled(r)
  <2>1. Candidates(r) = {} /\ Closed(r) = {}
    BY <1>4 DEF Shape, AccountOpen, Candidates, Closed
  <2>2. Cardinality(Closed(r)) = 0 /\ Extra(r) \in 0..2
    BY <2>1, FS_EmptySet DEF Extra
  <2>. QED  BY <1>1, <2>1, <2>2
<1>5. CASE pc[r] \notin Trying
  <2>1. Extra(r) = 0
    BY <1>5 DEF Trying, Extra, TypeOK, Places
  <2>2. Cardinality(Closed(r)) <= Cardinality(Candidates(r))
    BY <1>2, AccountsCount, FS_Subset DEF Candidates
  <2>3. Candidates(r) = {} => Cardinality(Candidates(r)) = 0
    BY FS_EmptySet
  <2>. QED  BY <1>1, <2>1, <2>2, <2>3
<1>. QED  BY <1>3, <1>4, <1>5

\* A request that answers has neither begun a run nor lost a candidate in that step.
AnswerAddsNoRun ==
  \A r \in Requests : pc'[r] = "answered" =>
    runs'[r] = runs[r] /\ Candidates(r)' = Candidates(r)

LEMMA AnswerStep ==
  ASSUME TypeOK, Shape, [Next]_vars PROVE AnswerAddsNoRun
<1>. USE PoolAssumption
<1>1. ASSUME NEW r \in Requests, NEW candidates \in SUBSET Accounts, BeginPool(r, candidates)
      PROVE  AnswerAddsNoRun
  BY <1>1 DEF BeginPool, AnswerAddsNoRun, Candidates, Goto, Answer, TypeOK
<1>2. ASSUME NEW r \in Requests, BeginPrimary(r) PROVE AnswerAddsNoRun
  BY <1>2 DEF BeginPrimary, local, AnswerAddsNoRun, Candidates, Goto, Answer, TypeOK
<1>3. ASSUME NEW r \in Requests, NEW a \in Accounts, SeeFull(r, a)
      PROVE  AnswerAddsNoRun
  BY <1>3 DEF SeeFull, AnswerAddsNoRun, Candidates, Goto, Answer, TypeOK
<1>4. ASSUME NEW r \in Requests, NEW a \in Accounts, SeeRoom(r, a)
      PROVE  AnswerAddsNoRun
  BY <1>4 DEF SeeRoom, AnswerAddsNoRun, Candidates, Goto, Answer, TypeOK
<1>5. ASSUME NEW r \in Requests, NEW a \in Accounts, TakeSlot(r, a)
      PROVE  AnswerAddsNoRun
  BY <1>5 DEF TakeSlot, AnswerAddsNoRun, Candidates, Goto, Answer, TypeOK
<1>6. ASSUME NEW r \in Requests, NEW a \in Accounts, SkipBusy(r, a)
      PROVE  AnswerAddsNoRun
  <2>1. \A q \in Requests : pc'[q] = "answered" => q # r
    BY <1>6 DEF SkipBusy, At
  <2>. QED  BY <1>6, <2>1 DEF SkipBusy, AnswerAddsNoRun, Candidates, TypeOK
<1>7. ASSUME NEW r \in Requests, RefuseAtOnce(r) PROVE AnswerAddsNoRun
  BY <1>7 DEF RefuseAtOnce, AnswerAddsNoRun, Candidates, Goto, Answer, TypeOK
<1>8. ASSUME NEW r \in Requests, GiveUp(r) PROVE AnswerAddsNoRun
  BY <1>8 DEF GiveUp, AnswerAddsNoRun, Candidates, Goto, Answer, TypeOK
<1>9. ASSUME NEW r \in Requests, NEW what \in {"ok", "save"}, Save(r, what)
      PROVE  AnswerAddsNoRun
  BY <1>9 DEF Save, AnswerAddsNoRun, Candidates, Goto, Answer, TypeOK
<1>10. ASSUME NEW r \in Requests, AbandonFailed(r) PROVE AnswerAddsNoRun
  BY <1>10 DEF AbandonFailed, AnswerAddsNoRun, Candidates, Goto, Answer, TypeOK
<1>11. ASSUME NEW r \in Requests, StartRefresh(r) PROVE AnswerAddsNoRun
  BY <1>11 DEF StartRefresh, local, AnswerAddsNoRun, Candidates, Goto, Answer, TypeOK
<1>12. ASSUME NEW r \in Requests, SkipRefresh(r) PROVE AnswerAddsNoRun
  BY <1>12 DEF SkipRefresh, AnswerAddsNoRun, Candidates, Goto, Answer, TypeOK
<1>13. ASSUME NEW r \in Requests, Rerun(r) PROVE AnswerAddsNoRun
  BY <1>13 DEF Rerun, StartRun, AnswerAddsNoRun, Candidates, Goto, Answer, TypeOK
<1>14. ASSUME NEW r \in Requests, SlotLost(r) PROVE AnswerAddsNoRun
  BY <1>14 DEF SlotLost, AnswerAddsNoRun, Candidates, Goto, Answer, TypeOK
<1>15. ASSUME NEW r \in Requests, Abandon(r) PROVE AnswerAddsNoRun
  BY <1>15 DEF Abandon, AnswerAddsNoRun, Candidates, Goto, Answer, TypeOK
<1>16. ASSUME NEW r \in Requests, RecordFailure(r) PROVE AnswerAddsNoRun
  <2>1. /\ fate[r][acct[r]] = "open" /\ err[r] # "none"
        /\ fate' = [fate EXCEPT ![r][acct[r]] = err[r]] /\ runs' = runs
    BY <1>16 DEF RecordFailure, At, Shape, Settled, AccountOpen, ErrorKnown, Trying
  <2>2. \A q \in Requests : Candidates(q)' = Candidates(q)
    BY <2>1 DEF Candidates, TypeOK
  <2>. QED  BY <2>1, <2>2 DEF AnswerAddsNoRun
<1>17. ASSUME NEW r \in Requests, SessionReady(r) PROVE AnswerAddsNoRun
  BY <1>17 DEF SessionReady, StartRun, AnswerAddsNoRun, Candidates, Goto, Answer, TypeOK
<1>18. ASSUME NEW r \in Requests, RunSucceeds(r) PROVE AnswerAddsNoRun
  BY <1>18 DEF RunSucceeds, AnswerAddsNoRun, Candidates, Goto, Answer, TypeOK
<1>19. ASSUME NEW r \in Requests, NEW why \in Failures, SessionFails(r, why)
       PROVE  AnswerAddsNoRun
  BY <1>19 DEF SessionFails, AnswerAddsNoRun, Candidates, Goto, Answer, TypeOK
<1>20. ASSUME NEW r \in Requests, NEW why \in Failures, RunFails(r, why)
       PROVE  AnswerAddsNoRun
  BY <1>20 DEF RunFails, AnswerAddsNoRun, Candidates, Goto, Answer, TypeOK
<1>21. ASSUME NEW r \in Requests, NEW why \in Failures, ReloadFails(r, why)
       PROVE  AnswerAddsNoRun
  BY <1>21 DEF ReloadFails, AnswerAddsNoRun, Candidates, Goto, Answer, TypeOK
<1>22. ASSUME NEW r \in Requests, RefreshFails(r) PROVE AnswerAddsNoRun
  BY <1>22 DEF RefreshFails, AnswerAddsNoRun, Candidates, Goto, Answer, TypeOK
<1>23. ASSUME NEW r \in Requests, RefreshNotSaved(r) PROVE AnswerAddsNoRun
  BY <1>23 DEF RefreshNotSaved, AnswerAddsNoRun, Candidates, Goto, Answer, TypeOK
<1>24. ASSUME NEW r \in Requests, Refreshed(r) PROVE AnswerAddsNoRun
  BY <1>24 DEF Refreshed, local, AnswerAddsNoRun, Candidates, Goto, Answer, TypeOK
<1>25. ASSUME NEW r \in Requests, Reloaded(r) PROVE AnswerAddsNoRun
  BY <1>25 DEF Reloaded, local, AnswerAddsNoRun, Candidates, Goto, Answer, TypeOK
<1>26. ASSUME NEW r \in Requests, Emit(r) PROVE AnswerAddsNoRun
  BY <1>26 DEF Emit, AnswerAddsNoRun, Candidates, Goto, Answer, TypeOK
<1>27. ASSUME NEW r \in Requests, ContextEnds(r) PROVE AnswerAddsNoRun
  BY <1>27 DEF ContextEnds, AnswerAddsNoRun, Candidates, Goto, Answer, TypeOK
<1>28. ASSUME NEW r \in Requests, Again(r) PROVE AnswerAddsNoRun
  BY <1>28 DEF Again, AnswerAddsNoRun, Candidates, Goto, Answer, TypeOK
<1>29. CASE UNCHANGED vars
  BY <1>29 DEF vars, local, AnswerAddsNoRun, Candidates
<1>. QED  BY <1>1, <1>2, <1>3, <1>4, <1>5, <1>6, <1>7, <1>8, <1>9, <1>10, <1>11,
          <1>12, <1>13, <1>14, <1>15, <1>16, <1>17, <1>18, <1>19, <1>20, <1>21,
          <1>22, <1>23, <1>24, <1>25, <1>26, <1>27, <1>28, <1>29
     DEF Next, OwnStep, Reply

LEMMA BoundedRunsStep ==
  ASSUME TypeOK, BoundedRuns, RunsAllowed', AnswerAddsNoRun PROVE BoundedRuns'
BY DEF BoundedRuns, RunsAllowed, AnswerAddsNoRun, Candidates

-----------------------------------------------------------------------------
(* The theorems.                                                           *)

\* What the six theorems have in common, the bound on the runs aside.
Core == /\ TypeOK /\ Shape /\ RunsCounted
        /\ SlotHeldExactlyWhileTrying /\ FailsOnlyWhenExhausted /\ AbortsBlameNobody

LEMMA CoreInvariant == Spec => []Core
<1>1. Init => Core
  <2>. SUFFICES ASSUME Init PROVE Core
    OBVIOUS
  <2>1. TypeOK /\ Shape
    BY InitTypes, InitShape
  <2>2. SlotHeldExactlyWhileTrying /\ FailsOnlyWhenExhausted /\ AbortsBlameNobody
    BY PoolAssumption DEF Init, SlotHeldExactlyWhileTrying, FailsOnlyWhenExhausted,
       AbortsBlameNobody
  <2>3. RunsCounted
    <3>1. \A r \in Requests : Cardinality(Closed(r)) \in Nat
      BY AccountsCount DEF Closed
    <3>. QED  BY <3>1 DEF Init, RunsCounted, Extra
  <2>. QED  BY <2>1, <2>2, <2>3 DEF Core
<1>2. Core /\ [Next]_vars => Core'
  BY TypesStep, ShapeStep, RunsStep, SlotsStep, FatesStep DEF Core
<1>. QED  BY <1>1, <1>2, PTL DEF Spec

(* The state of every request keeps its shape.                             *)
THEOREM PoolTypeCorrect == Spec => []TypeOK
<1>1. Core => TypeOK
  BY DEF Core
<1>. QED  BY <1>1, CoreInvariant, PTL

(* A slot is held exactly while its account loads or runs the prompt: no   *)
(* path keeps one, gives one back twice, or runs without one.              *)
THEOREM SlotsFollowTries == Spec => []SlotHeldExactlyWhileTrying
<1>1. Core => SlotHeldExactlyWhileTrying
  BY DEF Core
<1>. QED  BY <1>1, CoreInvariant, PTL

(* All the text a client receives comes from one upstream run.             *)
THEOREM ClientHearsOneVoice == Spec => []OneVoice
<1>1. Core => OneVoice
  <2>. SUFFICES ASSUME Core, NEW r \in Requests
                PROVE  /\ Cardinality(voice[r]) <= 1
                       /\ answer[r] = "ok" => voice[r] \subseteq {runs[r]}
    BY DEF OneVoice
  <2>1. voice[r] \subseteq {runs[r]}
    BY DEF Core, Shape, Silent
  <2>2. Cardinality(voice[r]) <= 1
    <3>1. IsFiniteSet({runs[r]}) /\ Cardinality({runs[r]}) = 1
      BY FS_Singleton
    <3>. QED  BY <2>1, <3>1, FS_Subset
  <2>. QED  BY <2>1, <2>2
<1>. QED  BY <1>1, CoreInvariant, PTL

(* A request fails only when every candidate was busy or has failed.       *)
THEOREM FailureMeansExhausted == Spec => []FailsOnlyWhenExhausted
<1>1. Core => FailsOnlyWhenExhausted
  BY DEF Core
<1>. QED  BY <1>1, CoreInvariant, PTL

(* An aborted request is never held against the account serving it.        *)
THEOREM AbortsAreBlameless == Spec => []AbortsBlameNobody
<1>1. Core => AbortsBlameNobody
  BY DEF Core
<1>. QED  BY <1>1, CoreInvariant, PTL

(* A request starts at most two upstream runs for each candidate account.  *)
THEOREM RunsAreBounded == Spec => []BoundedRuns
<1>1. Init => BoundedRuns
  <2>1. ASSUME NEW r \in Requests
        PROVE  Cardinality({a \in Accounts : fate[r][a] # "none"}) \in Nat
    BY AccountsCount
  <2>. QED  BY <2>1 DEF Init, BoundedRuns
<1>2. Core => RunsAllowed
  BY CountedRunsAllowed DEF Core
<1>3. Core /\ [Next]_vars => AnswerAddsNoRun
  BY AnswerStep DEF Core
<1>4. Core /\ BoundedRuns /\ RunsAllowed' /\ AnswerAddsNoRun => BoundedRuns'
  BY BoundedRunsStep DEF Core
<1>. QED  BY <1>1, <1>2, <1>3, <1>4, CoreInvariant, PTL DEF Spec

=============================================================================
