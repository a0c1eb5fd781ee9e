-------------------------- MODULE SingleDayIngestion --------------------------
(* The ingestion of one day of one dataset                                     *)
(* (application/jquants_single_day_ingestion.py): it brings the raw store in     *)
(* order, captures when there is nothing published or a refresh is asked for,    *)
(* and converts what is published into the canonical store                     *)
(* (infrastructure/market_data/jquants_canonical_store.py).                     *)
(*                                                                             *)
(* A canonical generation is named by the raw generation it was made from.      *)
(* ATTEMPT.json, metrics and the comparison of the two datasets are reports that *)
(* nothing reads back.                                                          *)
EXTENDS RawStore

CONSTANT Unfit   \* contents whose rows do not pass the quality checks

ASSUME UnfitAssumption == Unfit \subseteq Content \ {empty}

VARIABLES
    canonical,   \* generations of the canonical store, those that do not verify,
                 \* and the one CURRENT names
    jobLock,     \* who holds ingestion_lock
    stage,       \* where the run of a process is
    mode,        \* refresh, canonical_only or neither
    source,      \* the raw publication it works with
    rawState,    \* summary.raw_state
    status       \* summary.status of the run that has just ended

jobVars == <<canonical, jobLock, stage, mode, source, rawState, status>>
vars == <<rawVars, jobVars>>

Mode == {"plain", "refresh", "canonical_only"}
Stage == {"off", "opening", "recovering", "resolving", "capturing", "resolving again",
          "converting", "publishing"}

Init ==
    /\ RawInit
    /\ canonical = [generations |-> {}, damaged |-> {}, current |-> none]
    /\ jobLock = none
    /\ stage = [p \in Process |-> "off"]
    /\ mode = [p \in Process |-> "plain"]
    /\ source = [p \in Process |-> none]
    /\ rawState = [p \in Process |-> none]
    /\ status = none

Enter(p, s) == stage' = [stage EXCEPT ![p] = s]

\* The run goes on by a call of the raw store.
CallAt(p, operation, s) ==
    /\ Call(p, operation)
    /\ Enter(p, s)
    /\ UNCHANGED <<canonical, mode, status>>

\* The run is over; its lock is released.
Finish(p, outcome) ==
    /\ Enter(p, "off")
    /\ mode' = [mode EXCEPT ![p] = "plain"]
    /\ source' = [source EXCEPT ![p] = none]
    /\ rawState' = [rawState EXCEPT ![p] = none]
    /\ status' = outcome
    /\ jobLock' = IF jobLock = p THEN none ELSE jobLock

\* The call of the run at stage s has returned.
Back(p, s) == stage[p] = s /\ pc[p] = "idle"

-----------------------------------------------------------------------------
(* A run *)

\* The entry point builds the stores, the raw store adopting a publication.
StartRun(p, m) ==
    /\ stage[p] = "off"
    /\ Call(p, "open")
    /\ Enter(p, "opening")
    /\ mode' = [mode EXCEPT ![p] = m]
    /\ status' = none
    /\ UNCHANGED <<canonical, jobLock, source, rawState>>

\* ingestion_lock, then recover_dataset
RecoverStore(p) ==
    /\ Back(p, "opening")
    /\ answer[p] = "ok"
    /\ jobLock = none
    /\ jobLock' = p
    /\ CallAt(p, "recover", "recovering")
    /\ UNCHANGED <<source, rawState>>

ResolvePublished(p) ==
    /\ Back(p, "recovering")
    /\ answer[p] = "ok"
    /\ CallAt(p, "resolve", "resolving")
    /\ UNCHANGED <<jobLock, source, rawState>>

\* JQuantsCanonicalStore._verify: provenance, hash, schema and counts agree.
Verifies(g) == g \in canonical.generations \ canonical.damaged

\* CURRENT of the canonical store verifies, or there is none.
PreviousReadable == canonical.current = none \/ Verifies(canonical.current)

NeedsCapture(p) == \/ answer[p] = none /\ mode[p] # "canonical_only"
                   \/ mode[p] = "refresh"

CaptureRaw(p) ==
    /\ Back(p, "resolving")
    /\ answer[p] # "error"
    /\ PreviousReadable
    /\ NeedsCapture(p)
    /\ source' = [source EXCEPT ![p] = answer[p]]
    /\ CallAt(p, "capture", "capturing")
    /\ UNCHANGED <<jobLock, rawState>>

ResolveAgain(p) ==
    /\ Back(p, "capturing")
    /\ answer[p] = "ok"
    /\ rawState' = [rawState EXCEPT ![p] = row.state]
    /\ CallAt(p, "resolve", "resolving again")
    /\ UNCHANGED <<jobLock, source>>

\* There is a publication to convert.
UseRaw(p) ==
    /\ \/ Back(p, "resolving") /\ ~NeedsCapture(p) /\ PreviousReadable
       \/ Back(p, "resolving again")
    /\ answer[p] \in Generation
    /\ source' = [source EXCEPT ![p] = answer[p]]
    /\ rawState' = [rawState EXCEPT ![p] = row.state]
    /\ Enter(p, "converting")
    /\ Forget(p)
    /\ UNCHANGED <<store, lock, pc, local, disturbances, canonical, jobLock, mode, status>>

\* A call has failed, or there is nothing to work with.
RunFails(p) ==
    /\ \/ \E s \in {"opening", "recovering", "resolving", "capturing", "resolving again"} :
             Back(p, s) /\ answer[p] = "error"
       \/ Back(p, "opening") /\ jobLock # none
       \/ Back(p, "resolving") /\ ~PreviousReadable
       \/ Back(p, "resolving") /\ answer[p] = none /\ mode[p] = "canonical_only"
       \/ Back(p, "resolving again") /\ answer[p] = none
    /\ Finish(p, "FAILED")
    /\ Forget(p)
    /\ UNCHANGED <<store, lock, pc, local, disturbances, canonical>>

-----------------------------------------------------------------------------
(* transform *)

\* _convert: every page is read and verified, and every row passes the checks.
Convertible(g) == Valid(g) /\ g \notin Unfit

\* The staging directory is renamed into place, or the one that is there is used.
Converted(g) == [canonical EXCEPT !.generations = @ \cup {g}]

\* A bug: a generation that is there is taken for one that was published.
ConvertRawOnce(p) ==
    /\ stage[p] = "converting"
    /\ source[p] \notin canonical.damaged
    /\ source[p] \in canonical.generations \/ Convertible(source[p])
    /\ canonical' = Converted(source[p])
    /\ IF source[p] \in canonical.generations THEN Finish(p, "COMPLETE")
       ELSE Enter(p, "publishing") /\ UNCHANGED <<jobLock, mode, source, rawState, status>>
    /\ UNCHANGED rawVars

\* The rows of the publication pass the checks of _convert, and the file verifies.
ConvertRaw(p) ==
    /\ stage[p] = "converting"
    /\ source[p] \notin canonical.damaged
    /\ source[p] \in canonical.generations \/ Convertible(source[p])
    /\ canonical' = Converted(source[p])
    /\ Enter(p, "publishing")
    /\ UNCHANGED <<rawVars, jobLock, mode, source, rawState, status>>

\* A bug: held back data are not reported.
OutcomeUnheld(p) == IF \/ rawState[p] \in {"FAILED", "PARTIAL", "RUNNING"}
                       \/ source[p] = empty
                    THEN "ATTENTION" ELSE "COMPLETE"

\* What the run says of its result: a publication that the last attempt did not
\* bring, or without rows, needs attention. (So do fields nobody knows.)
Outcome(p) == IF \/ rawState[p] \in {"EMPTY_HELD", "FAILED", "PARTIAL", "RUNNING"}
                 \/ source[p] = empty
              THEN "ATTENTION" ELSE "COMPLETE"

PublishCanonical(p) ==
    /\ stage[p] = "publishing"
    /\ canonical' = [canonical EXCEPT !.current = source[p]]
    /\ Finish(p, Outcome(p))
    /\ UNCHANGED rawVars

\* The rows do not pass, or a generation does not verify: CURRENT stays.
ConvertFails(p) ==
    /\ stage[p] = "converting"
    /\ \/ source[p] \in canonical.damaged
       \/ source[p] \notin canonical.generations /\ ~Convertible(source[p])
    /\ Finish(p, "FAILED")
    /\ UNCHANGED <<rawVars, canonical>>

-----------------------------------------------------------------------------
(* Disturbances *)

\* A call of the raw store fails, ...
StoreFails(p) == CallFails(p) /\ UNCHANGED jobVars

\* ... or a step of the conversion does, maybe after CURRENT was switched.
StageFails(p) ==
    /\ stage[p] \in {"converting", "publishing"}
    /\ Disturb
    /\ \/ UNCHANGED canonical
       \/ /\ stage[p] = "publishing"
          /\ canonical' = [canonical EXCEPT !.current = source[p]]
    /\ Finish(p, "FAILED")
    /\ UNCHANGED <<store, lock, pc, local, answer>>

Dies(p) ==
    /\ stage[p] # "off"
    /\ ProcessDies(p)
    /\ Finish(p, none)
    /\ UNCHANGED canonical

\* A file of the raw store or of the canonical store is damaged.
StoreDamage ==
    \/ Damage /\ UNCHANGED jobVars
    \/ /\ Disturb
       /\ \E g \in canonical.generations :
             canonical' = [canonical EXCEPT !.damaged = @ \cup {g}]
       /\ UNCHANGED <<store, lock, pc, local, answer,
                      jobLock, stage, mode, source, rawState, status>>

-----------------------------------------------------------------------------
StoreStep(p) == RawStep(p) /\ UNCHANGED jobVars

RunStep(p) ==
    \/ StoreStep(p)
    \/ RecoverStore(p) \/ ResolvePublished(p) \/ CaptureRaw(p) \/ ResolveAgain(p)
    \/ UseRaw(p) \/ RunFails(p)
    \/ ConvertRaw(p) \/ PublishCanonical(p) \/ ConvertFails(p)

Next ==
    \/ \E p \in Process :
          \/ \E m \in Mode : StartRun(p, m)
          \/ RunStep(p)
          \/ StoreFails(p) \/ StageFails(p) \/ Dies(p)
    \/ StoreDamage

\* A run that has begun goes on. That one begins is up to whoever calls the
\* command: nothing in the code starts a run, or starts one again.
Fairness == \A p \in Process : WF_vars(RunStep(p))

Spec == Init /\ [][Next]_vars /\ Fairness

-----------------------------------------------------------------------------
(* Properties *)

\* Every variable has its type.
TypeOK ==
    /\ RawTypeOK
    /\ canonical.generations \subseteq Generation
    /\ canonical.damaged \subseteq canonical.generations
    /\ canonical.current \in canonical.generations \cup {none}
    /\ jobLock \in Process \cup {none}
    /\ stage \in [Process -> Stage]
    /\ mode \in [Process -> Mode]
    /\ source \in [Process -> Generation \cup {none}]
    /\ rawState \in [Process -> State \cup {none}]
    /\ status \in {"COMPLETE", "ATTENTION", "FAILED", none}

Mirror == INSTANCE MirroredPublication
             WITH confirmed <- row.published, served <- canonical.current

\* Whatever crashes, is damaged or runs at the same time: a confirmed publication
\* is never forgotten, rows are never replaced by an empty answer, and the
\* canonical store only ever switches to the publication that is confirmed then.
ImplementsMirror == Mirror!Spec

\* A run that reports COMPLETE leaves a canonical store that serves what its own
\* last attempt, or the last successful one before it, confirmed.
CompleteIsTrue ==
    [][\A p \in Process :
          stage[p] = "publishing" /\ stage'[p] = "off" /\ status' = "COMPLETE"
             => /\ canonical'.current = row.published
                /\ row.state = "COMPLETE"
                /\ pending = none]_vars

\* A run that has begun ends, whatever another process holds: no call waits for a
\* lock, and a reader gives up after MAX_TRIES.
RunsEnd == \A p \in Process : []<>(stage[p] = "off")

\* What a crash left prepared has been confirmed or withdrawn, unless nothing
\* that could be published verifies any more.
PendingResolved == pending = none \/ (~PendingValid /\ ~Valid(row.published))

\* The canonical store serves what is published, unless the rows are unfit or a
\* file is damaged.
CanonicalFollows == \/ row.published = none
                    \/ canonical.current = row.published
                    \/ row.published \in Unfit
                    \/ damaged \cup canonical.damaged # {}

\* The run has its lock, and nothing goes wrong any more.
UndisturbedRun(p) == stage[p] = "recovering" /\ disturbances = MaxDisturbances

\* Every run ends, and the first one that is not disturbed ends with the stores
\* brought together, whatever a crash or a failure had left in either of them.
StoresConverge ==
    /\ RunsEnd
    /\ \A p \in Process :
          UndisturbedRun(p) ~> stage[p] = "off" /\ PendingResolved /\ CanonicalFollows
=============================================================================
