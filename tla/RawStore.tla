------------------------------- MODULE RawStore -------------------------------
(* The ledger of raw J-Quants data and the publication of its generations       *)
(* (infrastructure/market_data/jquants_raw_store.py), for one dataset: datasets  *)
(* share no lock, row or file.                                                  *)
(*                                                                             *)
(* A publication is spread over three stores without a common transaction: the  *)
(* directory of an immutable generation, the SQLite ledger (row and pending      *)
(* publication) and the file CURRENT. Every transaction, rename and read of one  *)
(* of them is a step of its own. A generation is named by the hash of its        *)
(* content, hence by its content. Rows of attempts and pages are a log that      *)
(* nobody reads back.                                                           *)
EXTENDS Naturals, FiniteSets

CONSTANTS
    Process,         \* processes that open the store
    Content,         \* what the API may answer
    empty,           \* the answer without rows
    Run,             \* names of attempts (uuid4: a new one is not in use)
    none,
    MAX_TRIES,       \* attempts of a reader to see ledger and CURRENT agree
    MaxDisturbances  \* bound: crashes, failing calls and damaged files

ASSUME ConstantsAssumption ==
    /\ empty \in Content
    /\ none \notin Content \cup Run \cup Process \cup {"ok", "error", "COMPLETE"}
    /\ none \notin [run : Run, generation : Content]
    /\ Content \cap {"ok", "error"} = {}
    /\ MAX_TRIES \in Nat \ {0}
    /\ MaxDisturbances \in Nat

VARIABLES
    row,           \* the row of datasets: state, run_id, published_generation_id
    pending,       \* the row of pending_publications
    pointer,       \* CURRENT
    generations,   \* the directories of generations
    damaged,       \* those whose verification fails
    lock,          \* who holds the lock of the dataset
    pc,            \* where a process is in its call
    op,            \* the call
    run,           \* its run_id
    recorded,      \* a page of the attempt is in the ledger
    content,       \* what it fetched
    view,          \* what it read of ledger and CURRENT
    tries,
    answer,        \* what the last call returned
    disturbances

store == <<row, pending, pointer, generations, damaged>>
local == <<op, run, recorded, content, view, tries>>
rawVars == <<store, lock, pc, local, answer, disturbances>>

Generation == Content

Nobody == [state |-> "absent", run |-> none, published |-> none]
Unread == [published |-> none, prepared |-> none]

\* The state of a published generation is part of its manifest.
StateOf(g) == IF g = empty THEN "EMPTY_UNKNOWN" ELSE "COMPLETE"

\* _verify_generation: manifest, pages and every hash agree.
Valid(g) == g \in generations \ damaged

RawInit ==
    /\ row = Nobody
    /\ pending = none
    /\ pointer = none
    /\ generations = {}
    /\ damaged = {}
    /\ lock = none
    /\ pc = [p \in Process |-> "idle"]
    /\ op = [p \in Process |-> none]
    /\ run = [p \in Process |-> none]
    /\ recorded = [p \in Process |-> FALSE]
    /\ content = [p \in Process |-> none]
    /\ view = [p \in Process |-> Unread]
    /\ tries = [p \in Process |-> 0]
    /\ answer = [p \in Process |-> none]
    /\ disturbances = 0

Goto(p, place) == pc' = [pc EXCEPT ![p] = place]

\* The call of p goes on, with what it has.
Proceed(p, place) == Goto(p, place) /\ UNCHANGED <<lock, local, answer>>

\* The call of p ends: its lock is released, what it had is gone.
Return(p, value) ==
    /\ Goto(p, "idle")
    /\ answer' = [answer EXCEPT ![p] = value]
    /\ lock' = IF lock = p THEN none ELSE lock
    /\ op' = [op EXCEPT ![p] = none]
    /\ run' = [run EXCEPT ![p] = none]
    /\ recorded' = [recorded EXCEPT ![p] = FALSE]
    /\ content' = [content EXCEPT ![p] = none]
    /\ view' = [view EXCEPT ![p] = Unread]
    /\ tries' = [tries EXCEPT ![p] = 0]

-----------------------------------------------------------------------------
(* Calls *)

\* capture and recover_dataset need the lock and fail at once without it;
\* reading and the constructor (open) need none.
Refused(operation) == operation \in {"capture", "recover"} /\ lock # none

FirstPlace(operation) == CASE operation = "resolve" -> "looking"
                           [] operation = "open"    -> "opening"
                           [] OTHER                 -> "recovering"

Call(p, operation) ==
    /\ pc[p] = "idle"
    /\ IF Refused(operation)
       THEN Return(p, "error")
       ELSE /\ Goto(p, FirstPlace(operation))
            /\ op' = [op EXCEPT ![p] = operation]
            /\ lock' = IF operation \in {"capture", "recover"} THEN p ELSE lock
            /\ answer' = [answer EXCEPT ![p] = none]
            /\ UNCHANGED <<run, recorded, content, view, tries>>
    /\ UNCHANGED <<store, disturbances>>

\* What a call returned is used up.
Forget(p) == answer' = [answer EXCEPT ![p] = none]

-----------------------------------------------------------------------------
(* _recover_dataset_locked, the first part of capture *)

\* The store is in order: recover_dataset returns, capture goes on.
Recovered(p) == IF op[p] = "capture" THEN Proceed(p, "claiming") ELSE Return(p, "ok")

InOrder == /\ pending = none
           /\ IF row.published = none THEN pointer = none
              ELSE Valid(row.published) /\ pointer = row.published

RecoverNothing(p) ==
    /\ pc[p] = "recovering"
    /\ InOrder
    /\ Recovered(p)
    /\ UNCHANGED <<store, disturbances>>

PendingValid == pending # none /\ Valid(pending.generation)

\* A prepared generation that verifies is published, one that does not makes
\* way for the confirmed one, and CURRENT is repaired.
RecoverFound(p) ==
    /\ pc[p] = "recovering"
    /\ \/ PendingValid /\ Proceed(p, "republishing")
       \/ /\ pending # none
          /\ ~PendingValid
          /\ Valid(row.published)
          /\ Proceed(p, "restoring")
       \/ /\ pending = none
          /\ Valid(row.published)
          /\ pointer # row.published
          /\ Proceed(p, "repairing")
    /\ UNCHANGED <<store, disturbances>>

\* Nothing that verifies can be published, or CURRENT has no row.
RecoverStops(p) ==
    /\ pc[p] = "recovering"
    /\ ~InOrder
    /\ ~Valid(row.published)
    /\ ~PendingValid
    /\ Return(p, "error")
    /\ UNCHANGED <<store, disturbances>>

\* _publish_pointer: os.replace of CURRENT.
SetPointer(g) == pointer' = g /\ UNCHANGED <<row, pending, generations, damaged>>

Republish(p) ==
    /\ pc[p] = "republishing"
    /\ SetPointer(pending.generation)
    /\ Proceed(p, "confirming")
    /\ UNCHANGED disturbances

Restore(p) ==
    /\ pc[p] = "restoring"
    /\ SetPointer(row.published)
    /\ Proceed(p, "aborting")
    /\ UNCHANGED disturbances

Repair(p) ==
    /\ pc[p] = "repairing"
    /\ SetPointer(row.published)
    /\ Recovered(p)
    /\ UNCHANGED disturbances

\* _abort_pending_publication
AbortPending(p) ==
    /\ pc[p] = "aborting"
    /\ row' = IF row.run = pending.run THEN [row EXCEPT !.state = "FAILED"] ELSE row
    /\ pending' = none
    /\ Recovered(p)
    /\ UNCHANGED <<pointer, generations, damaged, disturbances>>

\* _finish_dataset: one transaction confirms the prepared generation of the
\* attempt a, or fails and changes nothing.
FinishDataset(a) ==
    /\ pending # none
    /\ pending.run = a
    /\ row.state = "RUNNING"
    /\ row.run = a
    /\ row' = [state |-> StateOf(pending.generation), run |-> a,
               published |-> pending.generation]
    /\ pending' = none
    /\ UNCHANGED <<pointer, generations, damaged>>

\* The recovery finishes the attempt of whoever prepared it.
RecoverConfirms(p) ==
    /\ pc[p] = "confirming"
    /\ FinishDataset(pending.run)
    /\ Recovered(p)
    /\ UNCHANGED disturbances

-----------------------------------------------------------------------------
(* capture, after the recovery *)

\* The row is that of the attempt, and it is running.
Owns(p) == row.state = "RUNNING" /\ row.run = run[p]

\* A new attempt takes the row, whatever became of the last one; what is
\* published stays.
ClaimedRow(r) == [row EXCEPT !.state = "RUNNING", !.run = r]

\* The name of an attempt is new: in no row and no process.
Fresh(r) == r # row.run /\ \A q \in Process : r # run[q]

\* _claim_dataset. Which new name it is does not matter.
ClaimDataset(p) ==
    /\ pc[p] = "claiming"
    /\ \E r \in Run :
          /\ Fresh(r)
          /\ r = CHOOSE s \in Run : Fresh(s)
          /\ row' = ClaimedRow(r)
          /\ run' = [run EXCEPT ![p] = r]
    /\ Goto(p, "fetching")
    /\ UNCHANGED <<pending, pointer, generations, damaged, lock, op, recorded, content,
                   view, tries, answer, disturbances>>

\* A page that passes _validate_page is synced to the staging file and recorded.
RecordPage(p) ==
    /\ pc[p] = "fetching"
    /\ Owns(p)
    /\ recorded' = [recorded EXCEPT ![p] = TRUE]
    /\ UNCHANGED <<store, lock, pc, op, run, content, view, tries, answer, disturbances>>

\* _verify_capture: staging and ledger agree on the pages, and there is one.
CaptureVerified(p) == recorded[p]

\* The last page is there.
EndOfPages(p, c) ==
    /\ pc[p] = "fetching"
    /\ CaptureVerified(p)
    /\ content' = [content EXCEPT ![p] = c]
    /\ Goto(p, "fetched")
    /\ UNCHANGED <<store, lock, op, run, recorded, view, tries, answer, disturbances>>

\* The published generation is read as by any reader, and has to verify.
PublishedReadable == \/ row.published = none /\ pointer = none
                     \/ row.published = pointer /\ Valid(row.published)

\* A bug: an answer without rows is published like any other.
HeldBackNever(p) == FALSE

\* An answer without rows does not replace published rows.
HeldBack(p) == content[p] = empty /\ row.published \notin {none, empty}

\* _finish_empty_held
FinishEmptyHeld(p) ==
    /\ pc[p] = "fetched"
    /\ PublishedReadable
    /\ HeldBack(p)
    /\ Owns(p)
    /\ row' = [row EXCEPT !.state = "EMPTY_HELD"]
    /\ Proceed(p, "cleaning")
    /\ UNCHANGED <<pending, pointer, generations, damaged, disturbances>>

\* A bug: the directory stays under its staging name.
PublishNothing(p) ==
    /\ pc[p] = "fetched"
    /\ PublishedReadable
    /\ ~HeldBack(p)
    /\ Proceed(p, "preparing")
    /\ UNCHANGED <<store, disturbances>>

\* _publish_generation: the directory is renamed into place, or the one that is
\* there is used; it has to verify.
PublishGeneration(p) ==
    /\ pc[p] = "fetched"
    /\ PublishedReadable
    /\ ~HeldBack(p)
    /\ content[p] \notin damaged
    /\ generations' = generations \cup {content[p]}
    /\ Proceed(p, "preparing")
    /\ UNCHANGED <<row, pending, pointer, damaged, disturbances>>

\* A bug: CURRENT is switched without a prepared publication.
PrepareNothing(p) ==
    /\ pc[p] = "preparing"
    /\ Owns(p)
    /\ Proceed(p, "switching")
    /\ UNCHANGED <<store, disturbances>>

\* _prepare_publication
PreparePublication(p) ==
    /\ pc[p] = "preparing"
    /\ Owns(p)
    /\ pending' = [run |-> run[p], generation |-> content[p]]
    /\ Proceed(p, "switching")
    /\ UNCHANGED <<row, pointer, generations, damaged, disturbances>>

PublishPointer(p) ==
    /\ pc[p] = "switching"
    /\ SetPointer(content[p])
    /\ Proceed(p, "finishing")
    /\ UNCHANGED disturbances

ConfirmPublication(p) ==
    /\ pc[p] = "finishing"
    /\ FinishDataset(run[p])
    /\ Proceed(p, "cleaning")
    /\ UNCHANGED disturbances

\* _cleanup_staging
CleanupStaging(p) ==
    /\ pc[p] = "cleaning"
    /\ Return(p, "ok")
    /\ UNCHANGED <<store, disturbances>>

\* A bug: a prepared publication is not left to the recovery.
FailedRowAlways(p) ==
    IF ~Owns(p) THEN row
    ELSE [row EXCEPT !.state = IF recorded[p] THEN "PARTIAL" ELSE "FAILED"]

\* The row after a step of the capture has raised: with a prepared publication
\* everything is left to the recovery; otherwise the attempt has failed, unless
\* it was over.
FailedRow(p) ==
    IF ~Owns(p) \/ (pending # none /\ pending.run = run[p]) THEN row
    ELSE [row EXCEPT !.state = IF recorded[p] THEN "PARTIAL" ELSE "FAILED"]

\* The published generation or the one to be published does not verify.
CaptureStops(p) ==
    /\ pc[p] = "fetched"
    /\ ~PublishedReadable \/ (~HeldBack(p) /\ content[p] \in damaged)
    /\ row' = FailedRow(p)
    /\ Return(p, "error")
    /\ UNCHANGED <<pending, pointer, generations, damaged, disturbances>>

-----------------------------------------------------------------------------
(* _get_published_manifest, without a lock *)

\* Row and pending publication, in one transaction.
Look(p) ==
    /\ pc[p] = "looking"
    /\ IF row = Nobody
       THEN Return(p, none)
       ELSE /\ view' = [view EXCEPT ![p] =
                  [published |-> row.published,
                   prepared  |-> IF pending = none THEN none ELSE pending.generation]]
            /\ tries' = [tries EXCEPT ![p] = @ + 1]
            /\ Goto(p, "comparing")
            /\ UNCHANGED <<lock, op, run, recorded, content, answer>>
    /\ UNCHANGED <<store, disturbances>>

\* CURRENT is what the ledger says, or what it says is on its way.
Agreed(p) == \/ pointer = view[p].published
             \/ pointer # none /\ pointer = view[p].prepared

\* The reader is told the confirmed generation, also in the middle of the
\* publication of the next one. There may be none yet.
Told(p) ==
    LET g == view[p].published
    IN  IF g = none /\ pointer = none THEN none
        ELSE IF Valid(g) /\ Valid(pointer) THEN g
        ELSE "error"

Compare(p) ==
    /\ pc[p] = "comparing"
    /\ IF Agreed(p) THEN Return(p, Told(p))
       ELSE IF tries[p] < MAX_TRIES THEN Proceed(p, "looking")
       ELSE Return(p, "error")
    /\ UNCHANGED <<store, disturbances>>

-----------------------------------------------------------------------------
(* _migrate_published_references, in the constructor, without a lock *)

\* A row without a published generation is given the one CURRENT names.
OpenLook(p) ==
    /\ pc[p] = "opening"
    /\ IF row = Nobody \/ row.published # none THEN Return(p, "ok")
       ELSE Proceed(p, "importing")
    /\ UNCHANGED <<store, disturbances>>

OpenRead(p) ==
    /\ pc[p] = "importing"
    /\ IF pointer # none /\ Valid(pointer)
       THEN /\ view' = [view EXCEPT ![p].published = pointer]
            /\ Goto(p, "adopting")
            /\ UNCHANGED <<lock, op, run, recorded, content, tries, answer>>
       ELSE Return(p, "ok")
    /\ UNCHANGED <<store, disturbances>>

AdoptedRow(p) == IF row.published = none
                 THEN [row EXCEPT !.published = view[p].published] ELSE row

OpenAdopts(p) ==
    /\ pc[p] = "adopting"
    /\ row' = AdoptedRow(p)
    /\ Return(p, "ok")
    /\ UNCHANGED <<pending, pointer, generations, damaged, disturbances>>

-----------------------------------------------------------------------------
(* Disturbances *)

Disturb == /\ disturbances < MaxDisturbances
           /\ disturbances' = disturbances + 1

\* The places of a capture that has claimed the row.
Claimed == {"fetching", "fetched", "preparing", "switching", "finishing", "cleaning"}

\* A step of a call raises (the API, the disk, the database), and maybe the
\* update of the row after it.
CallFails(p) ==
    /\ pc[p] # "idle"
    /\ Disturb
    /\ \/ pc[p] \in Claimed /\ row' = FailedRow(p)
       \/ UNCHANGED row
    /\ Return(p, "error")
    /\ UNCHANGED <<pending, pointer, generations, damaged>>

\* The process dies; the system releases its lock. Ledger, CURRENT and
\* generations stay as they are.
ProcessDies(p) ==
    /\ Disturb
    /\ Return(p, none)
    /\ UNCHANGED store

\* A file of a generation is damaged, or CURRENT is lost.
Damage ==
    /\ Disturb
    /\ \/ /\ \E g \in generations : damaged' = damaged \cup {g}
          /\ UNCHANGED <<row, pending, pointer, generations>>
       \/ SetPointer(none)
    /\ UNCHANGED <<lock, pc, local, answer>>

-----------------------------------------------------------------------------
Recover(p) == \/ RecoverNothing(p) \/ RecoverFound(p) \/ RecoverStops(p)
              \/ Republish(p) \/ Restore(p) \/ Repair(p)
              \/ AbortPending(p) \/ RecoverConfirms(p)

Capture(p) == \/ ClaimDataset(p) \/ RecordPage(p) \/ \E c \in Content : EndOfPages(p, c)
              \/ FinishEmptyHeld(p) \/ PublishGeneration(p) \/ CaptureStops(p)
              \/ PreparePublication(p) \/ PublishPointer(p) \/ ConfirmPublication(p)
              \/ CleanupStaging(p)

Resolve(p) == Look(p) \/ Compare(p)

Open(p) == OpenLook(p) \/ OpenRead(p) \/ OpenAdopts(p)

\* A call that is under way goes on.
RawStep(p) == Recover(p) \/ Capture(p) \/ Resolve(p) \/ Open(p)

RawNext ==
    \/ \E p \in Process :
          \/ \E operation \in {"capture", "recover", "resolve", "open"} : Call(p, operation)
          \/ RawStep(p) \/ CallFails(p) \/ ProcessDies(p)
          \/ /\ pc[p] = "idle"
             /\ Forget(p)
             /\ UNCHANGED <<store, lock, pc, local, disturbances>>
    \/ Damage

RawSpec == RawInit /\ [][RawNext]_rawVars

-----------------------------------------------------------------------------
(* Properties *)

State == {"absent", "RUNNING", "PARTIAL", "FAILED", "EMPTY_HELD", "EMPTY_UNKNOWN", "COMPLETE"}

Place == {"idle", "recovering", "republishing", "confirming", "restoring", "aborting",
          "repairing", "claiming", "looking", "comparing", "opening", "importing",
          "adopting"} \cup Claimed

MaybeGeneration == Generation \cup {none}

\* Every variable has its type; a generation that is named is there.
RawTypeOK ==
    /\ row \in [state : State, run : Run \cup {none}, published : generations \cup {none}]
    /\ pending \in [run : Run, generation : generations] \cup {none}
    /\ pointer \in generations \cup {none}
    /\ generations \subseteq Generation
    /\ damaged \subseteq generations
    /\ lock \in Process \cup {none}
    /\ pc \in [Process -> Place]
    /\ op \in [Process -> {none, "capture", "recover", "resolve", "open"}]
    /\ run \in [Process -> Run \cup {none}]
    /\ recorded \in [Process -> BOOLEAN]
    /\ content \in [Process -> MaybeGeneration]
    /\ view \in [Process -> [published : MaybeGeneration, prepared : MaybeGeneration]]
    /\ tries \in [Process -> 0..MAX_TRIES]
    /\ answer \in [Process -> MaybeGeneration \cup {"ok", "error"}]
    /\ disturbances \in 0..MaxDisturbances

\* CURRENT names the confirmed generation, or one that a pending publication
\* announces: wherever a capture or a recovery stops, ledger and file can be
\* brought together again.
PointerAccounted ==
    pointer # none => \/ pointer = row.published
                      \/ pending # none /\ pointer = pending.generation

\* A pending publication belongs to the attempt that the row says is running, so
\* that its recovery can confirm it (_finish_dataset asks for both).
PendingFinishable ==
    pending # none => row.state = "RUNNING" /\ row.run = pending.run

\* Wherever a process stops, the three places that say what is published can be
\* brought together again.
Recoverable == PointerAccounted /\ PendingFinishable
=============================================================================
