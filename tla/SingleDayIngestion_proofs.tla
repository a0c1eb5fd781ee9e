---------------------- MODULE SingleDayIngestion_proofs ----------------------
(***************************************************************************)
(* Theorems about SingleDayIngestion for any processes, contents, numbers of *)
(* attempts of a reader, and any number of crashes, failures and damages.    *)
(***************************************************************************)
EXTENDS SingleDayIngestion, TLAPS

-----------------------------------------------------------------------------
(* The inductive invariant, in named parts *)

\* Where a process holds the lock of the dataset.
LockedPlace == {"recovering", "republishing", "confirming", "restoring", "aborting",
                "repairing", "claiming"} \cup Claimed

StoreTypes ==
    /\ row \in [state : State, run : Run \cup {none}, published : generations \cup {none}]
    /\ pending \in [run : Run, generation : generations] \cup {none}
    /\ pointer \in generations \cup {none}
    /\ generations \subseteq Generation
    /\ damaged \subseteq generations

Answers == MaybeGeneration \cup {"ok", "error"}

LocalTypes ==
    /\ lock \in Process \cup {none}
    /\ pc \in [Process -> Place]
    /\ op \in [Process -> {none, "capture", "recover", "resolve", "open"}]
    /\ run \in [Process -> Run \cup {none}]
    /\ recorded \in [Process -> BOOLEAN]
    /\ content \in [Process -> MaybeGeneration]
    /\ view \in [Process -> [published : MaybeGeneration, prepared : MaybeGeneration]]
    /\ tries \in [Process -> 0..MAX_TRIES]
    /\ answer \in [Process -> Answers]

JobTypes ==
    /\ canonical \in [generations : SUBSET Generation, damaged : SUBSET Generation,
                      current : Generation \cup {none}]
    /\ canonical.damaged \subseteq canonical.generations
    /\ canonical.current \in canonical.generations \cup {none}
    /\ jobLock \in Process \cup {none}
    /\ stage \in [Process -> Stage]
    /\ mode \in [Process -> Mode]
    /\ source \in [Process -> Generation \cup {none}]
    /\ rawState \in [Process -> State \cup {none}]
    /\ status \in {"COMPLETE", "ATTENTION", "FAILED", none}

\* The locks exclude: who is in a critical call holds the lock of the dataset, and the
\* run that made the call that of the job.
Excluded(p) ==
    /\ pc[p] \in LockedPlace => lock = p /\ stage[p] \in {"recovering", "capturing"}
    /\ pc[p] \in {"opening", "importing", "adopting"} => stage[p] = "opening"
    /\ pc[p] \in {"looking", "comparing"} => stage[p] \in {"resolving", "resolving again"}
    /\ stage[p] \notin {"off", "opening"} => jobLock = p

\* What the holder of the lock can rely on, at every place of its call.
Relied(p) ==
    /\ pc[p] \in Claimed => run[p] \in Run
    /\ pc[p] \in {"fetched", "preparing", "switching", "finishing"} => content[p] \in Content
    /\ pc[p] \in {"preparing", "switching", "finishing"} => content[p] \in generations
    /\ pc[p] \in {"repairing", "claiming", "fetching", "fetched", "preparing", "cleaning"}
          => pending = none
    /\ pc[p] \in {"republishing", "confirming", "restoring", "aborting"} => pending # none
    /\ pc[p] \in {"switching", "finishing"}
          => pending = [run |-> run[p], generation |-> content[p]]
    /\ pc[p] \in {"confirming", "finishing"} => pointer \in {none, pending.generation}
    /\ pc[p] \in {"restoring", "aborting", "repairing"} => row.published # none
    /\ pc[p] = "aborting" => pointer \in {none, row.published}
    /\ pc[p] = "preparing" /\ content[p] = empty => row.published \in {none, empty}
    /\ pc[p] = "looking" => tries[p] < MAX_TRIES
    /\ pc[p] = "idle" => tries[p] = 0

\* The constructor adopts what is being published for the first time, or nothing.
Adopting(p) ==
    pc[p] = "adopting" =>
       /\ view[p].published \in generations
       /\ row.published = none => pending # none /\ view[p].published = pending.generation

\* What a run has read of the ledger is still so.
Current(p) ==
    /\ stage[p] \in {"recovering", "capturing"} /\ pc[p] = "idle" /\ answer[p] = "ok"
          => pending = none
    /\ stage[p] \in {"resolving", "resolving again", "converting", "publishing"} => pending = none
    /\ /\ pc[p] = "comparing"
       /\ view[p].published # none
       => view[p].published = row.published
    /\ /\ stage[p] \in {"resolving", "resolving again"}
       /\ pc[p] = "idle"
       => answer[p] # "ok" /\ (answer[p] \in Generation => answer[p] = row.published)
    /\ stage[p] \in {"converting", "publishing"} =>
          /\ source[p] = row.published
          /\ row.published # none
          /\ rawState[p] = row.state
    /\ stage[p] = "publishing" => source[p] \in canonical.generations

\* Nothing empty is on its way to replace rows, and the state of the row is true.
LedgerTrue ==
    /\ pending # none /\ pending.generation = empty => row.published \in {none, empty}
    /\ row.state = "absent" => row.published = none
    /\ row.state = "EMPTY_UNKNOWN" => row.published = empty

ProcessInv(p) == Excluded(p) /\ Relied(p) /\ Adopting(p) /\ Current(p)

Types == StoreTypes /\ LocalTypes /\ JobTypes /\ disturbances \in 0..MaxDisturbances

StoreInv == Recoverable /\ LedgerTrue

IInv == Types /\ StoreInv /\ \A p \in Process : ProcessInv(p)

\* What the process q and its run know, in memory.
SameLocal(q) ==
    /\ pc'[q] = pc[q] /\ run'[q] = run[q] /\ content'[q] = content[q] /\ view'[q] = view[q]
    /\ tries'[q] = tries[q] /\ answer'[q] = answer[q]

SameJob(q) == stage'[q] = stage[q] /\ source'[q] = source[q] /\ rawState'[q] = rawState[q]

-----------------------------------------------------------------------------
(* Effects *)

LEMMA Bounds == MAX_TRIES \in Nat \ {0} /\ 0 < MAX_TRIES /\ MaxDisturbances \in Nat
BY ConstantsAssumption

LEMMA Distinct ==
    /\ none \notin Content /\ none \notin Run /\ none \notin Process /\ empty \in Content
    /\ none # "ok" /\ none # "error" /\ none # "COMPLETE" /\ "ok" \notin Content /\ "error" \notin Content
    /\ \A r \in Run, g \in Content : [run |-> r, generation |-> g] # none
    /\ MAX_TRIES \in Nat \ {0} /\ MaxDisturbances \in Nat
<1>1. \A r \in Run, g \in Content : [run |-> r, generation |-> g] \in [run : Run, generation : Content]
  OBVIOUS
<1>2. none \notin [run : Run, generation : Content]
  BY ConstantsAssumption DEF Generation
<1>3. QED
  BY <1>1, <1>2, ConstantsAssumption

\* A call ends.
LEMMA ReturnEffect ==
    ASSUME LocalTypes, NEW p \in Process, NEW v \in Answers, Return(p, v)
    PROVE  /\ LocalTypes'
           /\ pc'[p] = "idle" /\ answer'[p] = v /\ tries'[p] = 0
           /\ \A q \in Process \ {p} : SameLocal(q) /\ (lock = q => lock' = q)
<1>1. /\ pc' = [pc EXCEPT ![p] = "idle"]
      /\ answer' = [answer EXCEPT ![p] = v]
      /\ lock' = IF lock = p THEN none ELSE lock
      /\ op' = [op EXCEPT ![p] = none]
      /\ run' = [run EXCEPT ![p] = none]
      /\ recorded' = [recorded EXCEPT ![p] = FALSE]
      /\ content' = [content EXCEPT ![p] = none]
      /\ view' = [view EXCEPT ![p] = Unread]
      /\ tries' = [tries EXCEPT ![p] = 0]
  BY DEF Return, Goto
<1>2. "idle" \in Place /\ Unread \in [published : MaybeGeneration, prepared : MaybeGeneration]
      /\ 0 \in 0..MAX_TRIES /\ none \in MaybeGeneration
  BY Distinct DEF Place, Unread, MaybeGeneration
<1>3. lock' \in Process \cup {none} /\ pc' \in [Process -> Place]
      /\ op' \in [Process -> {none, "capture", "recover", "resolve", "open"}]
  BY <1>1, <1>2 DEF LocalTypes
<1>4. run' \in [Process -> Run \cup {none}] /\ recorded' \in [Process -> BOOLEAN]
      /\ content' \in [Process -> MaybeGeneration]
  BY <1>1, <1>2 DEF LocalTypes
<1>5. view' \in [Process -> [published : MaybeGeneration, prepared : MaybeGeneration]]
      /\ tries' \in [Process -> 0..MAX_TRIES] /\ answer' \in [Process -> Answers]
  BY <1>1, <1>2 DEF LocalTypes
<1>6. pc'[p] = "idle" /\ answer'[p] = v /\ tries'[p] = 0
  BY <1>1 DEF LocalTypes
<1>7. \A q \in Process \ {p} : SameLocal(q) /\ (lock = q => lock' = q)
  BY <1>1 DEF LocalTypes, SameLocal
<1>8. QED
  BY <1>3, <1>4, <1>5, <1>6, <1>7 DEF LocalTypes

\* A call goes on.
LEMMA ProceedEffect ==
    ASSUME LocalTypes, NEW p \in Process, NEW place \in Place, Proceed(p, place)
    PROVE  /\ LocalTypes'
           /\ pc'[p] = place /\ lock' = lock /\ run' = run /\ content' = content /\ view' = view
           /\ tries' = tries /\ answer' = answer /\ op' = op /\ recorded' = recorded
           /\ \A q \in Process \ {p} : SameLocal(q) /\ (lock = q => lock' = q)
<1>1. pc' = [pc EXCEPT ![p] = place] /\ UNCHANGED <<lock, local, answer>>
  BY DEF Proceed, Goto
<1>2. QED
  BY <1>1 DEF LocalTypes, SameLocal, local

\* A call begins, or is refused.
LEMMA CallEffect ==
    ASSUME LocalTypes, NEW p \in Process, NEW operation \in {"capture", "recover", "resolve", "open"},
           Call(p, operation), tries[p] = 0
    PROVE  /\ LocalTypes' /\ pc[p] = "idle"
           /\ \A q \in Process \ {p} : SameLocal(q) /\ (lock = q => lock' = q)
           /\ UNCHANGED <<store, disturbances>>
           /\ tries'[p] = 0
           /\ \/ pc'[p] = "idle" /\ answer'[p] = "error" /\ operation \in {"capture", "recover"}
              \/ /\ pc'[p] = FirstPlace(operation)
                 /\ operation \in {"capture", "recover"} => lock' = p
<1>1. CASE Refused(operation)
  <2>1. Return(p, "error") /\ pc[p] = "idle" /\ UNCHANGED <<store, disturbances>>
    BY <1>1 DEF Call
  <2>2. "error" \in Answers
    BY DEF Answers
  <2>3. operation \in {"capture", "recover"}
    BY <1>1 DEF Refused
  <2>4. QED
    BY <2>1, <2>2, <2>3, ReturnEffect
<1>2. CASE ~Refused(operation)
  <2>1. /\ pc[p] = "idle"
        /\ pc' = [pc EXCEPT ![p] = FirstPlace(operation)]
        /\ op' = [op EXCEPT ![p] = operation]
        /\ lock' = IF operation \in {"capture", "recover"} THEN p ELSE lock
        /\ answer' = [answer EXCEPT ![p] = none]
        /\ UNCHANGED <<run, recorded, content, view, tries>>
        /\ UNCHANGED <<store, disturbances>>
    BY <1>2 DEF Call, Goto
  <2>2. FirstPlace(operation) \in Place /\ none \in Answers
    BY DEF FirstPlace, Place, Answers, MaybeGeneration
  <2>3. LocalTypes'
    BY <2>1, <2>2 DEF LocalTypes
  <2>4. pc'[p] = FirstPlace(operation) /\ tries'[p] = 0
    BY <2>1 DEF LocalTypes
  <2>5. \A q \in Process \ {p} : SameLocal(q)
    BY <2>1 DEF LocalTypes, SameLocal
  <2>6. \A q \in Process \ {p} : lock = q => lock' = q
    BY <1>2, <2>1, Distinct DEF Refused
  <2>7. operation \in {"capture", "recover"} => lock' = p
    BY <2>1
  <2>8. QED
    BY <2>1, <2>3, <2>4, <2>5, <2>6, <2>7
<1>3. QED
  BY <1>1, <1>2

-----------------------------------------------------------------------------
(* The processes that do not take the step *)

\* What is published, prepared and confirmed stays, and CURRENT unless it is lost.
Steady == /\ row' = row /\ pending' = pending /\ pointer' \in {pointer, none}
          /\ generations \subseteq generations'
          /\ canonical.generations \subseteq canonical'.generations

LEMMA SteadyKeeps ==
    ASSUME NEW q \in Process, ProcessInv(q), SameLocal(q), SameJob(q), Steady,
           lock = q => lock' = q, jobLock = q => jobLock' = q
    PROVE  ProcessInv(q)'
<1>1. Excluded(q)'
  BY DEF ProcessInv, Excluded, SameLocal, SameJob
<1>2. Relied(q)'
  BY DEF ProcessInv, Relied, SameLocal, Steady
<1>3. Adopting(q)'
  BY DEF ProcessInv, Adopting, SameLocal, Steady
<1>4. Current(q)'
  BY DEF ProcessInv, Current, SameLocal, SameJob, Steady
<1>5. QED
  BY <1>1, <1>2, <1>3, <1>4 DEF ProcessInv

\* While p is in a critical call, no other process is, and no other run is past its start.
LEMMA HolderAlone ==
    ASSUME NEW p \in Process, NEW q \in Process \ {p}, Excluded(p), Excluded(q), pc[p] \in LockedPlace
    PROVE  pc[q] \notin LockedPlace \cup {"looking", "comparing"} /\ stage[q] \in {"off", "opening"}
BY DEF Excluded

\* So they do not mind what it does to the ledger.
LEMMA HolderStep ==
    ASSUME NEW p \in Process, NEW q \in Process \ {p}, Excluded(p), pc[p] \in LockedPlace,
           ProcessInv(q), SameLocal(q), SameJob(q),
           generations \subseteq generations',
           row'.published = none => row.published = none /\ pending \in {none, pending'}
    PROVE  ProcessInv(q)'
<1>1. pc[q] \notin LockedPlace \cup {"looking", "comparing"} /\ stage[q] \in {"off", "opening"}
  BY HolderAlone DEF ProcessInv
<1>2. pc'[q] \notin LockedPlace \cup {"looking", "comparing"} /\ stage'[q] \in {"off", "opening"}
  BY <1>1 DEF SameLocal, SameJob
<1>3. Excluded(q)'
  BY <1>2 DEF ProcessInv, Excluded, SameLocal, SameJob
<1>4. Relied(q)'
  BY <1>2 DEF ProcessInv, Relied, SameLocal, LockedPlace, Claimed
<1>5. Adopting(q)'
  BY DEF ProcessInv, Adopting, SameLocal
<1>6. Current(q)'
  BY <1>2 DEF ProcessInv, Current, SameLocal, SameJob
<1>7. QED
  BY <1>3, <1>4, <1>5, <1>6 DEF ProcessInv

-----------------------------------------------------------------------------
(* The process that takes a step of the raw store, while its run waits *)

LEMMA JobUnchanged ==
    ASSUME UNCHANGED jobVars
    PROVE  /\ \A q \in Process : SameJob(q)
           /\ canonical' = canonical /\ jobLock' = jobLock /\ stage' = stage /\ mode' = mode
           /\ source' = source /\ rawState' = rawState /\ status' = status
           /\ JobTypes => JobTypes'
BY DEF jobVars, SameJob, JobTypes

\* Its call ends.
LEMMA ReturnKeeps ==
    ASSUME NEW p \in Process, ProcessInv(p), pc[p] \in Place \ {"idle"}, UNCHANGED jobVars,
           pc'[p] = "idle", tries'[p] = 0,
           stage[p] \in {"recovering", "capturing"} /\ answer'[p] = "ok" => pending' = none,
           stage[p] \in {"resolving", "resolving again"}
              => /\ pending' = pending /\ answer'[p] # "ok"
                 /\ answer'[p] \in Generation => answer'[p] = row'.published
    PROVE  ProcessInv(p)'
<1>1. SameJob(p) /\ jobLock' = jobLock /\ canonical' = canonical
  BY JobUnchanged
<1>2. stage[p] \notin {"converting", "publishing"}
  BY DEF ProcessInv, Excluded, Place, Claimed, LockedPlace
<1>3. Excluded(p)'
  BY <1>1 DEF ProcessInv, Excluded, SameJob, LockedPlace, Claimed
<1>4. Relied(p)'
  BY DEF Relied, Claimed
<1>5. Adopting(p)'
  BY DEF Adopting
<1>6. Current(p)'
  BY <1>1, <1>2 DEF ProcessInv, Current, SameJob
<1>7. QED
  BY <1>3, <1>4, <1>5, <1>6 DEF ProcessInv

\* Its critical call goes on.
LEMMA CriticalKeeps ==
    ASSUME NEW p \in Process, ProcessInv(p), pc[p] \in LockedPlace, UNCHANGED jobVars,
           pc'[p] \in LockedPlace, lock' = lock, Relied(p)'
    PROVE  ProcessInv(p)'
<1>1. SameJob(p) /\ jobLock' = jobLock
  BY JobUnchanged
<1>2. stage[p] \in {"recovering", "capturing"} /\ lock = p /\ jobLock = p
  BY DEF ProcessInv, Excluded
<1>3. Excluded(p)'
  BY <1>1, <1>2 DEF Excluded, SameJob, LockedPlace, Claimed
<1>4. Adopting(p)'
  BY DEF Adopting, LockedPlace, Claimed
<1>5. Current(p)'
  BY <1>1, <1>2 DEF Current, SameJob, LockedPlace, Claimed
<1>6. QED
  BY <1>3, <1>4, <1>5 DEF ProcessInv

\* What the steps have in common that leave the stores as they are.
LEMMA QuietStep ==
    ASSUME IInv, NEW p \in Process, UNCHANGED jobVars, UNCHANGED <<store, disturbances>>,
           LocalTypes', ProcessInv(p)',
           \A q \in Process \ {p} : SameLocal(q) /\ (lock = q => lock' = q)
    PROVE  IInv'
<1>1. Types /\ StoreInv /\ \A q \in Process : ProcessInv(q)
  BY DEF IInv
<1>2. JobTypes' /\ canonical' = canonical /\ jobLock' = jobLock /\ \A q \in Process : SameJob(q)
  BY <1>1, JobUnchanged DEF Types
<1>3. /\ row' = row /\ pending' = pending /\ pointer' = pointer /\ generations' = generations
      /\ damaged' = damaged /\ disturbances' = disturbances
  BY DEF store
<1>4. Types'
  BY <1>1, <1>2, <1>3 DEF Types, StoreTypes
<1>5. StoreInv'
  BY <1>1, <1>3 DEF StoreInv, Recoverable, PointerAccounted, PendingFinishable, LedgerTrue
<1>6. ASSUME NEW q \in Process \ {p} PROVE ProcessInv(q)'
  <2>1. Steady
    BY <1>2, <1>3 DEF Steady
  <2>2. QED
    BY <1>1, <1>2, <2>1, SteadyKeeps
<1>7. QED
  BY <1>4, <1>5, <1>6 DEF IInv

\* What the steps have in common that the holder of the lock takes.
LEMMA CriticalStep ==
    ASSUME IInv, NEW p \in Process, pc[p] \in LockedPlace, UNCHANGED jobVars,
           disturbances' \in 0..MaxDisturbances,
           LocalTypes', StoreTypes', StoreInv', ProcessInv(p)',
           \A q \in Process \ {p} : SameLocal(q),
           generations \subseteq generations',
           row'.published = none => row.published = none /\ pending \in {none, pending'}
    PROVE  IInv'
<1>1. Types /\ \A q \in Process : ProcessInv(q)
  BY DEF IInv
<1>2. JobTypes' /\ \A q \in Process : SameJob(q)
  BY <1>1, JobUnchanged DEF Types
<1>3. ASSUME NEW q \in Process \ {p} PROVE ProcessInv(q)'
  BY <1>1, <1>2, HolderStep DEF ProcessInv
<1>4. QED
  BY <1>2, <1>3 DEF IInv, Types

\* The end of a recovery, at which the ledger is in order.
LEMMA RecoveredEffect ==
    ASSUME LocalTypes, NEW p \in Process, ProcessInv(p), pc[p] \in LockedPlace, Recovered(p),
           pending' = none, UNCHANGED jobVars
    PROVE  /\ LocalTypes' /\ ProcessInv(p)'
           /\ \A q \in Process \ {p} : SameLocal(q) /\ (lock = q => lock' = q)
<1>1. CASE Proceed(p, "claiming")
  <2>1. "claiming" \in Place /\ "claiming" \in LockedPlace
    BY DEF Place, LockedPlace
  <2>2. /\ LocalTypes' /\ pc'[p] = "claiming" /\ lock' = lock
        /\ \A q \in Process \ {p} : SameLocal(q) /\ (lock = q => lock' = q)
    BY <1>1, <2>1, ProceedEffect
  <2>3. Relied(p)'
    BY <2>2 DEF Relied, Claimed
  <2>4. QED
    BY <2>1, <2>2, <2>3, CriticalKeeps
<1>2. CASE Return(p, "ok")
  <2>1. "ok" \in Answers /\ pc[p] \in Place \ {"idle"}
    BY DEF Answers, LockedPlace, Place, Claimed
  <2>2. /\ LocalTypes' /\ pc'[p] = "idle" /\ tries'[p] = 0
        /\ \A q \in Process \ {p} : SameLocal(q) /\ (lock = q => lock' = q)
    BY <1>2, <2>1, ReturnEffect
  <2>3. stage[p] \in {"recovering", "capturing"}
    BY DEF ProcessInv, Excluded
  <2>4. ProcessInv(p)'
    BY <2>1, <2>2, <2>3, ReturnKeeps
  <2>5. QED
    BY <2>2, <2>4
<1>3. QED
  BY <1>1, <1>2 DEF Recovered

\* The parts of the invariant that the step of p needs.
LEMMA Parts ==
    ASSUME IInv, NEW p \in Process
    PROVE  /\ Types /\ StoreTypes /\ LocalTypes /\ StoreInv /\ ProcessInv(p)
           /\ Excluded(p) /\ Relied(p) /\ Adopting(p) /\ Current(p)
           /\ disturbances \in 0..MaxDisturbances
BY DEF IInv, Types, ProcessInv

-----------------------------------------------------------------------------
(* Recovery *)

LEMMA RecoverNothingStep ==
    ASSUME IInv, NEW p \in Process, RecoverNothing(p), UNCHANGED jobVars PROVE IInv'
<1>1. pc[p] \in LockedPlace /\ Recovered(p) /\ UNCHANGED <<store, disturbances>> /\ pending = none
  BY DEF RecoverNothing, InOrder, LockedPlace
<1>2. pending' = none
  BY <1>1 DEF store
<1>3. QED
  BY <1>1, <1>2, Parts, RecoveredEffect, QuietStep

LEMMA RecoverFoundStep ==
    ASSUME IInv, NEW p \in Process, RecoverFound(p), UNCHANGED jobVars PROVE IInv'
<1>1. PICK place \in {"republishing", "restoring", "repairing"} :
         /\ Proceed(p, place)
         /\ place \in {"republishing", "restoring"} => pending # none
         /\ place = "repairing" => pending = none
         /\ place \in {"restoring", "repairing"} => Valid(row.published)
  BY DEF RecoverFound, PendingValid
<1>2. pc[p] \in LockedPlace /\ UNCHANGED <<store, disturbances>> /\ row' = row /\ pending' = pending
  BY DEF RecoverFound, LockedPlace, store
<1>3. place \in Place /\ place \in LockedPlace
  BY DEF Place, LockedPlace
<1>4. /\ LocalTypes' /\ pc'[p] = place /\ lock' = lock
      /\ \A q \in Process \ {p} : SameLocal(q) /\ (lock = q => lock' = q)
  BY <1>1, <1>3, Parts, ProceedEffect
<1>5. Valid(row.published) => row.published # none
  BY Parts, Distinct DEF Valid, StoreTypes, Generation
<1>6. Relied(p)'
  BY <1>1, <1>2, <1>4, <1>5 DEF Relied, Claimed
<1>7. ProcessInv(p)'
  BY <1>2, <1>3, <1>4, <1>6, Parts, CriticalKeeps
<1>8. QED
  BY <1>2, <1>4, <1>7, QuietStep

LEMMA RecoverStopsStep ==
    ASSUME IInv, NEW p \in Process, RecoverStops(p), UNCHANGED jobVars PROVE IInv'
<1>1. pc[p] = "recovering" /\ Return(p, "error") /\ UNCHANGED <<store, disturbances>>
  BY DEF RecoverStops
<1>2. "error" \in Answers /\ pc[p] \in Place \ {"idle"}
  BY <1>1 DEF Answers, Place
<1>3. /\ LocalTypes' /\ pc'[p] = "idle" /\ tries'[p] = 0 /\ answer'[p] = "error"
      /\ \A q \in Process \ {p} : SameLocal(q) /\ (lock = q => lock' = q)
  BY <1>1, <1>2, Parts, ReturnEffect
<1>4. stage[p] \in {"recovering", "capturing"}
  BY <1>1, Parts DEF Excluded, LockedPlace
<1>5. ProcessInv(p)'
  BY <1>2, <1>3, <1>4, Parts, ReturnKeeps
<1>6. QED
  BY <1>1, <1>3, <1>5, QuietStep

\* CURRENT is switched to what is confirmed, or to what is pending.
LEMMA PointerSwitched ==
    ASSUME StoreTypes, StoreInv, NEW g \in generations, SetPointer(g),
           g = row.published \/ (pending # none /\ g = pending.generation)
    PROVE  StoreTypes' /\ StoreInv'
<1>1. /\ pointer' = g /\ row' = row /\ pending' = pending /\ generations' = generations
      /\ damaged' = damaged
  BY DEF SetPointer
<1>2. StoreTypes'
  BY <1>1 DEF StoreTypes
<1>3. StoreInv'
  BY <1>1 DEF StoreInv, Recoverable, PointerAccounted, PendingFinishable, LedgerTrue
<1>4. QED
  BY <1>2, <1>3

LEMMA RepublishStep ==
    ASSUME IInv, NEW p \in Process, Republish(p), UNCHANGED jobVars PROVE IInv'
<1>1. /\ pc[p] = "republishing" /\ SetPointer(pending.generation) /\ Proceed(p, "confirming")
      /\ disturbances' = disturbances
  BY DEF Republish
<1>2. "confirming" \in Place /\ pc[p] \in LockedPlace /\ "confirming" \in LockedPlace
  BY <1>1 DEF Place, LockedPlace
<1>3. /\ LocalTypes' /\ pc'[p] = "confirming" /\ lock' = lock
      /\ \A q \in Process \ {p} : SameLocal(q)
  BY <1>1, <1>2, Parts, ProceedEffect
<1>4. pending # none /\ pending.generation \in generations
  BY <1>1, Parts DEF Relied, StoreTypes
<1>5. StoreTypes' /\ StoreInv'
  BY <1>1, <1>4, Parts, PointerSwitched
<1>6. row' = row /\ pending' = pending /\ generations' = generations /\ pointer' = pending.generation
  BY <1>1 DEF SetPointer
<1>7. Relied(p)'
  BY <1>3, <1>4, <1>6 DEF Relied, Claimed
<1>8. ProcessInv(p)'
  BY <1>2, <1>3, <1>7, Parts, CriticalKeeps
<1>9. QED
  BY <1>1, <1>2, <1>3, <1>5, <1>6, <1>8, Parts, CriticalStep

LEMMA PublishedThere ==
    ASSUME StoreTypes, row.published # none PROVE row.published \in generations
BY DEF StoreTypes

LEMMA RestoreStep ==
    ASSUME IInv, NEW p \in Process, Restore(p), UNCHANGED jobVars PROVE IInv'
<1>1. /\ pc[p] = "restoring" /\ SetPointer(row.published) /\ Proceed(p, "aborting")
      /\ disturbances' = disturbances
  BY DEF Restore
<1>2. "aborting" \in Place /\ pc[p] \in LockedPlace /\ "aborting" \in LockedPlace
  BY <1>1 DEF Place, LockedPlace
<1>3. /\ LocalTypes' /\ pc'[p] = "aborting" /\ lock' = lock
      /\ \A q \in Process \ {p} : SameLocal(q)
  BY <1>1, <1>2, Parts, ProceedEffect
<1>4. pending # none /\ row.published # none
  BY <1>1, Parts DEF Relied
<1>5. StoreTypes' /\ StoreInv'
  BY <1>1, <1>4, Parts, PublishedThere, PointerSwitched
<1>6. row' = row /\ pending' = pending /\ generations' = generations /\ pointer' = row.published
  BY <1>1 DEF SetPointer
<1>7. Relied(p)'
  BY <1>3, <1>4, <1>6 DEF Relied, Claimed
<1>8. ProcessInv(p)'
  BY <1>2, <1>3, <1>7, Parts, CriticalKeeps
<1>9. QED
  BY <1>1, <1>2, <1>3, <1>5, <1>6, <1>8, Parts, CriticalStep

LEMMA RepairStep ==
    ASSUME IInv, NEW p \in Process, Repair(p), UNCHANGED jobVars PROVE IInv'
<1>1. /\ pc[p] = "repairing" /\ SetPointer(row.published) /\ Recovered(p)
      /\ disturbances' = disturbances
  BY DEF Repair
<1>2. pc[p] \in LockedPlace
  BY <1>1 DEF LockedPlace
<1>3. pending = none /\ row.published # none
  BY <1>1, Parts DEF Relied
<1>4. StoreTypes' /\ StoreInv'
  BY <1>1, <1>3, Parts, PublishedThere, PointerSwitched
<1>5. row' = row /\ pending' = pending /\ generations' = generations
  BY <1>1 DEF SetPointer
<1>6. LocalTypes' /\ ProcessInv(p)' /\ \A q \in Process \ {p} : SameLocal(q)
  BY <1>1, <1>2, <1>3, <1>5, Parts, RecoveredEffect
<1>7. QED
  BY <1>1, <1>2, <1>4, <1>5, <1>6, Parts, CriticalStep

LEMMA AbortPendingStep ==
    ASSUME IInv, NEW p \in Process, AbortPending(p), UNCHANGED jobVars PROVE IInv'
<1>1. /\ pc[p] = "aborting" /\ Recovered(p) /\ disturbances' = disturbances
      /\ row' = IF row.run = pending.run THEN [row EXCEPT !.state = "FAILED"] ELSE row
      /\ pending' = none /\ pointer' = pointer /\ generations' = generations /\ damaged' = damaged
  BY DEF AbortPending
<1>2. pc[p] \in LockedPlace
  BY <1>1 DEF LockedPlace
<1>3. row.published # none /\ pointer \in {none, row.published}
  BY <1>1, Parts DEF Relied
<1>4. row' \in {row, [row EXCEPT !.state = "FAILED"]} /\ row'.published = row.published
  BY <1>1, Parts DEF StoreTypes
<1>5. StoreTypes'
  BY <1>1, <1>4, Parts DEF StoreTypes, State
<1>6. StoreInv'
  <2>1. row.state = row'.state \/ row'.state = "FAILED"
    BY <1>4, Parts DEF StoreTypes
  <2>2. QED
    BY <1>1, <1>3, <1>4, <2>1, Parts
       DEF StoreInv, Recoverable, PointerAccounted, PendingFinishable, LedgerTrue
<1>7. LocalTypes' /\ ProcessInv(p)' /\ \A q \in Process \ {p} : SameLocal(q)
  BY <1>1, <1>2, Parts, RecoveredEffect
<1>8. row'.published # none
  BY <1>3, <1>4
<1>9. QED
  BY <1>1, <1>2, <1>5, <1>6, <1>7, <1>8, Parts, CriticalStep

\* What is confirmed is what CURRENT names, unless it is lost.
LEMMA Confirmed ==
    ASSUME StoreTypes, StoreInv, NEW a, FinishDataset(a), pointer \in {none, pending.generation}
    PROVE  /\ StoreTypes' /\ StoreInv' /\ pending' = none /\ row'.published # none
           /\ pending # none /\ row'.published = pending.generation /\ generations' = generations
<1>1. /\ pending # none
      /\ pending.run = a
      /\ row' = [state |-> StateOf(pending.generation), run |-> a,
                 published |-> pending.generation]
      /\ pending' = none /\ pointer' = pointer /\ generations' = generations /\ damaged' = damaged
  BY DEF FinishDataset
<1>2. pending.run \in Run /\ pending.generation \in generations /\ pending.generation \in Content
  BY <1>1 DEF StoreTypes, Generation
<1>3. row'.published = pending.generation /\ row'.state = StateOf(pending.generation)
  BY <1>1
<1>4. StateOf(pending.generation) \in {"EMPTY_UNKNOWN", "COMPLETE"}
      /\ (StateOf(pending.generation) = "EMPTY_UNKNOWN" => pending.generation = empty)
  BY DEF StateOf
<1>5. StoreTypes'
  BY <1>1, <1>2, <1>4 DEF StoreTypes, State
<1>6. StoreInv'
  BY <1>1, <1>3, <1>4
     DEF StoreInv, Recoverable, PointerAccounted, PendingFinishable, LedgerTrue
<1>7. QED
  BY <1>1, <1>2, <1>3, <1>5, <1>6, Distinct

LEMMA RecoverConfirmsStep ==
    ASSUME IInv, NEW p \in Process, RecoverConfirms(p), UNCHANGED jobVars PROVE IInv'
<1>1. /\ pc[p] = "confirming" /\ FinishDataset(pending.run) /\ Recovered(p)
      /\ disturbances' = disturbances
  BY DEF RecoverConfirms
<1>2. pc[p] \in LockedPlace /\ pointer \in {none, pending.generation}
  BY <1>1, Parts DEF LockedPlace, Relied
<1>3. /\ StoreTypes' /\ StoreInv' /\ pending' = none /\ row'.published # none
      /\ generations' = generations
  BY <1>1, <1>2, Parts, Confirmed
<1>4. LocalTypes' /\ ProcessInv(p)' /\ \A q \in Process \ {p} : SameLocal(q)
  BY <1>1, <1>2, <1>3, Parts, RecoveredEffect
<1>5. QED
  BY <1>1, <1>2, <1>3, <1>4, Parts, CriticalStep

LEMMA RecoverStep ==
    ASSUME IInv, NEW p \in Process, Recover(p), UNCHANGED jobVars PROVE IInv'
BY RecoverNothingStep, RecoverFoundStep, RecoverStopsStep, RepublishStep, RestoreStep, RepairStep,
   AbortPendingStep, RecoverConfirmsStep DEF Recover

-----------------------------------------------------------------------------
(* Capture *)

LEMMA ClaimDatasetStep ==
    ASSUME IInv, NEW p \in Process, ClaimDataset(p), UNCHANGED jobVars PROVE IInv'
<1>1. PICK r \in Run : row' = ClaimedRow(r) /\ run' = [run EXCEPT ![p] = r]
  BY DEF ClaimDataset
<1>2. /\ pc[p] = "claiming" /\ pc' = [pc EXCEPT ![p] = "fetching"]
      /\ UNCHANGED <<pending, pointer, generations, damaged, lock, op, recorded, content, view,
                     tries, answer, disturbances>>
  BY DEF ClaimDataset, Goto
<1>3. pc[p] \in LockedPlace /\ pending = none /\ "fetching" \in Place /\ "fetching" \in LockedPlace
  BY <1>2, Parts DEF LockedPlace, Relied, Place, Claimed
<1>4. LocalTypes' /\ pc'[p] = "fetching" /\ run'[p] = r /\ \A q \in Process \ {p} : SameLocal(q)
  BY <1>1, <1>2, <1>3, Parts DEF LocalTypes, SameLocal
<1>5. row'.published = row.published /\ row'.state = "RUNNING" /\ StoreTypes'
  BY <1>1, <1>2, Parts DEF ClaimedRow, StoreTypes, State
<1>6. StoreInv'
  BY <1>2, <1>3, <1>5, Parts
     DEF StoreInv, Recoverable, PointerAccounted, PendingFinishable, LedgerTrue
<1>7. Relied(p)'
  BY <1>2, <1>3, <1>4 DEF Relied, Claimed
<1>8. ProcessInv(p)'
  BY <1>2, <1>3, <1>4, <1>7, Parts, CriticalKeeps
<1>9. QED
  BY <1>2, <1>3, <1>4, <1>5, <1>6, <1>8, Parts, CriticalStep

LEMMA RecordPageStep ==
    ASSUME IInv, NEW p \in Process, RecordPage(p), UNCHANGED jobVars PROVE IInv'
<1>1. /\ pc[p] = "fetching" /\ recorded' = [recorded EXCEPT ![p] = TRUE]
      /\ UNCHANGED <<lock, pc, op, run, content, view, tries, answer>>
      /\ UNCHANGED <<store, disturbances>>
  BY DEF RecordPage
<1>2. LocalTypes' /\ \A q \in Process : SameLocal(q) /\ (lock = q => lock' = q)
  BY <1>1, Parts DEF LocalTypes, SameLocal
<1>3. Relied(p)' /\ pc[p] \in LockedPlace /\ pc'[p] \in LockedPlace
  BY <1>1, Parts DEF Relied, store, LockedPlace, Claimed
<1>4. ProcessInv(p)'
  BY <1>1, <1>3, Parts, CriticalKeeps
<1>5. QED
  BY <1>1, <1>2, <1>4, QuietStep

LEMMA EndOfPagesStep ==
    ASSUME IInv, NEW p \in Process, NEW c \in Content, EndOfPages(p, c), UNCHANGED jobVars
    PROVE  IInv'
<1>1. /\ pc[p] = "fetching" /\ content' = [content EXCEPT ![p] = c]
      /\ pc' = [pc EXCEPT ![p] = "fetched"]
      /\ UNCHANGED <<lock, op, run, recorded, view, tries, answer>>
      /\ UNCHANGED <<store, disturbances>>
  BY DEF EndOfPages, Goto
<1>2. "fetched" \in Place /\ c \in MaybeGeneration
  BY DEF Place, Claimed, MaybeGeneration, Generation
<1>3. /\ LocalTypes' /\ pc'[p] = "fetched" /\ content'[p] = c
      /\ \A q \in Process \ {p} : SameLocal(q) /\ (lock = q => lock' = q)
  BY <1>1, <1>2, Parts DEF LocalTypes, SameLocal
<1>4. Relied(p)' /\ pc[p] \in LockedPlace /\ pc'[p] \in LockedPlace
  BY <1>1, <1>3, Parts DEF Relied, store, LockedPlace, Claimed
<1>5. ProcessInv(p)'
  BY <1>1, <1>4, Parts, CriticalKeeps
<1>6. QED
  BY <1>1, <1>3, <1>5, QuietStep

LEMMA FinishEmptyHeldStep ==
    ASSUME IInv, NEW p \in Process, FinishEmptyHeld(p), UNCHANGED jobVars PROVE IInv'
<1>1. /\ pc[p] = "fetched" /\ row' = [row EXCEPT !.state = "EMPTY_HELD"] /\ Proceed(p, "cleaning")
      /\ pending' = pending /\ pointer' = pointer /\ generations' = generations
      /\ damaged' = damaged /\ disturbances' = disturbances
  BY DEF FinishEmptyHeld
<1>2. /\ pc[p] \in LockedPlace /\ "cleaning" \in Place /\ "cleaning" \in LockedPlace
      /\ pending = none /\ run[p] \in Run
  BY <1>1, Parts DEF LockedPlace, Place, Claimed, Relied
<1>3. /\ LocalTypes' /\ pc'[p] = "cleaning" /\ lock' = lock /\ run' = run
      /\ \A q \in Process \ {p} : SameLocal(q)
  BY <1>1, <1>2, Parts, ProceedEffect
<1>4. row'.published = row.published /\ row'.state = "EMPTY_HELD" /\ StoreTypes'
  BY <1>1, Parts DEF StoreTypes, State
<1>5. StoreInv'
  BY <1>1, <1>2, <1>4, Parts
     DEF StoreInv, Recoverable, PointerAccounted, PendingFinishable, LedgerTrue
<1>6. Relied(p)'
  BY <1>1, <1>2, <1>3 DEF Relied, Claimed
<1>7. ProcessInv(p)'
  BY <1>2, <1>3, <1>6, Parts, CriticalKeeps
<1>8. QED
  BY <1>1, <1>2, <1>3, <1>4, <1>5, <1>7, Parts, CriticalStep

LEMMA PublishGenerationStep ==
    ASSUME IInv, NEW p \in Process, PublishGeneration(p), UNCHANGED jobVars PROVE IInv'
<1>1. /\ pc[p] = "fetched" /\ ~HeldBack(p) /\ generations' = generations \cup {content[p]}
      /\ Proceed(p, "preparing") /\ row' = row /\ pending' = pending /\ pointer' = pointer
      /\ damaged' = damaged /\ disturbances' = disturbances
  BY DEF PublishGeneration
<1>2. /\ pc[p] \in LockedPlace /\ "preparing" \in Place /\ "preparing" \in LockedPlace
      /\ pending = none /\ run[p] \in Run /\ content[p] \in Content
  BY <1>1, Parts DEF LockedPlace, Place, Claimed, Relied
<1>3. /\ LocalTypes' /\ pc'[p] = "preparing" /\ lock' = lock /\ run' = run /\ content' = content
      /\ \A q \in Process \ {p} : SameLocal(q)
  BY <1>1, <1>2, Parts, ProceedEffect
<1>4. StoreTypes'
  BY <1>1, <1>2, Parts DEF StoreTypes, Generation
<1>5. StoreInv'
  BY <1>1, Parts DEF StoreInv, Recoverable, PointerAccounted, PendingFinishable, LedgerTrue
<1>6. Relied(p)'
  BY <1>1, <1>2, <1>3 DEF Relied, Claimed, HeldBack
<1>7. ProcessInv(p)'
  BY <1>2, <1>3, <1>6, Parts, CriticalKeeps
<1>8. QED
  BY <1>1, <1>2, <1>3, <1>4, <1>5, <1>7, Parts, CriticalStep

LEMMA PreparePublicationStep ==
    ASSUME IInv, NEW p \in Process, PreparePublication(p), UNCHANGED jobVars PROVE IInv'
<1>1. /\ pc[p] = "preparing" /\ Owns(p) /\ Proceed(p, "switching")
      /\ pending' = [run |-> run[p], generation |-> content[p]]
      /\ row' = row /\ pointer' = pointer /\ generations' = generations
      /\ damaged' = damaged /\ disturbances' = disturbances
  BY DEF PreparePublication
<1>2. /\ pc[p] \in LockedPlace /\ "switching" \in Place /\ "switching" \in LockedPlace
      /\ pending = none /\ run[p] \in Run /\ content[p] \in Content /\ content[p] \in generations
      /\ content[p] = empty => row.published \in {none, empty}
  BY <1>1, Parts DEF LockedPlace, Place, Claimed, Relied
<1>3. /\ LocalTypes' /\ pc'[p] = "switching" /\ lock' = lock /\ run' = run /\ content' = content
      /\ \A q \in Process \ {p} : SameLocal(q)
  BY <1>1, <1>2, Parts, ProceedEffect
<1>4. StoreTypes'
  BY <1>1, <1>2, Parts DEF StoreTypes
<1>5. pending'.run = run[p] /\ pending'.generation = content[p]
  BY <1>1
<1>6. StoreInv'
  BY <1>1, <1>2, <1>5, Parts
     DEF StoreInv, Recoverable, PointerAccounted, PendingFinishable, LedgerTrue, Owns
<1>7. Relied(p)'
  BY <1>1, <1>2, <1>3 DEF Relied, Claimed
<1>8. ProcessInv(p)'
  BY <1>2, <1>3, <1>7, Parts, CriticalKeeps
<1>9. QED
  BY <1>1, <1>2, <1>3, <1>4, <1>6, <1>8, Parts, CriticalStep

LEMMA PublishPointerStep ==
    ASSUME IInv, NEW p \in Process, PublishPointer(p), UNCHANGED jobVars PROVE IInv'
<1>1. /\ pc[p] = "switching" /\ SetPointer(content[p]) /\ Proceed(p, "finishing")
      /\ disturbances' = disturbances
  BY DEF PublishPointer
<1>2. /\ pc[p] \in LockedPlace /\ "finishing" \in Place /\ "finishing" \in LockedPlace
      /\ pending = [run |-> run[p], generation |-> content[p]]
      /\ run[p] \in Run /\ content[p] \in Content /\ content[p] \in generations
  BY <1>1, Parts DEF LockedPlace, Place, Claimed, Relied
<1>3. /\ LocalTypes' /\ pc'[p] = "finishing" /\ lock' = lock /\ run' = run /\ content' = content
      /\ \A q \in Process \ {p} : SameLocal(q)
  BY <1>1, <1>2, Parts, ProceedEffect
<1>4. pending # none /\ pending.generation = content[p]
  BY <1>2, Distinct
<1>5. StoreTypes' /\ StoreInv'
  BY <1>1, <1>2, <1>4, Parts, PointerSwitched
<1>6. row' = row /\ pending' = pending /\ generations' = generations /\ pointer' = content[p]
  BY <1>1 DEF SetPointer
<1>7. Relied(p)'
  BY <1>2, <1>3, <1>4, <1>6 DEF Relied, Claimed
<1>8. ProcessInv(p)'
  BY <1>2, <1>3, <1>7, Parts, CriticalKeeps
<1>9. QED
  BY <1>1, <1>2, <1>3, <1>5, <1>6, <1>8, Parts, CriticalStep

LEMMA ConfirmPublicationStep ==
    ASSUME IInv, NEW p \in Process, ConfirmPublication(p), UNCHANGED jobVars PROVE IInv'
<1>1. /\ pc[p] = "finishing" /\ FinishDataset(run[p]) /\ Proceed(p, "cleaning")
      /\ disturbances' = disturbances
  BY DEF ConfirmPublication
<1>2. /\ pc[p] \in LockedPlace /\ "cleaning" \in Place /\ "cleaning" \in LockedPlace
      /\ pointer \in {none, pending.generation} /\ run[p] \in Run
  BY <1>1, Parts DEF LockedPlace, Place, Claimed, Relied
<1>3. /\ LocalTypes' /\ pc'[p] = "cleaning" /\ lock' = lock /\ run' = run
      /\ \A q \in Process \ {p} : SameLocal(q)
  BY <1>1, <1>2, Parts, ProceedEffect
<1>4. /\ StoreTypes' /\ StoreInv' /\ pending' = none /\ row'.published # none
      /\ generations' = generations
  BY <1>1, <1>2, Parts, Confirmed
<1>5. Relied(p)'
  BY <1>2, <1>3, <1>4 DEF Relied, Claimed
<1>6. ProcessInv(p)'
  BY <1>2, <1>3, <1>5, Parts, CriticalKeeps
<1>7. QED
  BY <1>1, <1>2, <1>3, <1>4, <1>6, Parts, CriticalStep

LEMMA CleanupStagingStep ==
    ASSUME IInv, NEW p \in Process, CleanupStaging(p), UNCHANGED jobVars PROVE IInv'
<1>1. pc[p] = "cleaning" /\ Return(p, "ok") /\ UNCHANGED <<store, disturbances>>
  BY DEF CleanupStaging
<1>2. "ok" \in Answers /\ pc[p] \in Place \ {"idle"} /\ pc[p] \in LockedPlace /\ pending = none
  BY <1>1, Parts DEF Answers, Place, Claimed, LockedPlace, Relied
<1>3. /\ LocalTypes' /\ pc'[p] = "idle" /\ tries'[p] = 0
      /\ \A q \in Process \ {p} : SameLocal(q) /\ (lock = q => lock' = q)
  BY <1>1, <1>2, Parts, ReturnEffect
<1>4. stage[p] \in {"recovering", "capturing"} /\ pending' = none
  BY <1>1, <1>2, Parts DEF Excluded, store
<1>5. ProcessInv(p)'
  BY <1>2, <1>3, <1>4, Parts, ReturnKeeps
<1>6. QED
  BY <1>1, <1>3, <1>5, QuietStep

\* A failed attempt leaves a prepared publication to the recovery.
LEMMA RowFailed ==
    ASSUME IInv, NEW p \in Process, row' = FailedRow(p),
           UNCHANGED <<pending, pointer, generations, damaged>>
    PROVE  StoreTypes' /\ StoreInv' /\ row'.published = row.published
<1>1. CASE row' = row
  BY <1>1, Parts
     DEF StoreTypes, StoreInv, Recoverable, PointerAccounted, PendingFinishable, LedgerTrue
<1>2. CASE row' # row
  <2>1. /\ row.state = "RUNNING" /\ row.run = run[p]
        /\ pending = none \/ pending.run # run[p]
    BY <1>2 DEF FailedRow, Owns
  <2>2. PICK s \in {"PARTIAL", "FAILED"} : row' = [row EXCEPT !.state = s]
    BY <1>2 DEF FailedRow
  <2>3. pending = none
    BY <2>1, Parts DEF StoreInv, Recoverable, PendingFinishable
  <2>4. StoreTypes' /\ row'.published = row.published /\ row'.state = s
    BY <2>2, Parts DEF StoreTypes, State
  <2>5. StoreInv'
    BY <2>3, <2>4, Parts
       DEF StoreInv, Recoverable, PointerAccounted, PendingFinishable, LedgerTrue
  <2>6. QED
    BY <2>4, <2>5
<1>3. QED
  BY <1>1, <1>2

LEMMA CaptureStopsStep ==
    ASSUME IInv, NEW p \in Process, CaptureStops(p), UNCHANGED jobVars PROVE IInv'
<1>1. /\ pc[p] = "fetched" /\ Return(p, "error") /\ row' = FailedRow(p)
      /\ UNCHANGED <<pending, pointer, generations, damaged>> /\ disturbances' = disturbances
  BY DEF CaptureStops
<1>2. "error" \in Answers /\ pc[p] \in Place \ {"idle"} /\ pc[p] \in LockedPlace
  BY <1>1 DEF Answers, Place, Claimed, LockedPlace
<1>3. /\ LocalTypes' /\ pc'[p] = "idle" /\ tries'[p] = 0 /\ answer'[p] = "error"
      /\ \A q \in Process \ {p} : SameLocal(q)
  BY <1>1, <1>2, Parts, ReturnEffect
<1>4. StoreTypes' /\ StoreInv' /\ row'.published = row.published
  BY <1>1, RowFailed
<1>5. stage[p] \in {"recovering", "capturing"}
  BY <1>2, Parts DEF Excluded
<1>6. ProcessInv(p)'
  BY <1>2, <1>3, <1>5, Parts, ReturnKeeps
<1>7. QED
  BY <1>1, <1>2, <1>3, <1>4, <1>6, Parts, CriticalStep

LEMMA CaptureStep ==
    ASSUME IInv, NEW p \in Process, Capture(p), UNCHANGED jobVars PROVE IInv'
<1>1. ASSUME NEW c \in Content, EndOfPages(p, c) PROVE IInv'
  BY <1>1, EndOfPagesStep
<1>2. QED
  BY <1>1, ClaimDatasetStep, RecordPageStep, FinishEmptyHeldStep, PublishGenerationStep,
     CaptureStopsStep, PreparePublicationStep, PublishPointerStep, ConfirmPublicationStep,
     CleanupStagingStep DEF Capture

-----------------------------------------------------------------------------
(* Reading and opening *)

LEMMA LookStep ==
    ASSUME IInv, NEW p \in Process, Look(p), UNCHANGED jobVars PROVE IInv'
<1>1. pc[p] = "looking" /\ UNCHANGED <<store, disturbances>>
  BY DEF Look
<1>2. pc[p] \in Place \ {"idle"} /\ tries[p] < MAX_TRIES /\ stage[p] \in {"resolving", "resolving again"}
      /\ pending = none /\ pending' = pending /\ row' = row
  BY <1>1, Parts DEF Place, Relied, Excluded, Current, store
<1>3. CASE row = Nobody
  <2>1. Return(p, none) /\ none \in Answers
    BY <1>1, <1>3 DEF Look, Answers, MaybeGeneration
  <2>2. /\ LocalTypes' /\ pc'[p] = "idle" /\ tries'[p] = 0 /\ answer'[p] = none
        /\ \A q \in Process \ {p} : SameLocal(q) /\ (lock = q => lock' = q)
    BY <2>1, Parts, ReturnEffect
  <2>3. ProcessInv(p)'
    BY <1>2, <2>2, Parts, Distinct, ReturnKeeps DEF Generation
  <2>4. QED
    BY <1>1, <2>2, <2>3, QuietStep
<1>4. CASE row # Nobody
  <2> DEFINE seen == [published |-> row.published,
                      prepared  |-> IF pending = none THEN none ELSE pending.generation]
  <2>1. /\ view' = [view EXCEPT ![p] = seen]
        /\ tries' = [tries EXCEPT ![p] = tries[p] + 1]
        /\ pc' = [pc EXCEPT ![p] = "comparing"]
        /\ UNCHANGED <<lock, op, run, recorded, content, answer>>
    BY <1>1, <1>4 DEF Look, Goto
  <2>2. seen \in [published : MaybeGeneration, prepared : MaybeGeneration] /\ "comparing" \in Place
        /\ seen.published = row.published
    BY Parts DEF StoreTypes, MaybeGeneration, Place
  <2> HIDE DEF seen
  <2>3. tries[p] + 1 \in 0..MAX_TRIES
    <3>1. tries[p] \in 0..MAX_TRIES
      BY Parts DEF LocalTypes
    <3>2. MAX_TRIES \in Nat
      BY Bounds
    <3>3. \A m \in Nat : \A n \in 0..m : n < m => n + 1 \in 0..m
      OBVIOUS
    <3>4. QED
      BY <1>2, <3>1, <3>2, <3>3
  <2>4. view' \in [Process -> [published : MaybeGeneration, prepared : MaybeGeneration]]
    BY <2>1, <2>2, Parts DEF LocalTypes
  <2>5. tries' \in [Process -> 0..MAX_TRIES]
    BY <2>1, <2>3, Parts DEF LocalTypes
  <2>6. pc' \in [Process -> Place]
    BY <2>1, <2>2, Parts DEF LocalTypes
  <2>7. LocalTypes'
    BY <2>1, <2>4, <2>5, <2>6, Parts DEF LocalTypes
  <2>8. pc'[p] = "comparing" /\ view'[p].published = row.published
        /\ \A q \in Process \ {p} : SameLocal(q) /\ (lock = q => lock' = q)
    BY <2>1, <2>2, Parts DEF LocalTypes, SameLocal
  <2>9. SameJob(p) /\ jobLock' = jobLock
    BY JobUnchanged
  <2>10. ProcessInv(p)'
    <3>1. Excluded(p)'
      BY <1>2, <2>8, <2>9, Parts DEF Excluded, SameJob, LockedPlace, Claimed
    <3>2. Relied(p)' /\ Adopting(p)'
      BY <2>8 DEF Relied, Adopting, Claimed
    <3>3. Current(p)'
      BY <1>2, <2>8, <2>9 DEF Current, SameJob
    <3>4. QED
      BY <3>1, <3>2, <3>3 DEF ProcessInv
  <2>11. QED
    BY <1>1, <2>7, <2>8, <2>10, QuietStep
<1>5. QED
  BY <1>3, <1>4

LEMMA CompareStep ==
    ASSUME IInv, NEW p \in Process, Compare(p), UNCHANGED jobVars PROVE IInv'
<1>1. /\ pc[p] = "comparing" /\ UNCHANGED <<store, disturbances>>
      /\ \/ Return(p, Told(p))
         \/ Return(p, "error")
         \/ Proceed(p, "looking") /\ tries[p] < MAX_TRIES
  BY DEF Compare
<1>2. pc[p] \in Place \ {"idle"} /\ stage[p] \in {"resolving", "resolving again"}
      /\ pending' = pending /\ row' = row
  BY <1>1, Parts DEF Place, Excluded, store
<1>3. ASSUME NEW v \in {Told(p), "error"}, Return(p, v) PROVE IInv'
  <2>1. v \in {none, "error", view[p].published} /\ (v # "error" => v \in MaybeGeneration)
        /\ (v \in Generation => v = view[p].published /\ v # none)
    BY <1>3, Parts, Distinct DEF Told, LocalTypes, MaybeGeneration, Generation
  <2>2. v \in Answers /\ v # "ok"
    BY <2>1, Distinct DEF Answers, MaybeGeneration, Generation
  <2>3. /\ LocalTypes' /\ pc'[p] = "idle" /\ tries'[p] = 0 /\ answer'[p] = v
        /\ \A q \in Process \ {p} : SameLocal(q) /\ (lock = q => lock' = q)
    BY <1>3, <2>2, Parts, ReturnEffect
  <2>4. v \in Generation => v = row.published
    BY <1>1, <2>1, Parts DEF Current
  <2>5. ProcessInv(p)'
    BY <1>2, <2>2, <2>3, <2>4, Parts, ReturnKeeps
  <2>6. QED
    BY <1>1, <2>3, <2>5, QuietStep
<1>4. ASSUME Proceed(p, "looking"), tries[p] < MAX_TRIES PROVE IInv'
  <2>1. "looking" \in Place
    BY DEF Place
  <2>2. /\ LocalTypes' /\ pc'[p] = "looking" /\ lock' = lock /\ tries' = tries /\ answer' = answer
        /\ \A q \in Process \ {p} : SameLocal(q) /\ (lock = q => lock' = q)
    BY <1>4, <2>1, Parts, ProceedEffect
  <2>3. SameJob(p) /\ jobLock' = jobLock
    BY JobUnchanged
  <2>4. ProcessInv(p)'
    <3>1. Excluded(p)'
      BY <1>2, <2>2, <2>3, Parts DEF Excluded, SameJob, LockedPlace, Claimed
    <3>2. Relied(p)' /\ Adopting(p)'
      BY <1>4, <2>2 DEF Relied, Adopting, Claimed
    <3>3. Current(p)'
      BY <1>2, <2>2, <2>3, Parts DEF Current, SameJob
    <3>4. QED
      BY <3>1, <3>2, <3>3 DEF ProcessInv
  <2>5. QED
    BY <1>1, <2>2, <2>4, QuietStep
<1>5. QED
  BY <1>1, <1>3, <1>4

LEMMA ResolveStep ==
    ASSUME IInv, NEW p \in Process, Resolve(p), UNCHANGED jobVars PROVE IInv'
BY LookStep, CompareStep DEF Resolve

\* The constructor goes on, or has nothing to do.
LEMMA OpeningReturns ==
    ASSUME IInv, NEW p \in Process, pc[p] \in {"opening", "importing"}, Return(p, "ok"),
           UNCHANGED jobVars, UNCHANGED <<store, disturbances>>
    PROVE  IInv'
<1>1. "ok" \in Answers /\ pc[p] \in Place \ {"idle"} /\ stage[p] = "opening"
  BY Parts DEF Answers, Place, Excluded
<1>2. /\ LocalTypes' /\ pc'[p] = "idle" /\ tries'[p] = 0
      /\ \A q \in Process \ {p} : SameLocal(q) /\ (lock = q => lock' = q)
  BY <1>1, Parts, ReturnEffect
<1>3. ProcessInv(p)'
  BY <1>1, <1>2, Parts, ReturnKeeps
<1>4. QED
  BY <1>2, <1>3, QuietStep

LEMMA OpeningKeeps ==
    ASSUME NEW p \in Process, Excluded(p), pc[p] \in {"opening", "importing"}, UNCHANGED jobVars,
           pc'[p] \in {"importing", "adopting"}, Adopting(p)'
    PROVE  ProcessInv(p)'
<1>1. SameJob(p) /\ jobLock' = jobLock
  BY JobUnchanged
<1>2. stage[p] = "opening" /\ stage'[p] = "opening"
  BY <1>1 DEF Excluded, SameJob
<1>3. Excluded(p)' /\ Relied(p)' /\ Current(p)'
  BY <1>2 DEF Excluded, Relied, Current, LockedPlace, Claimed
<1>4. QED
  BY <1>3 DEF ProcessInv

LEMMA OpenLookStep ==
    ASSUME IInv, NEW p \in Process, OpenLook(p), UNCHANGED jobVars PROVE IInv'
<1>1. /\ pc[p] = "opening" /\ UNCHANGED <<store, disturbances>>
      /\ Return(p, "ok") \/ Proceed(p, "importing")
  BY DEF OpenLook
<1>2. ASSUME Proceed(p, "importing") PROVE IInv'
  <2>1. "importing" \in Place
    BY DEF Place
  <2>2. /\ LocalTypes' /\ pc'[p] = "importing"
        /\ \A q \in Process \ {p} : SameLocal(q) /\ (lock = q => lock' = q)
    BY <1>2, <2>1, Parts, ProceedEffect
  <2>3. Adopting(p)'
    BY <2>2 DEF Adopting
  <2>4. ProcessInv(p)'
    BY <1>1, <2>2, <2>3, Parts, OpeningKeeps
  <2>5. QED
    BY <1>1, <2>2, <2>4, QuietStep
<1>3. QED
  BY <1>1, <1>2, OpeningReturns

LEMMA OpenReadStep ==
    ASSUME IInv, NEW p \in Process, OpenRead(p), UNCHANGED jobVars PROVE IInv'
<1>1. pc[p] = "importing" /\ UNCHANGED <<store, disturbances>>
  BY DEF OpenRead
<1>2. CASE pointer # none /\ Valid(pointer)
  <2>1. /\ view' = [view EXCEPT ![p].published = pointer]
        /\ pc' = [pc EXCEPT ![p] = "adopting"]
        /\ UNCHANGED <<lock, op, run, recorded, content, tries, answer>>
    BY <1>1, <1>2 DEF OpenRead, Goto
  <2>2. "adopting" \in Place /\ pointer \in MaybeGeneration /\ pointer \in generations
    BY <1>2, Parts DEF Place, StoreTypes, MaybeGeneration
  <2>3. view' \in [Process -> [published : MaybeGeneration, prepared : MaybeGeneration]]
    BY <2>1, <2>2, Parts DEF LocalTypes
  <2>4. view'[p].published = pointer
    BY <2>1, Parts DEF LocalTypes
  <2>5. pc' \in [Process -> Place] /\ pc'[p] = "adopting"
    BY <2>1, <2>2, Parts DEF LocalTypes
  <2>6. LocalTypes'
    BY <2>1, <2>3, <2>5, Parts DEF LocalTypes
  <2>7. \A q \in Process \ {p} : SameLocal(q) /\ (lock = q => lock' = q)
    BY <2>1, Parts DEF LocalTypes, SameLocal
  <2>8. Adopting(p)'
    <3>1. row' = row /\ pending' = pending /\ generations' = generations
      BY <1>1 DEF store
    <3>2. row.published = none => pending # none /\ pointer = pending.generation
      BY <1>2, Parts DEF StoreInv, Recoverable, PointerAccounted
    <3>3. QED
      BY <2>2, <2>4, <3>1, <3>2 DEF Adopting
  <2>9. ProcessInv(p)'
    BY <1>1, <2>5, <2>8, Parts, OpeningKeeps
  <2>10. QED
    BY <1>1, <2>6, <2>7, <2>9, QuietStep
<1>3. CASE ~(pointer # none /\ Valid(pointer))
  <2>1. Return(p, "ok")
    BY <1>1, <1>3 DEF OpenRead
  <2>2. QED
    BY <1>1, <2>1, OpeningReturns
<1>4. QED
  BY <1>2, <1>3

\* What is adopted is the prepared generation itself; nobody relies on there being none.
LEMMA OpenAdoptsStep ==
    ASSUME IInv, NEW p \in Process, OpenAdopts(p), UNCHANGED jobVars PROVE IInv'
<1>1. /\ pc[p] = "adopting" /\ row' = AdoptedRow(p) /\ Return(p, "ok")
      /\ UNCHANGED <<pending, pointer, generations, damaged, disturbances>>
  BY DEF OpenAdopts
<1>2. "ok" \in Answers /\ pc[p] \in Place \ {"idle"} /\ stage[p] = "opening"
  BY <1>1, Parts DEF Answers, Place, Excluded
<1>3. /\ LocalTypes' /\ pc'[p] = "idle" /\ tries'[p] = 0
      /\ \A q \in Process \ {p} : SameLocal(q) /\ (lock = q => lock' = q)
  BY <1>1, <1>2, Parts, ReturnEffect
<1>4. ProcessInv(p)'
  BY <1>2, <1>3, Parts, ReturnKeeps
<1>5. CASE row.published # none
  <2>1. UNCHANGED <<store, disturbances>>
    BY <1>1, <1>5 DEF AdoptedRow, store
  <2>2. QED
    BY <1>3, <1>4, <2>1, QuietStep
<1>6. CASE row.published = none
  <2>1. /\ row' = [row EXCEPT !.published = view[p].published]
        /\ view[p].published \in generations /\ view[p].published # none
        /\ pending # none /\ view[p].published = pending.generation
    BY <1>1, <1>6, Parts, Distinct DEF AdoptedRow, Adopting, StoreTypes, Generation
  <2>2. StoreTypes' /\ row'.published = view[p].published /\ row'.state = row.state
        /\ row'.run = row.run
    BY <1>1, <2>1, Parts DEF StoreTypes
  <2>3. StoreInv'
    <3>1. row.state = "RUNNING"
      BY <2>1, Parts DEF StoreInv, Recoverable, PendingFinishable
    <3>2. pointer # none => pointer = pending.generation
      BY <1>6, Parts DEF StoreInv, Recoverable, PointerAccounted
    <3>3. QED
      BY <1>1, <2>1, <2>2, <3>1, <3>2, Parts
         DEF StoreInv, Recoverable, PointerAccounted, PendingFinishable, LedgerTrue
  <2>4. JobTypes' /\ canonical' = canonical /\ jobLock' = jobLock /\ \A q \in Process : SameJob(q)
    BY JobUnchanged DEF IInv, Types
  <2>5. ASSUME NEW q \in Process \ {p} PROVE ProcessInv(q)'
    <3>1. Excluded(q) /\ Relied(q) /\ Adopting(q) /\ Current(q)
      BY DEF IInv, ProcessInv
    <3>2. SameLocal(q) /\ SameJob(q) /\ (lock = q => lock' = q)
      BY <1>3, <2>4
    <3>3. Excluded(q)'
      BY <2>4, <3>1, <3>2 DEF Excluded, SameLocal, SameJob
    <3>4. Relied(q)'
      BY <1>1, <1>6, <2>1, <3>1, <3>2 DEF Relied, SameLocal
    <3>5. Adopting(q)'
      BY <1>1, <2>1, <2>2, <3>1, <3>2 DEF Adopting, SameLocal
    <3>6. Current(q)'
      <4>1. stage[q] \notin {"resolving", "resolving again", "converting", "publishing"}
        BY <2>1, <3>1 DEF Current
      <4>2. pc[q] # "comparing"
        BY <3>1, <4>1 DEF Excluded
      <4>3. QED
        BY <1>1, <2>1, <3>1, <3>2, <4>1, <4>2 DEF Current, SameLocal, SameJob
    <3>7. QED
      BY <3>3, <3>4, <3>5, <3>6 DEF ProcessInv
  <2>6. disturbances' \in 0..MaxDisturbances
    BY <1>1, Parts
  <2>7. QED
    BY <1>3, <1>4, <2>2, <2>3, <2>4, <2>5, <2>6 DEF IInv, Types
<1>7. QED
  BY <1>5, <1>6

LEMMA OpenStep ==
    ASSUME IInv, NEW p \in Process, Open(p), UNCHANGED jobVars PROVE IInv'
BY OpenLookStep, OpenReadStep, OpenAdoptsStep DEF Open

LEMMA RawStepKeeps ==
    ASSUME IInv, NEW p \in Process, StoreStep(p) PROVE IInv'
BY RecoverStep, CaptureStep, ResolveStep, OpenStep DEF StoreStep, RawStep

-----------------------------------------------------------------------------
(* Failures *)

LEMMA CallFailsStep ==
    ASSUME IInv, NEW p \in Process, StoreFails(p) PROVE IInv'
<1>1. /\ UNCHANGED jobVars /\ pc[p] # "idle" /\ Return(p, "error")
      /\ disturbances < MaxDisturbances /\ disturbances' = disturbances + 1
      /\ UNCHANGED <<pending, pointer, generations, damaged>>
      /\ (pc[p] \in Claimed /\ row' = FailedRow(p)) \/ row' = row
  BY DEF StoreFails, CallFails, Disturb
<1>2. disturbances' \in 0..MaxDisturbances
  BY <1>1, Parts, Distinct
<1>3. "error" \in Answers /\ "error" \notin Generation /\ pc[p] \in Place \ {"idle"}
  BY <1>1, Parts, Distinct DEF Answers, Generation, LocalTypes
<1>4. /\ LocalTypes' /\ pc'[p] = "idle" /\ tries'[p] = 0 /\ answer'[p] = "error"
      /\ \A q \in Process \ {p} : SameLocal(q) /\ (lock = q => lock' = q)
  BY <1>1, <1>3, Parts, ReturnEffect
<1>5. ProcessInv(p)'
  BY <1>1, <1>3, <1>4, Parts, ReturnKeeps
<1>6. JobTypes' /\ canonical' = canonical /\ jobLock' = jobLock /\ \A q \in Process : SameJob(q)
  BY <1>1, JobUnchanged DEF IInv, Types
<1>7. CASE row' = row
  <2>1. Steady /\ StoreTypes' /\ StoreInv'
    BY <1>1, <1>6, <1>7, Parts
       DEF Steady, StoreTypes, StoreInv, Recoverable, PointerAccounted, PendingFinishable, LedgerTrue
  <2>2. ASSUME NEW q \in Process \ {p} PROVE ProcessInv(q)'
    <3>1. ProcessInv(q)
      BY DEF IInv
    <3>2. QED
      BY <1>4, <1>6, <2>1, <3>1, SteadyKeeps
  <2>3. QED
    BY <1>2, <1>4, <1>5, <1>6, <2>1, <2>2 DEF IInv, Types
<1>8. CASE pc[p] \in Claimed /\ row' = FailedRow(p)
  <2>1. pc[p] \in LockedPlace
    BY <1>8 DEF LockedPlace
  <2>2. StoreTypes' /\ StoreInv' /\ row'.published = row.published
    BY <1>1, <1>8, RowFailed
  <2>3. QED
    BY <1>1, <1>2, <1>4, <1>5, <2>1, <2>2, CriticalStep
<1>9. QED
  BY <1>1, <1>7, <1>8

-----------------------------------------------------------------------------
(* Steps of a run *)

\* What the steps have in common that leave the raw store and its calls alone.
LEMMA RunStepKeeps ==
    ASSUME IInv, NEW p \in Process, LocalTypes', JobTypes', ProcessInv(p)',
           UNCHANGED store, disturbances' \in 0..MaxDisturbances,
           canonical.generations \subseteq canonical'.generations,
           \A q \in Process \ {p} : /\ SameLocal(q) /\ SameJob(q)
                                    /\ lock = q => lock' = q
                                    /\ jobLock = q => jobLock' = q
    PROVE  IInv'
<1>1. Types /\ StoreInv /\ \A q \in Process : ProcessInv(q)
  BY DEF IInv
<1>2. /\ row' = row /\ pending' = pending /\ pointer' = pointer /\ generations' = generations
      /\ damaged' = damaged
  BY DEF store
<1>3. StoreTypes' /\ StoreInv' /\ Steady
  BY <1>1, <1>2
     DEF Types, StoreTypes, StoreInv, Recoverable, PointerAccounted, PendingFinishable, LedgerTrue,
         Steady
<1>4. \A q \in Process \ {p} : ProcessInv(q)'
  BY <1>1, <1>3, SteadyKeeps
<1>5. QED
  BY <1>3, <1>4 DEF IInv, Types

LEMMA JobParts ==
    ASSUME IInv, NEW p \in Process
    PROVE  /\ JobTypes /\ canonical.generations \subseteq Generation
           /\ (pc[p] = "idle" => tries[p] = 0)
           /\ jobLock \in Process \cup {none} /\ stage \in [Process -> Stage]
           /\ source \in [Process -> Generation \cup {none}]
           /\ rawState \in [Process -> State \cup {none}] /\ mode \in [Process -> Mode]
BY DEF IInv, Types, JobTypes, ProcessInv, Relied

\* After the end of a run
LEMMA FinishEffect ==
    ASSUME JobTypes, NEW p \in Process, NEW outcome \in {"COMPLETE", "ATTENTION", "FAILED", none},
           Finish(p, outcome), canonical' = canonical
    PROVE  /\ JobTypes' /\ stage'[p] = "off"
           /\ \A q \in Process \ {p} : SameJob(q) /\ (jobLock = q => jobLock' = q)
<1>1. /\ stage' = [stage EXCEPT ![p] = "off"] /\ mode' = [mode EXCEPT ![p] = "plain"]
      /\ source' = [source EXCEPT ![p] = none] /\ rawState' = [rawState EXCEPT ![p] = none]
      /\ status' = outcome /\ jobLock' = IF jobLock = p THEN none ELSE jobLock
  BY DEF Finish, Enter
<1>2. "off" \in Stage /\ "plain" \in Mode
  BY DEF Stage, Mode
<1>3. QED
  BY <1>1, <1>2 DEF JobTypes, SameJob

\* A process at rest, outside a run
LEMMA Resting ==
    ASSUME NEW p \in Process, stage'[p] = "off", pc'[p] = "idle", tries'[p] = 0
    PROVE  ProcessInv(p)'
BY DEF ProcessInv, Excluded, Relied, Adopting, Current, LockedPlace, Claimed

\* A run goes on by a call of the raw store.
LEMMA CallStep ==
    ASSUME IInv, NEW p \in Process, NEW operation \in {"capture", "recover", "resolve"},
           NEW s \in {"recovering", "capturing", "resolving", "resolving again"},
           CallAt(p, operation, s), tries[p] = 0,
           operation = "resolve" <=> s \in {"resolving", "resolving again"},
           s \in {"resolving", "resolving again"} => pending = none,
           jobLock' = p, jobLock \in {none, p},
           source' = source \/ (answer[p] \in Generation \cup {none} /\ source' = [source EXCEPT ![p] = answer[p]]),
           rawState' = rawState \/ rawState' = [rawState EXCEPT ![p] = row.state]
    PROVE  IInv'
<1>1. /\ Call(p, operation) /\ stage' = [stage EXCEPT ![p] = s]
      /\ canonical' = canonical /\ mode' = mode /\ status' = status
  BY DEF CallAt, Enter
<1>2. /\ LocalTypes' /\ pc[p] = "idle"
      /\ \A q \in Process \ {p} : SameLocal(q) /\ (lock = q => lock' = q)
      /\ UNCHANGED <<store, disturbances>>
      /\ tries'[p] = 0
      /\ \/ pc'[p] = "idle" /\ answer'[p] = "error" /\ operation \in {"capture", "recover"}
         \/ /\ pc'[p] = FirstPlace(operation)
            /\ operation \in {"capture", "recover"} => lock' = p
  BY <1>1, Parts, CallEffect
<1>3. s \in Stage /\ row.state \in State
  BY Parts DEF Stage, StoreTypes
<1>4. JobTypes' /\ stage'[p] = s /\ \A q \in Process \ {p} : SameJob(q) /\ (jobLock = q => jobLock' = q)
  BY <1>1, <1>3, JobParts, Distinct DEF JobTypes, SameJob
<1>5. ProcessInv(p)'
  <2>1. CASE operation = "resolve"
    <3>1. /\ pc'[p] = "looking" /\ s \in {"resolving", "resolving again"} /\ pending = none
          /\ pending' = pending
      BY <1>2, <2>1 DEF FirstPlace, store
    <3>2. 0 < MAX_TRIES
      BY Bounds
    <3>3. Excluded(p)' /\ Adopting(p)' /\ Current(p)'
      BY <1>4, <3>1 DEF Excluded, Adopting, Current, LockedPlace, Claimed
    <3>4. Relied(p)'
      BY <1>2, <3>1, <3>2 DEF Relied, Claimed
    <3>5. QED
      BY <3>3, <3>4 DEF ProcessInv
  <2>2. CASE operation # "resolve"
    <3>1. /\ \/ pc'[p] = "idle" /\ answer'[p] = "error"
             \/ pc'[p] = "recovering" /\ lock' = p
          /\ s \in {"recovering", "capturing"}
      BY <1>2, <2>2 DEF FirstPlace
    <3>2. Excluded(p)' /\ Adopting(p)' /\ Current(p)' /\ Relied(p)'
      BY <1>2, <1>4, <3>1 DEF Excluded, Adopting, Current, Relied, LockedPlace, Claimed
    <3>3. QED
      BY <3>2 DEF ProcessInv
  <2>3. QED
    BY <2>1, <2>2
<1>6. QED
  BY <1>1, <1>2, <1>4, <1>5, Parts, RunStepKeeps

LEMMA StartRunStep ==
    ASSUME IInv, NEW p \in Process, NEW m \in Mode, StartRun(p, m) PROVE IInv'
<1>1. /\ stage[p] = "off" /\ Call(p, "open") /\ stage' = [stage EXCEPT ![p] = "opening"]
      /\ mode' = [mode EXCEPT ![p] = m] /\ status' = none
      /\ canonical' = canonical /\ jobLock' = jobLock /\ source' = source /\ rawState' = rawState
  BY DEF StartRun, Enter
<1>2. pc[p] = "idle" /\ tries[p] = 0
  BY <1>1, JobParts DEF Call
<1>3. /\ LocalTypes' /\ UNCHANGED <<store, disturbances>> /\ pc'[p] = "opening" /\ tries'[p] = 0
      /\ \A q \in Process \ {p} : SameLocal(q) /\ (lock = q => lock' = q)
  BY <1>1, <1>2, Parts, CallEffect DEF FirstPlace
<1>4. JobTypes' /\ stage'[p] = "opening" /\ \A q \in Process \ {p} : SameJob(q) /\ (jobLock = q => jobLock' = q)
  BY <1>1, JobParts DEF JobTypes, SameJob, Stage
<1>5. ProcessInv(p)'
  BY <1>3, <1>4 DEF ProcessInv, Excluded, Relied, Adopting, Current, LockedPlace, Claimed
<1>6. QED
  BY <1>1, <1>3, <1>4, <1>5, Parts, RunStepKeeps

LEMMA RecoverStoreStep ==
    ASSUME IInv, NEW p \in Process, RecoverStore(p) PROVE IInv'
<1>1. /\ CallAt(p, "recover", "recovering") /\ jobLock = none /\ jobLock' = p /\ source' = source
      /\ rawState' = rawState /\ tries[p] = 0
  BY JobParts DEF RecoverStore, Back
<1>2. QED
  BY <1>1, CallStep

LEMMA ResolvePublishedStep ==
    ASSUME IInv, NEW p \in Process, ResolvePublished(p) PROVE IInv'
<1>1. /\ CallAt(p, "resolve", "resolving") /\ jobLock' = jobLock /\ source' = source
      /\ rawState' = rawState /\ tries[p] = 0 /\ stage[p] = "recovering" /\ pc[p] = "idle"
      /\ answer[p] = "ok"
  BY JobParts DEF ResolvePublished, Back
<1>2. pending = none /\ jobLock = p
  BY <1>1, Parts DEF Current, Excluded
<1>3. QED
  BY <1>1, <1>2, CallStep

LEMMA CaptureRawStep ==
    ASSUME IInv, NEW p \in Process, CaptureRaw(p) PROVE IInv'
<1>1. /\ CallAt(p, "capture", "capturing") /\ jobLock' = jobLock
      /\ rawState' = rawState /\ tries[p] = 0 /\ stage[p] = "resolving" /\ pc[p] = "idle"
      /\ answer[p] # "error" /\ source' = [source EXCEPT ![p] = answer[p]]
  BY JobParts DEF CaptureRaw, Back
<1>2. jobLock = p /\ answer[p] # "ok"
  BY <1>1, Parts DEF Excluded, Current
<1>3. answer[p] \in Generation \cup {none}
  BY <1>1, <1>2, Parts DEF LocalTypes, Answers, MaybeGeneration
<1>4. QED
  BY <1>1, <1>2, <1>3, CallStep

LEMMA ResolveAgainStep ==
    ASSUME IInv, NEW p \in Process, ResolveAgain(p) PROVE IInv'
<1>1. /\ CallAt(p, "resolve", "resolving again") /\ jobLock' = jobLock
      /\ rawState' = [rawState EXCEPT ![p] = row.state] /\ tries[p] = 0
      /\ stage[p] = "capturing" /\ pc[p] = "idle" /\ answer[p] = "ok" /\ source' = source
  BY JobParts DEF ResolveAgain, Back
<1>2. pending = none /\ jobLock = p
  BY <1>1, Parts DEF Current, Excluded
<1>3. QED
  BY <1>1, <1>2, CallStep

\* What a call returned is used up.
LEMMA ForgetEffect ==
    ASSUME LocalTypes, NEW p \in Process, Forget(p), UNCHANGED <<lock, pc, local>>
    PROVE  /\ LocalTypes' /\ pc' = pc /\ tries' = tries
           /\ \A q \in Process \ {p} : SameLocal(q) /\ (lock = q => lock' = q)
<1>1. answer' = [answer EXCEPT ![p] = none] /\ none \in Answers
  BY DEF Forget, Answers, MaybeGeneration
<1>2. QED
  BY <1>1 DEF LocalTypes, SameLocal, local

LEMMA UseRawStep ==
    ASSUME IInv, NEW p \in Process, UseRaw(p) PROVE IInv'
<1>1. /\ pc[p] = "idle" /\ stage[p] \in {"resolving", "resolving again"}
      /\ answer[p] \in Generation
      /\ source' = [source EXCEPT ![p] = answer[p]]
      /\ rawState' = [rawState EXCEPT ![p] = row.state]
      /\ stage' = [stage EXCEPT ![p] = "converting"]
      /\ Forget(p) /\ UNCHANGED <<lock, pc, local>> /\ UNCHANGED store
      /\ disturbances' = disturbances /\ canonical' = canonical /\ jobLock' = jobLock
      /\ mode' = mode /\ status' = status
  BY DEF UseRaw, Back, Enter
<1>2. /\ pending = none /\ answer[p] = row.published /\ jobLock = p /\ answer[p] # none
      /\ row.state \in State /\ tries[p] = 0
  BY <1>1, Parts, Distinct DEF Current, Excluded, Relied, StoreTypes, Generation
<1>3. /\ LocalTypes' /\ pc' = pc /\ tries' = tries
      /\ \A q \in Process \ {p} : SameLocal(q) /\ (lock = q => lock' = q)
  BY <1>1, Parts, ForgetEffect
<1>4. /\ JobTypes' /\ stage'[p] = "converting" /\ source'[p] = answer[p] /\ rawState'[p] = row.state
      /\ \A q \in Process \ {p} : SameJob(q) /\ (jobLock = q => jobLock' = q)
  BY <1>1, <1>2, JobParts DEF JobTypes, SameJob, Stage
<1>5. row' = row /\ pending' = pending
  BY <1>1 DEF store
<1>6. Excluded(p)' /\ Relied(p)' /\ Adopting(p)'
  BY <1>1, <1>2, <1>3, <1>4 DEF Excluded, Relied, Adopting, LockedPlace, Claimed
<1>7. Current(p)'
  BY <1>1, <1>2, <1>3, <1>4, <1>5 DEF Current
<1>8. QED
  BY <1>1, <1>3, <1>4, <1>6, <1>7, Parts, RunStepKeeps DEF ProcessInv

\* A run ends, between two of its calls.
LEMMA RunEndsStep ==
    ASSUME IInv, NEW p \in Process, NEW outcome \in {"COMPLETE", "ATTENTION", "FAILED"},
           Finish(p, outcome), pc[p] = "idle", canonical' = canonical,
           UNCHANGED store, disturbances' \in 0..MaxDisturbances, UNCHANGED <<lock, pc, local>>,
           answer' = answer \/ Forget(p)
    PROVE  IInv'
<1>1. /\ JobTypes' /\ stage'[p] = "off"
      /\ \A q \in Process \ {p} : SameJob(q) /\ (jobLock = q => jobLock' = q)
  BY JobParts, FinishEffect
<1>2. /\ LocalTypes' /\ pc' = pc /\ tries' = tries
      /\ \A q \in Process \ {p} : SameLocal(q) /\ (lock = q => lock' = q)
  <2>1. CASE Forget(p)
    BY <2>1, Parts, ForgetEffect
  <2>2. CASE answer' = answer
    BY <2>2, Parts DEF LocalTypes, SameLocal, local
  <2>3. QED
    BY <2>1, <2>2
<1>3. ProcessInv(p)'
  BY <1>1, <1>2, JobParts, Resting
<1>4. QED
  BY <1>1, <1>2, <1>3, RunStepKeeps

LEMMA RunFailsStep ==
    ASSUME IInv, NEW p \in Process, RunFails(p) PROVE IInv'
<1>1. /\ Finish(p, "FAILED") /\ pc[p] = "idle" /\ canonical' = canonical /\ UNCHANGED store
      /\ disturbances' = disturbances /\ UNCHANGED <<lock, pc, local>> /\ Forget(p)
  BY DEF RunFails, Back
<1>2. QED
  BY <1>1, Parts, RunEndsStep

\* At the conversion no call is under way.
LEMMA ConversionRests ==
    ASSUME NEW p \in Process, Excluded(p), LocalTypes, stage[p] \in {"converting", "publishing"}
    PROVE  pc[p] = "idle" /\ jobLock = p
BY DEF Excluded, LocalTypes, Place, LockedPlace, Claimed

LEMMA RawUnchanged ==
    ASSUME UNCHANGED rawVars, LocalTypes
    PROVE  /\ LocalTypes' /\ UNCHANGED store /\ disturbances' = disturbances /\ row' = row
           /\ pending' = pending /\ UNCHANGED <<lock, pc, local>> /\ answer' = answer /\ pc' = pc
           /\ tries' = tries
           /\ \A q \in Process : SameLocal(q) /\ (lock = q => lock' = q)
BY DEF rawVars, store, local, LocalTypes, SameLocal

\* The canonical store serves or gets another generation.
LEMMA CanonicalTypes ==
    ASSUME JobTypes, NEW g \in Generation,
           canonical' = Converted(g)
              \/ (g \in canonical.generations /\ canonical' = [canonical EXCEPT !.current = g])
    PROVE  /\ canonical' \in [generations : SUBSET Generation, damaged : SUBSET Generation,
                              current : Generation \cup {none}]
           /\ canonical'.damaged \subseteq canonical'.generations
           /\ canonical'.current \in canonical'.generations \cup {none}
           /\ canonical.generations \subseteq canonical'.generations
           /\ canonical' = Converted(g) => g \in canonical'.generations
<1>1. CASE canonical' = Converted(g)
  BY <1>1 DEF Converted, JobTypes
<1>2. CASE g \in canonical.generations /\ canonical' = [canonical EXCEPT !.current = g]
  <2>1. canonical'.generations = canonical.generations /\ g \in canonical'.generations
    BY <1>2 DEF JobTypes
  <2>2. QED
    BY <1>2, <2>1 DEF JobTypes
<1>3. QED
  BY <1>1, <1>2

LEMMA ConvertRawStep ==
    ASSUME IInv, NEW p \in Process, ConvertRaw(p) PROVE IInv'
<1>1. /\ stage[p] = "converting" /\ canonical' = Converted(source[p])
      /\ stage' = [stage EXCEPT ![p] = "publishing"] /\ UNCHANGED rawVars
      /\ jobLock' = jobLock /\ mode' = mode /\ source' = source /\ rawState' = rawState
      /\ status' = status
  BY DEF ConvertRaw, Enter
<1>2. /\ pc[p] = "idle" /\ jobLock = p /\ tries[p] = 0 /\ source[p] = row.published
      /\ row.published # none /\ rawState[p] = row.state /\ pending = none /\ source[p] \in Generation
  <2>1. pc[p] = "idle" /\ jobLock = p /\ tries[p] = 0
    BY <1>1, Parts, JobParts, ConversionRests
  <2>2. /\ source[p] = row.published /\ row.published # none /\ rawState[p] = row.state
        /\ pending = none
    BY <1>1, Parts DEF Current
  <2>3. source[p] \in Generation
    BY <2>2, JobParts
  <2>4. QED
    BY <2>1, <2>2, <2>3
<1>3. /\ LocalTypes' /\ UNCHANGED store /\ disturbances' = disturbances /\ row' = row
      /\ pending' = pending /\ pc' = pc /\ tries' = tries
      /\ \A q \in Process : SameLocal(q) /\ (lock = q => lock' = q)
  BY <1>1, Parts, RawUnchanged
<1>4. /\ canonical' \in [generations : SUBSET Generation, damaged : SUBSET Generation,
                         current : Generation \cup {none}]
      /\ canonical'.damaged \subseteq canonical'.generations
      /\ canonical'.current \in canonical'.generations \cup {none}
      /\ canonical.generations \subseteq canonical'.generations
      /\ source[p] \in canonical'.generations
  BY <1>1, <1>2, JobParts, CanonicalTypes
<1>5. /\ JobTypes' /\ stage'[p] = "publishing"
      /\ \A q \in Process \ {p} : SameJob(q) /\ (jobLock = q => jobLock' = q)
  BY <1>1, <1>4, JobParts DEF JobTypes, SameJob, Stage
<1>6. Excluded(p)' /\ Relied(p)' /\ Adopting(p)'
  BY <1>1, <1>2, <1>3, <1>5 DEF Excluded, Relied, Adopting, LockedPlace, Claimed
<1>7. Current(p)'
  BY <1>1, <1>2, <1>3, <1>4, <1>5 DEF Current
<1>8. QED
  BY <1>3, <1>4, <1>5, <1>6, <1>7, Parts, RunStepKeeps DEF ProcessInv

LEMMA ConvertFailsStep ==
    ASSUME IInv, NEW p \in Process, ConvertFails(p) PROVE IInv'
<1>1. stage[p] = "converting" /\ Finish(p, "FAILED") /\ UNCHANGED rawVars /\ canonical' = canonical
  BY DEF ConvertFails
<1>2. pc[p] = "idle"
  BY <1>1, Parts, ConversionRests
<1>3. UNCHANGED store /\ disturbances' = disturbances /\ UNCHANGED <<lock, pc, local>> /\ answer' = answer
  BY <1>1, Parts, RawUnchanged
<1>4. QED
  BY <1>1, <1>2, <1>3, Parts, RunEndsStep

\* A run ends as the canonical store is switched.
LEMMA SwitchStep ==
    ASSUME IInv, NEW p \in Process, stage[p] = "publishing",
           NEW outcome \in {"COMPLETE", "ATTENTION", "FAILED"}, Finish(p, outcome),
           canonical' = [canonical EXCEPT !.current = source[p]],
           UNCHANGED store, disturbances' \in 0..MaxDisturbances, UNCHANGED <<lock, pc, local>>,
           answer' = answer
    PROVE  IInv'
<1>1. pc[p] = "idle" /\ source[p] \in Generation /\ source[p] \in canonical.generations /\ tries[p] = 0
  BY Parts, JobParts, ConversionRests DEF Current
<1>2. /\ canonical' \in [generations : SUBSET Generation, damaged : SUBSET Generation,
                         current : Generation \cup {none}]
      /\ canonical'.damaged \subseteq canonical'.generations
      /\ canonical'.current \in canonical'.generations \cup {none}
      /\ canonical.generations \subseteq canonical'.generations
  BY <1>1, JobParts, CanonicalTypes
<1>3. /\ stage' = [stage EXCEPT ![p] = "off"] /\ mode' = [mode EXCEPT ![p] = "plain"]
      /\ source' = [source EXCEPT ![p] = none] /\ rawState' = [rawState EXCEPT ![p] = none]
      /\ status' = outcome /\ jobLock' = IF jobLock = p THEN none ELSE jobLock
  BY DEF Finish, Enter
<1>4. /\ JobTypes' /\ stage'[p] = "off"
      /\ \A q \in Process \ {p} : SameJob(q) /\ (jobLock = q => jobLock' = q)
  BY <1>2, <1>3, JobParts DEF JobTypes, SameJob, Stage, Mode
<1>5. /\ LocalTypes' /\ pc' = pc /\ tries' = tries
      /\ \A q \in Process \ {p} : SameLocal(q) /\ (lock = q => lock' = q)
  BY Parts DEF LocalTypes, SameLocal, local
<1>6. ProcessInv(p)'
  BY <1>1, <1>4, <1>5, Resting
<1>7. QED
  BY <1>2, <1>4, <1>5, <1>6, RunStepKeeps

LEMMA PublishCanonicalStep ==
    ASSUME IInv, NEW p \in Process, PublishCanonical(p) PROVE IInv'
<1>1. /\ stage[p] = "publishing" /\ Finish(p, Outcome(p)) /\ UNCHANGED rawVars
      /\ canonical' = [canonical EXCEPT !.current = source[p]]
      /\ Outcome(p) \in {"COMPLETE", "ATTENTION", "FAILED"}
  BY DEF PublishCanonical, Outcome
<1>2. UNCHANGED store /\ disturbances' = disturbances /\ UNCHANGED <<lock, pc, local>> /\ answer' = answer
  BY <1>1, Parts, RawUnchanged
<1>3. QED
  BY <1>1, <1>2, Parts, SwitchStep

LEMMA RunStepStep ==
    ASSUME IInv, NEW p \in Process, RunStep(p) PROVE IInv'
BY RawStepKeeps, RecoverStoreStep, ResolvePublishedStep, CaptureRawStep, ResolveAgainStep,
   UseRawStep, RunFailsStep, ConvertRawStep, PublishCanonicalStep, ConvertFailsStep DEF RunStep

-----------------------------------------------------------------------------
(* Disturbances of a run *)

LEMMA OneMore == ASSUME IInv, Disturb PROVE disturbances' \in 0..MaxDisturbances
BY Bounds DEF IInv, Types, Disturb

LEMMA StageFailsStep ==
    ASSUME IInv, NEW p \in Process, StageFails(p) PROVE IInv'
<1>1. /\ stage[p] \in {"converting", "publishing"} /\ Finish(p, "FAILED")
      /\ UNCHANGED store /\ lock' = lock /\ pc' = pc /\ UNCHANGED local /\ answer' = answer
      /\ disturbances' \in 0..MaxDisturbances
      /\ \/ canonical' = canonical
         \/ stage[p] = "publishing" /\ canonical' = [canonical EXCEPT !.current = source[p]]
  BY OneMore DEF StageFails
<1>2. pc[p] = "idle" /\ UNCHANGED <<lock, pc, local>>
  BY <1>1, Parts, ConversionRests
<1>3. CASE canonical' = canonical
  BY <1>1, <1>2, <1>3, RunEndsStep
<1>4. CASE stage[p] = "publishing" /\ canonical' = [canonical EXCEPT !.current = source[p]]
  BY <1>1, <1>2, <1>4, SwitchStep
<1>5. QED
  BY <1>1, <1>3, <1>4

LEMMA DiesStep ==
    ASSUME IInv, NEW p \in Process, Dies(p) PROVE IInv'
<1>1. /\ Return(p, none) /\ Finish(p, none) /\ canonical' = canonical /\ UNCHANGED store
      /\ disturbances' \in 0..MaxDisturbances
  BY OneMore DEF Dies, ProcessDies
<1>2. none \in Answers
  BY DEF Answers, MaybeGeneration
<1>3. /\ LocalTypes' /\ pc'[p] = "idle" /\ tries'[p] = 0
      /\ \A q \in Process \ {p} : SameLocal(q) /\ (lock = q => lock' = q)
  BY <1>1, <1>2, Parts, ReturnEffect
<1>4. /\ JobTypes' /\ stage'[p] = "off"
      /\ \A q \in Process \ {p} : SameJob(q) /\ (jobLock = q => jobLock' = q)
  BY <1>1, JobParts, FinishEffect
<1>5. ProcessInv(p)'
  BY <1>3, <1>4, Resting
<1>6. QED
  BY <1>1, <1>3, <1>4, <1>5, RunStepKeeps

\* What the steps have in common that no process takes.
LEMMA OutsideStep ==
    ASSUME IInv, StoreTypes', StoreInv', JobTypes', Steady, disturbances' \in 0..MaxDisturbances,
           UNCHANGED <<lock, pc, local, answer>>, UNCHANGED <<jobLock, stage, source, rawState>>
    PROVE  IInv'
<1>1. LocalTypes' /\ lock' = lock /\ jobLock' = jobLock
  BY DEF IInv, Types, LocalTypes, local
<1>2. \A q \in Process : SameLocal(q) /\ SameJob(q)
  BY DEF SameLocal, SameJob, local
<1>3. ASSUME NEW q \in Process PROVE ProcessInv(q)'
  <2>1. ProcessInv(q)
    BY DEF IInv
  <2>2. QED
    BY <1>1, <1>2, <2>1, SteadyKeeps
<1>4. QED
  BY <1>1, <1>3 DEF IInv, Types

LEMMA StoreDamageStep == ASSUME IInv, StoreDamage PROVE IInv'
<1>1. /\ disturbances' \in 0..MaxDisturbances /\ UNCHANGED <<lock, pc, local, answer>>
      /\ jobLock' = jobLock /\ stage' = stage /\ mode' = mode /\ source' = source
      /\ rawState' = rawState /\ status' = status /\ row' = row /\ pending' = pending
      /\ generations' = generations
  BY OneMore DEF StoreDamage, Damage, jobVars, store, SetPointer
<1>2. \/ /\ \/ pointer' = pointer /\ \E g \in generations : damaged' = damaged \cup {g}
            \/ pointer' = none /\ damaged' = damaged
         /\ canonical' = canonical
      \/ /\ pointer' = pointer /\ damaged' = damaged
         /\ \E g \in canonical.generations : canonical' = [canonical EXCEPT !.damaged = @ \cup {g}]
  BY DEF StoreDamage, Damage, jobVars, store, SetPointer
<1>3. StoreTypes /\ StoreInv /\ JobTypes
  BY DEF IInv, Types
<1>4. StoreTypes' /\ StoreInv'
  <2>1. pointer' \in {pointer, none} /\ damaged' \subseteq generations
    BY <1>2, <1>3 DEF StoreTypes
  <2>2. QED
    BY <1>1, <1>3, <2>1
       DEF StoreTypes, StoreInv, Recoverable, PointerAccounted, PendingFinishable, LedgerTrue
<1>5. JobTypes' /\ canonical'.generations = canonical.generations
  <2>1. CASE canonical' = canonical
    BY <1>1, <1>3, <2>1 DEF JobTypes
  <2>2. ASSUME NEW g \in canonical.generations, canonical' = [canonical EXCEPT !.damaged = @ \cup {g}]
        PROVE  JobTypes' /\ canonical'.generations = canonical.generations
    <3>1. /\ canonical'.generations = canonical.generations /\ canonical'.current = canonical.current
          /\ canonical'.damaged = canonical.damaged \cup {g}
          /\ canonical' \in [generations : SUBSET Generation, damaged : SUBSET Generation,
                             current : Generation \cup {none}]
      BY <1>3, <2>2 DEF JobTypes
    <3>2. QED
      BY <1>1, <1>3, <3>1 DEF JobTypes
  <2>3. QED
    BY <1>2, <2>1, <2>2
<1>6. Steady
  BY <1>1, <1>2, <1>5 DEF Steady
<1>7. QED
  BY <1>1, <1>4, <1>5, <1>6, OutsideStep

LEMMA StutterStep == ASSUME IInv, UNCHANGED vars PROVE IInv'
<1>1. /\ UNCHANGED rawVars /\ UNCHANGED jobVars
  BY DEF vars
<1>2. /\ UNCHANGED <<lock, pc, local, answer>> /\ UNCHANGED <<jobLock, stage, source, rawState>>
      /\ row' = row /\ pending' = pending /\ pointer' = pointer /\ generations' = generations
      /\ damaged' = damaged /\ disturbances' = disturbances /\ canonical' = canonical
  BY <1>1 DEF rawVars, jobVars, store
<1>3. StoreTypes' /\ StoreInv' /\ Steady
  BY <1>2 DEF IInv, Types, StoreTypes, StoreInv, Recoverable, PointerAccounted, PendingFinishable,
              LedgerTrue, Steady
<1>4. JobTypes' /\ disturbances' \in 0..MaxDisturbances
  BY <1>1, <1>2, JobUnchanged DEF IInv, Types
<1>5. QED
  BY <1>2, <1>3, <1>4, OutsideStep

LEMMA Initially == Init => IInv
<1> SUFFICES ASSUME Init PROVE IInv
  OBVIOUS
<1>1. RawInit
  BY DEF Init
<1>2. StoreTypes /\ StoreInv /\ disturbances \in 0..MaxDisturbances
  BY <1>1, Bounds DEF RawInit, Nobody, StoreTypes, State, StoreInv, Recoverable, PointerAccounted,
                     PendingFinishable, LedgerTrue
<1>3. LocalTypes
  <2>1. "idle" \in Place /\ Unread \in [published : MaybeGeneration, prepared : MaybeGeneration]
        /\ 0 \in 0..MAX_TRIES /\ none \in MaybeGeneration /\ none \in Answers
    BY Bounds DEF Place, Unread, MaybeGeneration, Answers
  <2>2. QED
    BY <1>1, <2>1 DEF RawInit, LocalTypes
<1>4. JobTypes
  BY DEF Init, JobTypes, Stage, Mode
<1>5. ASSUME NEW p \in Process PROVE ProcessInv(p)
  <2>1. pc[p] = "idle" /\ stage[p] = "off" /\ tries[p] = 0
    BY <1>1 DEF RawInit, Init
  <2>2. QED
    BY <2>1 DEF ProcessInv, Excluded, Relied, Adopting, Current, LockedPlace, Claimed
<1>6. QED
  BY <1>2, <1>3, <1>4, <1>5 DEF IInv, Types

LEMMA Inductive == IInv /\ [Next]_vars => IInv'
<1> SUFFICES ASSUME IInv, [Next]_vars PROVE IInv'
  OBVIOUS
<1>1. ASSUME NEW p \in Process, NEW m \in Mode, StartRun(p, m) PROVE IInv'
  BY <1>1, StartRunStep
<1>2. ASSUME NEW p \in Process, RunStep(p) PROVE IInv'
  BY <1>2, RunStepStep
<1>3. ASSUME NEW p \in Process, StoreFails(p) PROVE IInv'
  BY <1>3, CallFailsStep
<1>4. ASSUME NEW p \in Process, StageFails(p) PROVE IInv'
  BY <1>4, StageFailsStep
<1>5. ASSUME NEW p \in Process, Dies(p) PROVE IInv'
  BY <1>5, DiesStep
<1>6. CASE StoreDamage
  BY <1>6, StoreDamageStep
<1>7. CASE UNCHANGED vars
  BY <1>7, StutterStep
<1>8. QED
  BY <1>1, <1>2, <1>3, <1>4, <1>5, <1>6, <1>7 DEF Next

-----------------------------------------------------------------------------
(* Theorems *)

LEMMA AlwaysIInv == Spec => []IInv
BY Initially, Inductive, PTL DEF Spec

\* Every variable has its type: what ledger, CURRENT and the canonical store name is there.
THEOREM Typed == Spec => []TypeOK
<1>1. IInv => TypeOK
  BY DEF IInv, Types, StoreTypes, LocalTypes, JobTypes, TypeOK, RawTypeOK, Answers
<1>2. QED
  BY <1>1, AlwaysIInv, PTL

\* Wherever captures, recoveries and constructors of any number of processes fail or die,
\* CURRENT names the confirmed generation or the prepared one, and the prepared one can be
\* confirmed by the next recovery (jquants_raw_store.py).
THEOREM AlwaysRecoverable == Spec => []Recoverable
<1>1. IInv => Recoverable
  BY DEF IInv, StoreInv
<1>2. QED
  BY <1>1, AlwaysIInv, PTL

\* A step on the ledger that does not confirm anything.
LEMMA PublishedKept ==
    ASSUME StoreTypes, NEW s \in State, NEW r \in Run \cup {none},
           row' \in {row, [row EXCEPT !.state = s], [row EXCEPT !.state = s, !.run = r]}
    PROVE  row'.published = row.published
BY DEF StoreTypes

\* A confirmation of something, in the place of nothing or of rows.
Confirms == \E g \in Content : /\ g = empty => row.published \in {none, empty}
                              /\ row'.published = g

LEMMA FinishConfirms ==
    ASSUME IInv, NEW a, FinishDataset(a) PROVE Confirms
<1>1. pending # none /\ row'.published = pending.generation
  BY DEF FinishDataset
<1>2. pending.generation \in Content
  BY <1>1 DEF IInv, Types, StoreTypes, Generation
<1>3. pending.generation = empty => row.published \in {none, empty}
  BY <1>1 DEF IInv, StoreInv, LedgerTrue
<1>4. QED
  BY <1>1, <1>2, <1>3 DEF Confirms

LEMMA RawStepConfirms ==
    ASSUME IInv, NEW p \in Process, RawStep(p)
    PROVE  row'.published = row.published \/ Confirms
<1> DEFINE Goal == row'.published = row.published \/ Confirms
<1>1. StoreTypes
  BY DEF IInv, Types
<1>2. CASE Recover(p)
  <2>1. CASE RecoverNothing(p) \/ RecoverFound(p) \/ RecoverStops(p)
    BY <2>1 DEF RecoverNothing, RecoverFound, RecoverStops, store
  <2>2. CASE Republish(p) \/ Restore(p) \/ Repair(p)
    BY <2>2 DEF Republish, Restore, Repair, SetPointer
  <2>3. CASE AbortPending(p)
    <3>1. row' \in {row, [row EXCEPT !.state = "FAILED"]} /\ "FAILED" \in State
      BY <2>3 DEF AbortPending, State
    <3>2. QED
      BY <1>1, <3>1, PublishedKept
  <2>4. CASE RecoverConfirms(p)
    BY <2>4, FinishConfirms DEF RecoverConfirms
  <2>5. QED
    BY <1>2, <2>1, <2>2, <2>3, <2>4 DEF Recover
<1>3. CASE Capture(p)
  <2>1. CASE RecordPage(p) \/ (\E c \in Content : EndOfPages(p, c)) \/ CleanupStaging(p)
    BY <2>1 DEF RecordPage, EndOfPages, CleanupStaging, store
  <2>2. CASE PublishGeneration(p) \/ PreparePublication(p) \/ PublishPointer(p)
    BY <2>2 DEF PublishGeneration, PreparePublication, PublishPointer, SetPointer
  <2>3. CASE ClaimDataset(p)
    <3>1. PICK r \in Run : row' = ClaimedRow(r)
      BY <2>3 DEF ClaimDataset
    <3>2. "RUNNING" \in State /\ row' = [row EXCEPT !.state = "RUNNING", !.run = r]
      BY <3>1 DEF State, ClaimedRow
    <3>3. QED
      BY <1>1, <3>2, PublishedKept
  <2>4. CASE FinishEmptyHeld(p)
    <3>1. row' = [row EXCEPT !.state = "EMPTY_HELD"] /\ "EMPTY_HELD" \in State
      BY <2>4 DEF FinishEmptyHeld, State
    <3>2. QED
      BY <1>1, <3>1, PublishedKept
  <2>5. CASE CaptureStops(p)
    BY <2>5, RowFailed DEF CaptureStops
  <2>6. CASE ConfirmPublication(p)
    BY <2>6, FinishConfirms DEF ConfirmPublication
  <2>7. QED
    BY <1>3, <2>1, <2>2, <2>3, <2>4, <2>5, <2>6 DEF Capture
<1>4. CASE Resolve(p)
  BY <1>4 DEF Resolve, Look, Compare, store
<1>5. CASE Open(p)
  <2>1. CASE OpenLook(p) \/ OpenRead(p)
    BY <2>1 DEF OpenLook, OpenRead, store
  <2>2. CASE OpenAdopts(p)
    <3>1. CASE row.published # none
      BY <2>2, <3>1 DEF OpenAdopts, AdoptedRow
    <3>2. CASE row.published = none
      <4>1. row' = [row EXCEPT !.published = view[p].published] /\ view[p].published \in Content
        BY <2>2, <3>2, Parts DEF OpenAdopts, AdoptedRow, Adopting, StoreTypes, Generation
      <4>2. row'.published = view[p].published
        BY <1>1, <4>1 DEF StoreTypes
      <4>3. QED
        BY <3>2, <4>1, <4>2 DEF Confirms
    <3>3. QED
      BY <3>1, <3>2
  <2>3. QED
    BY <1>5, <2>1, <2>2 DEF Open
<1>6. QED
  BY <1>2, <1>3, <1>4, <1>5 DEF RawStep

mirrored == <<row.published, canonical.current>>

\* A step of the raw store confirms or leaves both stores.
LEMMA MirrorRaw ==
    ASSUME row'.published = row.published \/ Confirms, canonical' = canonical
    PROVE  [Mirror!Next]_mirrored
BY DEF Mirror!Next, Mirror!Confirm, mirrored, Confirms

\* A switch of the canonical store serves what is confirmed.
LEMMA MirrorServe ==
    ASSUME IInv, NEW p \in Process, stage[p] = "publishing", UNCHANGED store,
           canonical' = [canonical EXCEPT !.current = source[p]]
    PROVE  [Mirror!Next]_mirrored
<1>1. source[p] = row.published /\ row.published # none /\ row' = row
  BY Parts DEF Current, store
<1>2. canonical'.current = source[p]
  BY JobParts DEF JobTypes
<1>3. QED
  BY <1>1, <1>2 DEF Mirror!Next, Mirror!Serve, mirrored

\* Neither store is touched.
LEMMA MirrorRests ==
    ASSUME UNCHANGED store, canonical'.current = canonical.current PROVE [Mirror!Next]_mirrored
BY DEF store, mirrored

LEMMA MirrorStep == IInv /\ [Next]_vars => [Mirror!Next]_mirrored
<1> SUFFICES ASSUME IInv, [Next]_vars PROVE [Mirror!Next]_mirrored
  OBVIOUS
<1>1. ASSUME NEW p \in Process, NEW m \in Mode, StartRun(p, m) PROVE [Mirror!Next]_mirrored
  BY <1>1, MirrorRests DEF StartRun, Call
<1>2. ASSUME NEW p \in Process, RunStep(p) PROVE [Mirror!Next]_mirrored
  <2>1. CASE StoreStep(p)
    BY <2>1, RawStepConfirms, JobUnchanged, MirrorRaw DEF StoreStep
  <2>2. CASE RecoverStore(p) \/ ResolvePublished(p) \/ CaptureRaw(p) \/ ResolveAgain(p)
    <3>1. UNCHANGED store /\ canonical' = canonical
      BY <2>2 DEF RecoverStore, ResolvePublished, CaptureRaw, ResolveAgain, CallAt, Call
    <3>2. QED
      BY <3>1, MirrorRests
  <2>3. CASE UseRaw(p) \/ RunFails(p)
    <3>1. UNCHANGED store /\ canonical' = canonical
      BY <2>3 DEF UseRaw, RunFails
    <3>2. QED
      BY <3>1, MirrorRests
  <2>4. CASE ConvertRaw(p)
    <3>1. UNCHANGED store /\ canonical' = Converted(source[p])
      BY <2>4 DEF ConvertRaw, rawVars
    <3>2. canonical'.current = canonical.current
      BY <3>1, JobParts DEF JobTypes, Converted
    <3>3. QED
      BY <3>1, <3>2, MirrorRests
  <2>5. CASE PublishCanonical(p)
    BY <2>5, MirrorServe DEF PublishCanonical, rawVars
  <2>6. CASE ConvertFails(p)
    BY <2>6, MirrorRests DEF ConvertFails, rawVars
  <2>7. QED
    BY <1>2, <2>1, <2>2, <2>3, <2>4, <2>5, <2>6 DEF RunStep
<1>3. ASSUME NEW p \in Process, StoreFails(p) PROVE [Mirror!Next]_mirrored
  <2>1. row'.published = row.published
    <3>1. CASE row' = FailedRow(p)
      BY <1>3, <3>1, RowFailed DEF StoreFails, CallFails
    <3>2. QED
      BY <1>3, <3>1 DEF StoreFails, CallFails
  <2>2. canonical' = canonical
    BY <1>3 DEF StoreFails, jobVars
  <2>3. QED
    BY <2>1, <2>2, MirrorRaw
<1>4. ASSUME NEW p \in Process, StageFails(p) PROVE [Mirror!Next]_mirrored
  BY <1>4, MirrorServe, MirrorRests DEF StageFails
<1>5. ASSUME NEW p \in Process, Dies(p) PROVE [Mirror!Next]_mirrored
  BY <1>5, MirrorRests DEF Dies, ProcessDies
<1>6. CASE StoreDamage
  <2>1. row' = row /\ canonical'.current = canonical.current
    BY <1>6 DEF StoreDamage, Damage, SetPointer, jobVars, store, IInv, Types, JobTypes
  <2>2. QED
    BY <2>1 DEF mirrored
<1>7. CASE UNCHANGED vars
  BY <1>7 DEF vars, rawVars, jobVars, store, mirrored
<1>8. QED
  BY <1>1, <1>2, <1>3, <1>4, <1>5, <1>6, <1>7 DEF Next

\* The two stores together behave as one publication after the other: nothing confirmed is
\* forgotten, rows never make way for an empty answer, and the canonical store switches only
\* to the publication that is confirmed at that moment, however calls, runs and constructors
\* of several processes interleave, fail and die.
THEOREM Mirrors == Spec => ImplementsMirror
<1>1. Init => Mirror!Init
  BY DEF Init, RawInit, Nobody, Mirror!Init
<1>2. IInv /\ [Next]_vars => [Mirror!Next]_<<row.published, canonical.current>>
  BY MirrorStep DEF mirrored
<1>3. QED
  BY <1>1, <1>2, AlwaysIInv, PTL DEF Spec, ImplementsMirror, Mirror!Spec

\* What CompleteIsTrue says of one step and one process.
CompleteStep(p) ==
    stage[p] = "publishing" /\ stage'[p] = "off" /\ status' = "COMPLETE"
       => /\ canonical'.current = row.published
          /\ row.state = "COMPLETE"
          /\ pending = none

\* Only its own steps end a run, and only the switch of the canonical store with success.
LEMMA OtherEnd ==
    ASSUME IInv, NEW p \in Process, NEW q \in Process,
           \/ stage' = stage
           \/ \E s \in Stage \ {"off"} : Enter(q, s)
           \/ Enter(q, "off") /\ (status' = "FAILED" \/ status' = none)
    PROVE  CompleteStep(p)
BY JobParts, Distinct DEF CompleteStep, Enter

LEMMA PublishComplete ==
    ASSUME IInv, NEW p \in Process, NEW q \in Process, PublishCanonical(q)
    PROVE  CompleteStep(p)
<1> SUFFICES ASSUME stage[p] = "publishing", stage'[p] = "off", status' = "COMPLETE"
             PROVE  canonical'.current = row.published /\ row.state = "COMPLETE" /\ pending = none
  BY DEF CompleteStep
<1>1. /\ stage' = [stage EXCEPT ![q] = "off"] /\ status' = Outcome(q)
      /\ canonical' = [canonical EXCEPT !.current = source[q]]
  BY DEF PublishCanonical, Finish, Enter
<1>2. p = q
  BY <1>1, JobParts
<1>3. canonical'.current = source[p]
  BY <1>1, <1>2, JobParts DEF JobTypes
<1>4. /\ rawState[p] \notin {"EMPTY_HELD", "FAILED", "PARTIAL", "RUNNING"} /\ source[p] # empty
  BY <1>1, <1>2 DEF Outcome
<1>5. source[p] = row.published /\ row.published # none /\ rawState[p] = row.state /\ pending = none
  BY Parts DEF Current
<1>6. row.state \in State /\ row.state # "absent" /\ row.state # "EMPTY_UNKNOWN"
  BY <1>4, <1>5, Parts DEF StoreTypes, StoreInv, LedgerTrue
<1>7. QED
  BY <1>3, <1>4, <1>5, <1>6 DEF State

LEMMA CompleteSteps ==
    ASSUME IInv, [Next]_vars, NEW p \in Process PROVE CompleteStep(p)
<1>1. ASSUME NEW q \in Process, NEW m \in Mode, StartRun(q, m) PROVE CompleteStep(p)
  BY <1>1, OtherEnd DEF StartRun, Stage
<1>2. ASSUME NEW q \in Process, RunStep(q) PROVE CompleteStep(p)
  <2>1. CASE StoreStep(q)
    BY <2>1, OtherEnd DEF StoreStep, jobVars
  <2>2. CASE RecoverStore(q) \/ ResolvePublished(q) \/ CaptureRaw(q) \/ ResolveAgain(q)
    BY <2>2, OtherEnd DEF RecoverStore, ResolvePublished, CaptureRaw, ResolveAgain, CallAt, Stage
  <2>3. CASE UseRaw(q)
    BY <2>3, OtherEnd DEF UseRaw, Stage
  <2>4. CASE RunFails(q)
    BY <2>4, OtherEnd DEF RunFails, Finish
  <2>5. CASE ConvertRaw(q)
    BY <2>5, OtherEnd DEF ConvertRaw, Stage
  <2>6. CASE PublishCanonical(q)
    BY <2>6, PublishComplete
  <2>7. CASE ConvertFails(q)
    BY <2>7, OtherEnd DEF ConvertFails, Finish
  <2>8. QED
    BY <1>2, <2>1, <2>2, <2>3, <2>4, <2>5, <2>6, <2>7 DEF RunStep
<1>3. ASSUME NEW q \in Process, StoreFails(q) PROVE CompleteStep(p)
  BY <1>3, OtherEnd DEF StoreFails, jobVars
<1>4. ASSUME NEW q \in Process, StageFails(q) PROVE CompleteStep(p)
  BY <1>4, OtherEnd DEF StageFails, Finish
<1>5. ASSUME NEW q \in Process, Dies(q) PROVE CompleteStep(p)
  BY <1>5, OtherEnd DEF Dies, Finish
<1>6. CASE StoreDamage
  BY <1>6, OtherEnd DEF StoreDamage, jobVars
<1>7. CASE UNCHANGED vars
  BY <1>7, OtherEnd DEF vars, jobVars
<1>8. QED
  BY <1>1, <1>2, <1>3, <1>4, <1>5, <1>6, <1>7 DEF Next

\* A run that reports COMPLETE has switched the canonical store to the confirmed publication,
\* with nothing pending: whatever other runs and failures did in the meantime, what it read
\* of the ledger before the conversion was still so (jquants_single_day_ingestion.py).
THEOREM CompleteTrue == Spec => CompleteIsTrue
<1>1. IInv /\ [Next]_vars => [\A p \in Process : CompleteStep(p)]_vars
  BY CompleteSteps
<1>2. QED
  BY <1>1, AlwaysIInv, PTL DEF Spec, CompleteIsTrue, CompleteStep
=============================================================================
