--------------------------- MODULE BacktestSnapshot ---------------------------
(* A backtest keeps the inputs it was run with, to be run again later on the same  *)
(* ones: everything it fetched and the filtering files are copied, of the minute   *)
(* bars only the digest. The sources go on changing, a save may fail or the        *)
(* program die in it, a kept file may be damaged or lost.                          *)
EXTENDS Integers, FiniteSets, Sequences, SequencesExt, Functions

CONSTANTS
    FilteringDate,      \* days that may have a filtering file
    MaxChanges,         \* changes of the sources, and damages
    MaxTests            \* runs

ASSUME SnapshotAssumption == MaxChanges \in Nat /\ MaxTests \in Nat

VARIABLES
    changesLeft, testsLeft,
    published,          \* filtering file of a day: its version, 0 without one
    feed,               \* version of what is fetched or read from other files
    minuteBars,         \* version of the minute bars
    snapshots,          \* in the order of their names: [kept, digest, damaged]
    partial,            \* the temporary directory: what is in it
    loaded,             \* of a snapshot: what was read of it when it was checked
    testPhase,          \* "idle", "read", "save", "seal", "simulate"
    test,               \* of the run: [mode, fine, compared, of], of # 0: a run of that snapshot
    unread,             \* inputs still to be obtained
    inputs,             \* obtained: name -> version, "days" -> day -> version
    testResult             \* of the run: [snapshot, warned, shifted, used]

snapshotVars == <<changesLeft, testsLeft, published, feed, minuteBars, snapshots, partial, loaded,
                  testPhase, test, unread, inputs, testResult>>

InputName == {"days", "symbols", "closes", "history", "ohlc", "regime"}
NoInput == [n \in InputName |-> <<>>]
NoResult == [snapshot |-> 0, warned |-> FALSE, shifted |-> FALSE, used |-> <<>>]
Idle == [mode |-> "fixed", fine |-> FALSE, compared |-> FALSE, of |-> 0]

\* What a run of a mode obtains, in this order.
Needs(t) ==
    LET dated == <<"history", "ohlc">> \o (IF t.compared THEN <<"regime">> ELSE <<>>)
    IN  CASE t.mode = "filtering" -> <<"days">> \o dated
          [] t.mode = "minute" -> <<"symbols", "closes">> \o dated
          [] t.mode = "fixed" -> <<"symbols", "closes">>

\* The filtering files there are.
FilesNow == Restrict(published, {d \in FilteringDate : published[d] # 0})

-----------------------------------------------------------------------------

SnapshotInit ==
    /\ changesLeft = MaxChanges /\ testsLeft = MaxTests
    /\ published = [d \in FilteringDate |-> 1] /\ feed = 1 /\ minuteBars = 1
    /\ snapshots = <<>> /\ partial = NoInput /\ loaded = NoInput
    /\ testPhase = "idle" /\ test = Idle /\ unread = <<>> /\ inputs = NoInput /\ testResult = NoResult

sourceVars == <<published, feed, minuteBars>>

\* A source changes; what a run has read of it already is no longer what it will copy or
\* read again: the filtering files until they are copied, the minute bars from their digest on.
Shifts(which) ==
    testResult' = [testResult EXCEPT !.shifted =
        \/ @
        \/ which = "days" /\ test.of = 0 /\ inputs["days"] # <<>> /\ testPhase \in {"read", "save"}
        \/ which = "minutes" /\ test.fine /\ testPhase \in {"seal", "simulate"}]

SourceChanges ==
    /\ changesLeft > 0
    /\ changesLeft' = changesLeft - 1
    /\ \/ \E d \in FilteringDate, v \in {0, 2} :
            published' = [published EXCEPT ![d] = v] /\ Shifts("days") /\ UNCHANGED <<feed, minuteBars>>
       \/ feed' = feed + 1 /\ UNCHANGED <<published, minuteBars, testResult>>
       \/ minuteBars' = minuteBars + 1 /\ Shifts("minutes") /\ UNCHANGED <<published, feed>>
    /\ UNCHANGED <<testsLeft, snapshots, partial, loaded, testPhase, test, unread, inputs>>

\* A kept file is damaged or replaced by another.
FileDamaged(k) ==
    /\ changesLeft > 0
    /\ changesLeft' = changesLeft - 1
    /\ \E n \in InputName :
           /\ snapshots[k].kept[n] # <<>>
           /\ snapshots' = [snapshots EXCEPT ![k] = [@ EXCEPT !.damaged = TRUE, !.kept[n] = <<0>>]]
           /\ testResult' = [testResult EXCEPT !.shifted =
                                @ \/ (n = "days" /\ test.of = k /\ testPhase = "read")]
    /\ UNCHANGED <<testsLeft, sourceVars, partial, loaded, testPhase, test, unread, inputs>>

StartTest(mode, fine, compared) ==
    /\ testPhase = "idle" /\ testsLeft > 0
    /\ mode = "minute" => fine
    /\ mode = "fixed" => ~fine /\ ~compared
    /\ testsLeft' = testsLeft - 1
    /\ test' = [mode |-> mode, fine |-> fine, compared |-> compared, of |-> 0]
    /\ testPhase' = "read"
    /\ unread' = Needs(test') /\ inputs' = NoInput
    /\ testResult' = NoResult
    /\ UNCHANGED <<changesLeft, sourceVars, snapshots, partial, loaded>>

\* Mutant: whatever the directory holds is taken.
LoadableUnchecked(k) == TRUE

\* Every kept file is compared with its digest before it is read.
Loadable(k) == ~snapshots[k].damaged

\* A run of a snapshot takes the arguments kept with it; the comparison may be asked for in addition.
StartReplay(k, compared) ==
    /\ testPhase = "idle" /\ testsLeft > 0
    /\ testsLeft' = testsLeft - 1
    /\ IF Loadable(k)
       THEN /\ test' = [snapshots[k].terms EXCEPT !.of = k, !.compared = @ \/ compared]
            /\ testPhase' = "read" /\ unread' = Needs(test')
            /\ loaded' = snapshots[k].kept
       ELSE UNCHANGED <<test, testPhase, unread, loaded>>
    /\ inputs' = NoInput
    /\ testResult' = [NoResult EXCEPT !.snapshot = IF Loadable(k) THEN k ELSE 0]
    /\ UNCHANGED <<changesLeft, sourceVars, snapshots, partial>>

\* Mutant: the filtering files are read where they always are.
StoredLiveDays(k, name) == IF name = "days" THEN FilesNow ELSE loaded[name]

\* What is kept of an input; only the filtering files are read when they are needed.
Stored(k, name) == IF name = "days" THEN snapshots[k].kept[name] ELSE loaded[name]

\* The next input, live or out of the snapshot. The filtering files of the dates are all of
\* the directory: no other ones are kept.
Obtain ==
    /\ testPhase = "read" /\ unread # <<>>
    /\ LET name == Head(unread)
           taken == IF test.of # 0 THEN Stored(test.of, name)
                    ELSE IF name = "days" THEN FilesNow ELSE <<feed>>
       IN  IF test.of # 0 /\ name # "days" /\ taken = <<>>
           THEN \* not kept: the run ends
                /\ testPhase' = "idle" /\ test' = Idle /\ unread' = <<>> /\ inputs' = NoInput
                /\ testResult' = NoResult
           ELSE /\ inputs' = [inputs EXCEPT ![name] = taken]
                /\ unread' = Tail(unread)
                /\ UNCHANGED <<testPhase, test, testResult>>
    /\ UNCHANGED <<changesLeft, testsLeft, sourceVars, snapshots, partial, loaded>>

\* Fetching raises: the run ends.
ObtainRaises ==
    /\ testPhase = "read" /\ unread # <<>> /\ test.of = 0
    /\ testPhase' = "idle" /\ test' = Idle /\ unread' = <<>> /\ inputs' = NoInput /\ testResult' = NoResult
    /\ UNCHANGED <<changesLeft, testsLeft, sourceVars, snapshots, partial, loaded>>

\* Of the minute bars of the tested days.
Digest(t, days) == IF t.fine /\ (t.mode = "filtering" => days # <<>>) THEN minuteBars ELSE 0

\* All inputs are there: a live run begins to save, first the digest of the minute bars; a run
\* of a snapshot compares that one with the minute bars of now.
Checkpoint ==
    /\ testPhase = "read" /\ unread = <<>>
    /\ IF test.of # 0
       THEN /\ testPhase' = "simulate"
            /\ testResult' = [testResult EXCEPT !.warned =
                                 Digest(test, inputs["days"]) # snapshots[test.of].digest]
       ELSE testPhase' = "save" /\ UNCHANGED testResult
    /\ UNCHANGED <<changesLeft, testsLeft, sourceVars, snapshots, partial, loaded, test, unread, inputs>>

\* Mutant: what a run that died left behind stays.
EmptiedNever == partial

\* What a run that died left behind is removed.
Emptied == NoInput

\* The filtering files of the tested dates, as they are now, are those to be copied.
Copied == Restrict(FilesNow, DOMAIN FilesNow \cap DOMAIN inputs["days"])

\* Files written over what the directory holds.
WrittenOver(files, rest) ==
    [d \in DOMAIN files \cup DOMAIN rest |-> IF d \in DOMAIN files THEN files[d] ELSE rest[d]]

\* Everything is written to the temporary directory.
WriteInputs ==
    /\ testPhase = "save"
    /\ partial' = [n \in InputName |->
                      IF inputs[n] = <<>> THEN Emptied[n]
                      ELSE IF n = "days" THEN WrittenOver(Copied, Emptied[n]) ELSE inputs[n]]
    /\ testResult' = [testResult EXCEPT !.used = <<Digest(test, inputs["days"])>>]
    /\ testPhase' = "seal"
    /\ UNCHANGED <<changesLeft, testsLeft, sourceVars, snapshots, loaded, test, unread, inputs>>

\* The manifest is written and the directory gets its name, the next free one.
Seal ==
    /\ testPhase = "seal"
    /\ snapshots' = Append(snapshots, [kept |-> partial, digest |-> testResult.used[1], damaged |-> FALSE,
                                       terms |-> [test EXCEPT !.of = 0], result |-> <<>>])
    /\ partial' = NoInput
    /\ testResult' = [testResult EXCEPT !.snapshot = Len(snapshots'), !.used = <<>>]
    /\ testPhase' = "simulate"
    /\ UNCHANGED <<changesLeft, testsLeft, sourceVars, loaded, test, unread, inputs>>

\* A failing save removes what it wrote, if it came to writing; the run goes on without a snapshot.
SnapshotFails ==
    /\ testPhase \in {"save", "seal"}
    /\ partial' \in (IF testPhase = "seal" THEN {NoInput} ELSE {NoInput, partial})
    /\ testPhase' = "simulate"
    /\ testResult' = [testResult EXCEPT !.used = <<>>]
    /\ UNCHANGED <<changesLeft, testsLeft, sourceVars, snapshots, loaded, test, unread, inputs>>

\* The simulation uses the inputs, and reads the minute bars of now.
Simulate ==
    /\ testPhase = "simulate"
    /\ testResult' = [testResult EXCEPT !.used = <<inputs, Digest(test, inputs["days"])>>]
    /\ snapshots' = IF testResult.snapshot # 0 /\ test.of = 0
                    THEN [snapshots EXCEPT ![testResult.snapshot].result =
                             IF testResult.shifted THEN <<>> ELSE testResult'.used]
                    ELSE snapshots
    /\ testPhase' = "idle" /\ unread' = <<>> /\ inputs' = NoInput
    /\ UNCHANGED <<changesLeft, testsLeft, sourceVars, partial, loaded, test>>

TestDies ==
    /\ testPhase # "idle"
    /\ testPhase' = "idle" /\ test' = Idle /\ unread' = <<>> /\ inputs' = NoInput /\ testResult' = NoResult
    /\ UNCHANGED <<changesLeft, testsLeft, sourceVars, snapshots, partial, loaded>>

SnapshotNext ==
    \/ SourceChanges
    \/ \E k \in DOMAIN snapshots : FileDamaged(k)
    \/ \E mode \in {"filtering", "minute", "fixed"}, fine, compared \in BOOLEAN :
           StartTest(mode, fine, compared)
    \/ \E k \in DOMAIN snapshots, compared \in BOOLEAN : StartReplay(k, compared)
    \/ Obtain \/ ObtainRaises \/ Checkpoint
    \/ WriteInputs \/ Seal \/ SnapshotFails
    \/ Simulate \/ TestDies

SnapshotSpec == SnapshotInit /\ [][SnapshotNext]_snapshotVars

-----------------------------------------------------------------------------
(* Properties *)

SnapshotTypeOK ==
    /\ changesLeft \in 0..MaxChanges /\ testsLeft \in 0..MaxTests
    /\ testPhase \in {"idle", "read", "save", "seal", "simulate"}
    /\ test.of \in 0..Len(snapshots) /\ testResult.snapshot \in 0..Len(snapshots)
    /\ Len(snapshots) <= MaxTests

\* A run of a snapshot has ended without an error.
Repeated == testPhase = "idle" /\ test.of # 0 /\ testResult.used # <<>>

\* A run of a snapshot that ends without an error and was not warned of its minute bars has used
\* what the run that kept it used, comparison aside - unless a filtering file changed between
\* being read and being copied, or the minute bars between their digest and the simulation.
SameInputs ==
    Repeated /\ ~testResult.warned /\ ~testResult.shifted =>
        LET first == snapshots[test.of].result
        IN  first # <<>> =>
                /\ testResult.used[2] = first[2]
                /\ \A n \in InputName \ {"regime"} : testResult.used[1][n] = first[1][n]
                /\ first[1]["regime"] # <<>> => testResult.used[1]["regime"] = first[1]["regime"]

\* A kept snapshot has everything its kind of run needs, whatever was left behind by others.
Whole ==
    \A k \in DOMAIN snapshots :
        /\ \A n \in Range(Needs(snapshots[k].terms)) \ {"days"} : snapshots[k].kept[n] # <<>>
        /\ snapshots[k].terms.mode # "filtering" => snapshots[k].kept["days"] = <<>>
        /\ snapshots[k].kept["regime"] # <<>> => snapshots[k].terms.compared

\* The two together.
ReplaySound == SameInputs /\ Whole
=============================================================================
