-------------------------- MODULE DaySelections_proofs --------------------------
(***************************************************************************)
(* Theorems about the programs that choose the symbols of a day: the files   *)
(* and the lock between them (MarketDay), the screening (Screening), the      *)
(* filtering of the morning (Filtering) and the one of noon                   *)
(* (MiddayFiltering), for any constants; and about the programs of a day      *)
(* composed (MCDay), with the theorems of DayPrograms_proofs.                 *)
(***************************************************************************)
EXTENDS MCDay, DayPrograms_proofs, FiniteSetTheorems, WellFoundedInduction, TLAPS

-----------------------------------------------------------------------------
(* The market programs and their files *)

ProgramPhase == {"off", "begun", "writing", "selecting", "preflight", "trading"}
ScreeningFile == [kind : {"screening"}, day : PastDate, number : Nat, full : BOOLEAN]
LoadedFile == ScreeningFile \cup {Absent}
SelectionFile == [kind : {"selection"}, day : PastDate, number : Nat, full : BOOLEAN,
                  by : Filters, of : LoadedFile]

FilesType ==
    /\ screened \in [PastDate -> LoadedFile \cup {Torn}]
    /\ filtered \in [PastDate -> SelectionFile \cup {Absent, Torn}]
    /\ basis \in LoadedFile
    /\ writes \in Nat

ProgramsType ==
    /\ date \in Date
    /\ phase \in [Program -> ProgramPhase]
    /\ target \in [Program -> PastDate]

\* Who has the lock is who is at work.
LockInv == \A p \in Program : phase[p] # "off" <=> holder = p

\* A program that is at work has a date, the trading that of today.
TargetInv ==
    /\ \A p \in Program : phase[p] # "off" => target[p] \in Date
    /\ phase["trading"] # "off" => target["trading"] = date

\* A file is in the place of its day.
PlacedInv ==
    /\ \A d \in PastDate : screened[d].kind = "screening" => screened[d].day = d
    /\ \A d \in PastDate : filtered[d].kind = "selection" => filtered[d].day = d

\* The filtering has loaded the screening of the business day before.
BasisInv ==
    phase["filtering"] \in {"selecting", "writing"} /\ Lists(basis) =>
        basis.day = target["filtering"] - 1

\* A selection that lists symbols goes back to a screening that does, that of the
\* filtering to the business day before.
OriginInv ==
    \A d \in PastDate :
        Lists(filtered[d]) =>
            /\ Lists(filtered[d].of)
            /\ filtered[d].by = "filtering" => filtered[d].of.day = d - 1

\* What the trading has loaded is what the file of today still holds.
LoadedInv ==
    /\ phase["trading"] \in {"preflight", "trading"} =>
           preflight = filtered[date] /\ Lists(filtered[date])
    /\ phase["trading"] = "trading" => watched = preflight

MarketIInv == FilesType /\ ProgramsType /\ LockInv /\ TargetInv /\ PlacedInv /\ BasisInv
        /\ OriginInv /\ LoadedInv

-----------------------------------------------------------------------------
(* About files and programs *)

LEMMA FileKinds ==
    /\ Absent.kind = "absent" /\ Torn.kind = "torn"
    /\ Absent # Torn
    /\ ~Lists(Absent) /\ ~Lists(Torn)
    /\ \A f \in ScreeningFile : f.kind = "screening" /\ f # Absent /\ f # Torn
    /\ \A f \in SelectionFile : f.kind = "selection" /\ f # Absent /\ f # Torn
BY DEF Absent, Torn, Lists, ScreeningFile, SelectionFile

LEMMA ScreeningMade ==
    ASSUME NEW day \in PastDate, NEW number \in Nat, NEW full \in BOOLEAN
    PROVE  /\ Screening(day, number, full) \in ScreeningFile
           /\ Screening(day, number, full).day = day
           /\ Screening(day, number, full).kind = "screening"
BY DEF Screening, ScreeningFile

LEMMA SelectionMade ==
    ASSUME NEW day \in PastDate, NEW number \in Nat, NEW full \in BOOLEAN, NEW by \in Filters,
           NEW of \in LoadedFile
    PROVE  /\ Selection(day, number, full, by, of) \in SelectionFile
           /\ Selection(day, number, full, by, of).day = day
           /\ Selection(day, number, full, by, of).by = by
           /\ Selection(day, number, full, by, of).of = of
           /\ Lists(Selection(day, number, full, by, of)) <=> full
BY DEF Selection, SelectionFile, Lists

LEMMA Dates == Date \subseteq PastDate /\ 0 \in PastDate /\ 1 \in Date
               /\ \A d \in Date : d - 1 \in PastDate
BY MarketDayAssumption DEF Date, PastDate

\* A nonempty set of days has a last one.
LEMMA LastDay ==
    ASSUME NEW S, S \subseteq PastDate, S # {}
    PROVE  \E d \in S : \A e \in S : e <= d
<1> DEFINE Left == {MaxDate - d : d \in S}
<1>1. Left \subseteq Nat /\ Left # {}
  <2>1. \A d \in PastDate : MaxDate - d \in Nat
    BY MarketDayAssumption DEF PastDate
  <2>2. PICK d \in S : TRUE
    OBVIOUS
  <2>3. MaxDate - d \in Left
    OBVIOUS
  <2>4. QED
    BY <2>1, <2>3
<1> DEFINE Less == {ss \in Nat \X Nat : ss[1] < ss[2]}
<1>2. IsWellFoundedOn(Less, Nat)
  BY NatLessThanWellFounded DEF OpToRel
<1>3. PICK d1 \in Left : \A d2 \in Left : ~(d2 < d1)
  <2>1. PICK d1 \in Left : \A d2 \in Left : ~(<<d2, d1>> \in Less)
    <3> HIDE DEF Left, Less
    <3> QED
      BY <1>1, <1>2, WFMin
  <2>2. QED
    BY <1>1, <2>1
<1>4. PICK d \in S : d1 = MaxDate - d
  OBVIOUS
<1>5. \A e \in S : ~(MaxDate - e < MaxDate - d)
  BY <1>3, <1>4
<1>6. QED
  BY <1>5, MarketDayAssumption DEF PastDate

\* load_latest finds the last day that has a file.
LEMMA LatestIsLast ==
    ASSUME NEW d \in PastDate, filtered[d] # Absent
    PROVE  Latest \in PastDate
<1> DEFINE S == {e \in PastDate : filtered[e] # Absent}
<1>1. \E m \in S : \A e \in S : e <= m
  <2>1. S \subseteq PastDate /\ S # {}
    OBVIOUS
  <2> HIDE DEF S
  <2> QED
    BY <2>1, LastDay
<1>2. \E m \in PastDate : filtered[m] # Absent /\ \A e \in PastDate : filtered[e] # Absent => e <= m
  BY <1>1
<1>3. QED
  BY <1>2 DEF Latest

-----------------------------------------------------------------------------
(* The invariant holds initially and is kept by each action. *)

LEMMA MarketInitially == MarketDayInit => MarketIInv
<1> SUFFICES ASSUME MarketDayInit PROVE MarketIInv
  OBVIOUS
<1>1. Screening(0, 0, TRUE) \in ScreeningFile /\ Screening(0, 0, TRUE).day = 0
  BY ScreeningMade, Dates
<1>2. FilesType
  BY <1>1, Dates DEF MarketDayInit, FilesType, LoadedFile
<1>3. ProgramsType
  BY Dates DEF MarketDayInit, ProgramsType, ProgramPhase
<1>4. LockInv
  BY DEF MarketDayInit, LockInv, Program
<1>5. TargetInv /\ BasisInv /\ LoadedInv
  BY DEF MarketDayInit, TargetInv, BasisInv, LoadedInv, Program
<1>6. PlacedInv /\ OriginInv
  BY <1>1, FileKinds DEF MarketDayInit, PlacedInv, OriginInv
<1>7. QED
  BY <1>2, <1>3, <1>4, <1>5, <1>6 DEF MarketIInv

\* Leaving gives back the lock that the program has, and only that.
LEMMA Leaving ==
    ASSUME ProgramsType, LockInv, TargetInv, NEW p \in Program, phase[p] # "off", Leave(p), date' = date
    PROVE  /\ ProgramsType' /\ LockInv' /\ TargetInv'
           /\ phase' = [q \in Program |-> "off"]
<1>1. holder = p /\ holder' = "none"
  BY DEF LockInv, Leave
<1>2. \A q \in Program : q # p => phase[q] = "off"
  BY <1>1 DEF LockInv
<1>3. phase' = [q \in Program |-> "off"]
  BY <1>2 DEF Leave, ProgramsType
<1>4. ProgramsType'
  BY <1>3, Dates DEF Leave, ProgramsType, ProgramPhase
<1>5. LockInv'
  BY <1>1, <1>3 DEF LockInv, Program
<1>6. TargetInv'
  BY <1>3 DEF TargetInv, Program
<1>7. QED
  BY <1>3, <1>4, <1>5, <1>6

LEMMA Starting ==
    ASSUME MarketIInv, NEW p \in Program, Start(p)
    PROVE  MarketIInv'
<1> USE DEF MarketIInv
<1>1. PICK d \in Date : /\ target' = [target EXCEPT ![p] = d]
                        /\ p \notin {"screening", "filtering"} => d = date
  <2>1. date \in Date
    BY DEF ProgramsType
  <2>2. QED
    BY <2>1 DEF Start
<1>2. holder = "none" /\ holder' = p
  BY DEF Start, Acquire
<1>3. phase = [q \in Program |-> "off"]
  BY <1>2 DEF LockInv, ProgramsType, Program
<1>4. phase' = [q \in Program |-> IF q = p THEN "begun" ELSE "off"]
  BY <1>3 DEF Start
<1>5. FilesType' /\ PlacedInv' /\ OriginInv'
  BY DEF FilesType, PlacedInv, OriginInv, Start
<1>6. ProgramsType'
  <2>1. phase' \in [Program -> ProgramPhase]
    BY <1>4 DEF ProgramPhase
  <2>2. target' \in [Program -> PastDate]
    BY <1>1, Dates DEF ProgramsType
  <2>3. QED
    BY <2>1, <2>2 DEF ProgramsType, Start
<1>7. LockInv'
  BY <1>2, <1>4 DEF LockInv, Program
<1>8. TargetInv'
  BY <1>1, <1>4 DEF TargetInv, Program, ProgramsType, Start
<1>9. BasisInv' /\ LoadedInv'
  BY <1>4 DEF BasisInv, LoadedInv, Program
<1>10. QED
  BY <1>5, <1>6, <1>7, <1>8, <1>9

LEMMA Stopping ==
    ASSUME MarketIInv, NEW p \in Program, Stop(p)
    PROVE  MarketIInv'
<1> USE DEF MarketIInv
<1>1. ProgramsType' /\ LockInv' /\ TargetInv' /\ phase' = [q \in Program |-> "off"]
  BY Leaving DEF Stop
<1>2. FilesType' /\ PlacedInv' /\ OriginInv'
  BY DEF FilesType, PlacedInv, OriginInv, Stop, Forget, LoadedFile
<1>3. BasisInv' /\ LoadedInv'
  BY <1>1 DEF BasisInv, LoadedInv, Program
<1>4. QED
  BY <1>1, <1>2, <1>3

\* A step of the program at work, which keeps the lock and its date.
LEMMA AtWork ==
    ASSUME ProgramsType, LockInv, TargetInv, NEW p \in Program, phase[p] # "off",
           NEW h \in ProgramPhase \ {"off"}, phase' = [phase EXCEPT ![p] = h],
           UNCHANGED <<date, holder, target>>
    PROVE  /\ ProgramsType' /\ LockInv' /\ TargetInv'
           /\ phase' = [q \in Program |-> IF q = p THEN h ELSE "off"]
<1>1. \A q \in Program : q # p => phase[q] = "off"
  BY DEF LockInv
<1>2. phase' = [q \in Program |-> IF q = p THEN h ELSE "off"]
  BY <1>1 DEF ProgramsType
<1>3. ProgramsType'
  BY <1>2 DEF ProgramsType
<1>4. LockInv'
  BY <1>2 DEF LockInv
<1>5. TargetInv'
  BY <1>2 DEF TargetInv, Program
<1>6. QED
  BY <1>2, <1>3, <1>4, <1>5

LEMMA TearingScreening ==
    ASSUME MarketIInv, TearScreening
    PROVE  MarketIInv'
<1> USE DEF MarketIInv
<1>1. "screening" \in Program /\ "writing" \in ProgramPhase \ {"off"}
  BY DEF Program, ProgramPhase
<1>2. /\ ProgramsType' /\ LockInv' /\ TargetInv'
      /\ phase' = [q \in Program |-> IF q = "screening" THEN "writing" ELSE "off"]
  BY <1>1, AtWork DEF TearScreening
<1>3. FilesType'
  BY DEF FilesType, TearScreening
<1>4. PlacedInv' /\ OriginInv'
  BY FileKinds DEF FilesType, PlacedInv, OriginInv, TearScreening
<1>5. BasisInv' /\ LoadedInv'
  BY <1>2 DEF BasisInv, LoadedInv, Program
<1>6. QED
  BY <1>2, <1>3, <1>4, <1>5

LEMMA WritingScreening ==
    ASSUME MarketIInv, WriteScreening
    PROVE  MarketIInv'
<1> USE DEF MarketIInv
<1>1. "screening" \in Program
  BY DEF Program
<1>2. /\ ProgramsType' /\ LockInv' /\ TargetInv'
      /\ phase' = [q \in Program |-> "off"]
  BY <1>1, Leaving DEF WriteScreening
<1> DEFINE day == target["screening"]
<1>3. PICK full \in BOOLEAN : screened' = [screened EXCEPT ![day] = Screening(day, writes + 1, full)]
  BY DEF WriteScreening
<1>4. day \in PastDate /\ writes + 1 \in Nat
  BY <1>1 DEF ProgramsType, FilesType
<1>5. /\ Screening(day, writes + 1, full) \in ScreeningFile
      /\ Screening(day, writes + 1, full).day = day
  BY <1>4, ScreeningMade
<1>6. FilesType'
  BY <1>3, <1>4, <1>5 DEF FilesType, WriteScreening, LoadedFile
<1>7. PlacedInv' /\ OriginInv'
  BY <1>3, <1>4, <1>5 DEF FilesType, PlacedInv, OriginInv, WriteScreening
<1>8. BasisInv' /\ LoadedInv'
  BY <1>2 DEF BasisInv, LoadedInv, Program
<1>9. QED
  BY <1>2, <1>6, <1>7, <1>8

LEMMA LoadingScreening ==
    ASSUME MarketIInv, NEW p \in Filters, LoadScreening(p)
    PROVE  MarketIInv'
<1> USE DEF MarketIInv
<1>1. p \in Program /\ "selecting" \in ProgramPhase \ {"off"}
  BY DEF Program, ProgramPhase, Filters
<1>2. /\ ProgramsType' /\ LockInv' /\ TargetInv'
      /\ phase' = [q \in Program |-> IF q = p THEN "selecting" ELSE "off"]
  BY <1>1, AtWork DEF LoadScreening
<1>3. PICK d \in Source(p) : screened[d] # Torn /\ basis' = screened[d]
  BY DEF LoadScreening
<1>4. d \in PastDate /\ (p = "filtering" => d = target[p] - 1)
  <2>1. target[p] \in Date
    BY <1>1 DEF TargetInv, LoadScreening
  <2>2. QED
    BY <2>1, Dates DEF Source
<1>5. FilesType'
  BY <1>3, <1>4 DEF FilesType, LoadScreening
<1>6. PlacedInv' /\ OriginInv'
  BY DEF PlacedInv, OriginInv, LoadScreening
<1>7. BasisInv'
  <2>1. SUFFICES ASSUME p = "filtering", Lists(basis') PROVE basis'.day = target[p] - 1
    BY <1>2 DEF BasisInv, Program, LoadScreening
  <2>2. screened[d] \in ScreeningFile
    BY <1>3, <1>4, <2>1, FileKinds DEF FilesType, LoadedFile
  <2>3. QED
    BY <1>3, <1>4, <2>1, <2>2, FileKinds DEF PlacedInv
<1>8. LoadedInv'
  BY <1>2 DEF LoadedInv, Program, Filters
<1>9. QED
  BY <1>2, <1>5, <1>6, <1>7, <1>8

LEMMA TearingSelection ==
    ASSUME MarketIInv, NEW p \in Filters, TearSelection(p)
    PROVE  MarketIInv'
<1> USE DEF MarketIInv
<1>1. p \in Program /\ "writing" \in ProgramPhase \ {"off"}
  BY DEF Program, ProgramPhase, Filters
<1>2. /\ ProgramsType' /\ LockInv' /\ TargetInv'
      /\ phase' = [q \in Program |-> IF q = p THEN "writing" ELSE "off"]
  BY <1>1, AtWork DEF TearSelection
<1>3. FilesType'
  BY DEF FilesType, TearSelection
<1>4. PlacedInv' /\ OriginInv'
  BY FileKinds DEF FilesType, PlacedInv, OriginInv, TearSelection
<1>5. BasisInv'
  BY <1>2 DEF BasisInv, Program, TearSelection
<1>6. LoadedInv'
  BY <1>2 DEF LoadedInv, Program, Filters
<1>7. QED
  BY <1>2, <1>3, <1>4, <1>5, <1>6

LEMMA WritingSelection ==
    ASSUME MarketIInv, NEW p \in Filters, WriteSelection(p)
    PROVE  MarketIInv'
<1> USE DEF MarketIInv
<1>1. p \in Program
  BY DEF Program, Filters
<1>2. /\ ProgramsType' /\ LockInv' /\ TargetInv'
      /\ phase' = [q \in Program |-> "off"]
  BY <1>1, Leaving DEF WriteSelection
<1> DEFINE day == target[p]
           new(full) == Selection(day, writes + 1, full, p, basis)
<1>3. PICK full \in BOOLEAN : /\ filtered' = [filtered EXCEPT ![day] = new(full)]
                              /\ full => Lists(basis)
  BY DEF WriteSelection
<1>4. day \in PastDate /\ writes + 1 \in Nat /\ basis \in LoadedFile
  BY <1>1 DEF ProgramsType, FilesType
<1>5. /\ new(full) \in SelectionFile
      /\ new(full).day = day /\ new(full).by = p /\ new(full).of = basis
      /\ Lists(new(full)) <=> full
  BY <1>4, SelectionMade
<1> HIDE DEF new, day
<1>6. FilesType'
  BY <1>3, <1>4, <1>5 DEF FilesType, WriteSelection, LoadedFile
<1>7. PlacedInv'
  BY <1>3, <1>4, <1>5 DEF FilesType, PlacedInv, WriteSelection
<1>8. OriginInv'
  <2>1. p = "filtering" /\ full => basis.day = day - 1
    BY <1>3 DEF BasisInv, WriteSelection, day
  <2>2. QED
    BY <1>3, <1>4, <1>5, <2>1 DEF FilesType, OriginInv
<1>9. BasisInv' /\ LoadedInv'
  BY <1>2 DEF BasisInv, LoadedInv, Program
<1>10. QED
  BY <1>2, <1>6, <1>7, <1>8, <1>9

LEMMA LoadingPreflight ==
    ASSUME MarketIInv, LoadPreflight
    PROVE  MarketIInv'
<1> USE DEF MarketIInv
<1>1. "trading" \in Program /\ "preflight" \in ProgramPhase \ {"off"}
  BY DEF Program, ProgramPhase
<1>2. /\ ProgramsType' /\ LockInv' /\ TargetInv'
      /\ phase' = [q \in Program |-> IF q = "trading" THEN "preflight" ELSE "off"]
  BY <1>1, AtWork DEF LoadPreflight
<1>3. FilesType' /\ PlacedInv' /\ OriginInv'
  BY DEF FilesType, PlacedInv, OriginInv, LoadPreflight
<1>4. BasisInv'
  BY <1>2 DEF BasisInv, Program
<1>5. LoadedInv'
  BY <1>2 DEF LoadedInv, TargetInv, Program, LoadPreflight
<1>6. QED
  BY <1>2, <1>3, <1>4, <1>5

\* The last selection is one of today only if it is that of today.
LEMMA LatestOfToday ==
    ASSUME MarketIInv, phase["trading"] = "preflight", OfToday(filtered[Latest])
    PROVE  Latest = date
<1>1. date \in PastDate /\ Lists(filtered[date])
  BY Dates DEF MarketIInv, ProgramsType, LoadedInv
<1>2. Latest \in PastDate
  BY <1>1, FileKinds, LatestIsLast
<1>3. filtered[Latest] \in SelectionFile
  BY <1>2, FileKinds DEF MarketIInv, FilesType, OfToday
<1>4. QED
  BY <1>2, <1>3, FileKinds DEF MarketIInv, PlacedInv, OfToday

LEMMA LoadingWatched ==
    ASSUME MarketIInv, LoadWatched
    PROVE  MarketIInv'
<1> USE DEF MarketIInv
<1>1. "trading" \in Program /\ "trading" \in ProgramPhase \ {"off"}
  BY DEF Program, ProgramPhase
<1>2. /\ ProgramsType' /\ LockInv' /\ TargetInv'
      /\ phase' = [q \in Program |-> IF q = "trading" THEN "trading" ELSE "off"]
  BY <1>1, AtWork DEF LoadWatched
<1>3. FilesType' /\ PlacedInv' /\ OriginInv'
  BY DEF FilesType, PlacedInv, OriginInv, LoadWatched, Latest
<1>4. BasisInv'
  BY <1>2 DEF BasisInv, Program
<1>5. LoadedInv'
  BY <1>2, LatestOfToday DEF LoadedInv, Program, LoadWatched
<1>6. QED
  BY <1>2, <1>3, <1>4, <1>5

LEMMA ChangingDate ==
    ASSUME MarketIInv, NextDate
    PROVE  MarketIInv'
<1>1. date + 1 \in Date
  BY MarketDayAssumption DEF MarketIInv, ProgramsType, NextDate, Date
<1>2. ProgramsType' /\ LockInv' /\ TargetInv'
  BY <1>1 DEF MarketIInv, ProgramsType, LockInv, TargetInv, NextDate
<1>3. FilesType' /\ PlacedInv' /\ OriginInv' /\ BasisInv' /\ LoadedInv'
  BY DEF MarketIInv, FilesType, PlacedInv, OriginInv, BasisInv, LoadedInv, NextDate
<1>4. QED
  BY <1>2, <1>3 DEF MarketIInv

LEMMA Standing ==
    ASSUME MarketIInv, UNCHANGED marketVars
    PROVE  MarketIInv'
BY DEF MarketIInv, FilesType, ProgramsType, LockInv, TargetInv, PlacedInv, BasisInv, OriginInv, LoadedInv,
       marketVars

\* Every step of every program keeps the invariant.
LEMMA MarketInductive == MarketIInv /\ [MarketDayNext]_marketVars => MarketIInv'
<1> SUFFICES ASSUME MarketIInv, [MarketDayNext]_marketVars PROVE MarketIInv'
  OBVIOUS
<1>1. ASSUME NEW p \in Program, Start(p) PROVE MarketIInv'
  BY <1>1, Starting
<1>2. ASSUME NEW p \in Program, Stop(p) PROVE MarketIInv'
  BY <1>2, Stopping
<1>3. CASE TearScreening \/ WriteScreening
  BY <1>3, TearingScreening, WritingScreening
<1>4. ASSUME NEW p \in Filters, LoadScreening(p) PROVE MarketIInv'
  BY <1>4, LoadingScreening
<1>5. ASSUME NEW p \in Filters, TearSelection(p) \/ WriteSelection(p) PROVE MarketIInv'
  BY <1>5, TearingSelection, WritingSelection
<1>6. CASE LoadPreflight \/ LoadWatched
  BY <1>6, LoadingPreflight, LoadingWatched
<1>7. CASE NextDate
  BY <1>7, ChangingDate
<1>8. CASE UNCHANGED marketVars
  BY <1>8, Standing
<1>9. QED
  BY <1>1, <1>2, <1>3, <1>4, <1>5, <1>6, <1>7, <1>8 DEF MarketDayNext

\* What the safety does not need: who a holder may be, what kind of file the trading has loaded,
\* and the bound, which a program that is about to write has not reached.
MarketRest ==
    /\ holder \in Program \cup {"none"}
    /\ {preflight.kind, watched.kind} \subseteq {"absent", "selection"}
    /\ writes \in 0..MaxWrites
    /\ \A p \in Program : phase[p] = "writing" => writes < MaxWrites

LEMMA RestInitially == MarketDayInit => MarketRest
BY MarketDayAssumption, FileKinds DEF MarketDayInit, MarketRest, Program

\* The end of a program, whatever it has written
LEMMA RestLeft ==
    ASSUME MarketIInv, MarketRest, NEW p \in Program, Leave(p)
    PROVE  /\ holder' \in Program \cup {"none"}
           /\ \A q \in Program : phase'[q] = "writing" => q # p /\ phase[q] = "writing"
BY DEF MarketIInv, ProgramsType, MarketRest, Leave

LEMMA RestInductive == MarketIInv /\ MarketRest /\ [MarketDayNext]_marketVars => MarketRest'
<1> SUFFICES ASSUME MarketIInv, MarketRest, [MarketDayNext]_marketVars PROVE MarketRest'
  OBVIOUS
<1>1. phase \in [Program -> ProgramPhase] /\ writes \in Nat /\ MaxWrites \in Nat
  BY MarketDayAssumption DEF MarketIInv, ProgramsType, FilesType
<1>2. ASSUME NEW p \in Program, Start(p) PROVE MarketRest'
  BY <1>1, <1>2 DEF MarketRest, Start, Acquire
<1>3. ASSUME NEW p \in Program, Stop(p) PROVE MarketRest'
  <2>1. /\ holder' \in Program \cup {"none"}
        /\ \A q \in Program : phase'[q] = "writing" => phase[q] = "writing"
    BY <1>3, RestLeft DEF Stop
  <2>2. {preflight'.kind, watched'.kind} \subseteq {"absent", "selection"}
    BY <1>3, FileKinds DEF Stop, Forget, MarketRest
  <2>3. writes' = writes
    BY <1>3 DEF Stop
  <2>4. QED
    BY <2>1, <2>2, <2>3 DEF MarketRest
<1>4. CASE TearScreening
  BY <1>1, <1>4 DEF MarketRest, TearScreening
<1>5. ASSUME NEW p \in Filters, TearSelection(p) PROVE MarketRest'
  BY <1>1, <1>5 DEF MarketRest, TearSelection
<1>6. ASSUME NEW p \in Filters, LoadScreening(p) PROVE MarketRest'
  BY <1>1, <1>6 DEF MarketRest, LoadScreening
<1>7. ASSUME NEW p \in Program, phase[p] = "writing", writes' = writes + 1, Leave(p),
             UNCHANGED <<preflight, watched>>
      PROVE  MarketRest'
  <2>1. /\ holder' \in Program \cup {"none"}
        /\ \A q \in Program : phase'[q] = "writing" => q # p /\ phase[q] = "writing"
    BY <1>7, RestLeft
  <2>2. \A q \in Program : phase[q] = "writing" => q = p
    BY <1>7 DEF MarketIInv, LockInv
  <2>3. writes' \in 0..MaxWrites
    BY <1>1, <1>7 DEF MarketRest
  <2>4. QED
    BY <1>7, <2>1, <2>2, <2>3 DEF MarketRest
<1>8. CASE WriteScreening
  BY <1>7, <1>8 DEF WriteScreening, Program
<1>9. ASSUME NEW p \in Filters, WriteSelection(p) PROVE MarketRest'
  BY <1>7, <1>9 DEF WriteSelection, Program, Filters
<1>10. CASE LoadPreflight
  <2>1. preflight'.kind = "selection"
    <3>1. target["trading"] \in PastDate /\ Lists(filtered[target["trading"]])
      BY <1>10 DEF MarketIInv, ProgramsType, LoadPreflight, Program
    <3>2. filtered[target["trading"]] \in SelectionFile \cup {Absent, Torn}
      BY <3>1 DEF MarketIInv, FilesType
    <3>3. QED
      BY <1>10, <3>1, <3>2, FileKinds DEF LoadPreflight
  <2>2. QED
    BY <1>1, <1>10, <2>1 DEF MarketRest, LoadPreflight
<1>11. CASE LoadWatched
  <2>1. watched' = preflight' /\ preflight' = preflight
    <3>1. MarketIInv' /\ phase'["trading"] = "trading"
      BY <1>1, <1>11, LoadingWatched DEF LoadWatched, Program
    <3>2. QED
      BY <1>11, <3>1 DEF MarketIInv, LoadedInv, LoadWatched
  <2>2. QED
    BY <1>1, <1>11, <2>1 DEF MarketRest, LoadWatched
<1>12. CASE NextDate
  BY <1>12 DEF MarketRest, NextDate
<1>13. CASE UNCHANGED marketVars
  BY <1>13 DEF MarketRest, marketVars
<1>14. QED
  BY <1>2, <1>3, <1>4, <1>5, <1>6, <1>8, <1>9, <1>10, <1>11, <1>12, <1>13 DEF MarketDayNext

LEMMA MarketTyped == MarketIInv /\ MarketRest => MarketDayTypeOK
<1> SUFFICES ASSUME MarketIInv, MarketRest PROVE MarketDayTypeOK
  OBVIOUS
<1>1. FilesType /\ ProgramsType
  BY DEF MarketIInv
<1>2. \A d \in PastDate : /\ screened[d].kind \in {"absent", "torn", "screening"}
                          /\ filtered[d].kind \in {"absent", "torn", "selection"}
  BY <1>1, FileKinds DEF FilesType, LoadedFile
<1>3. basis.kind \in {"absent", "screening"}
  BY <1>1, FileKinds DEF FilesType, LoadedFile
<1>4. date \in Date /\ target \in [Program -> PastDate]
      /\ phase \in [Program -> {"off", "begun", "writing", "selecting", "preflight", "trading"}]
  BY <1>1 DEF ProgramsType, ProgramPhase
<1>5. QED
  BY <1>2, <1>3, <1>4 DEF MarketRest, MarketDayTypeOK

-----------------------------------------------------------------------------
(* What follows from the invariant. *)

\* The holder of the lock is the only one at work.
LEMMA Exclusive ==
    ASSUME MarketIInv
    PROVE  OneAtATime
<1> DEFINE busy == {p \in Program : phase[p] # "off"}
<1>1. busy \in SUBSET {holder}
  BY DEF MarketIInv, LockInv
<1>2. IsFiniteSet({holder}) /\ Cardinality({holder}) = 1
  BY FS_Singleton
<1>3. IsFiniteSet(busy) /\ Cardinality(busy) <= Cardinality({holder})
  <2> HIDE DEF busy
  <2> QED
    BY <1>1, <1>2, FS_Subset
<1>4. QED
  BY <1>2, <1>3 DEF OneAtATime

LEMMA Trusted ==
    ASSUME MarketIInv
    PROVE  SelectionTrusted
<1>1. OneAtATime
  BY Exclusive
<1>2. TradedAsPrepared
  BY DEF MarketIInv, LoadedInv, TradedAsPrepared
<1>3. TradedOfToday
  <2>1. SUFFICES ASSUME phase["trading"] = "trading"
                 PROVE  /\ watched.day = date
                        /\ watched.by = "filtering" => watched.of.day = date - 1
                        /\ Lists(watched.of)
    BY DEF TradedOfToday
  <2>2. date \in PastDate
    BY Dates DEF MarketIInv, ProgramsType
  <2>3. watched = filtered[date] /\ Lists(filtered[date])
    BY <2>1 DEF MarketIInv, LoadedInv
  <2>4. filtered[date].kind = "selection"
    BY <2>2, <2>3, FileKinds DEF MarketIInv, FilesType
  <2>5. QED
    BY <2>2, <2>3, <2>4 DEF MarketIInv, PlacedInv, OriginInv
<1>4. QED
  BY <1>1, <1>2, <1>3 DEF SelectionTrusted

\* For any number of days and of files written, whatever is started again, stopped
\* or started for another day: one program works at a time, and what the trading
\* watches was selected for today from the right screening and is what was prepared.
THEOREM AlwaysTrusted == MarketDaySpec => []SelectionTrusted
<1>1. MarketDaySpec => []MarketIInv
  BY MarketInitially, MarketInductive, PTL DEF MarketDaySpec
<1>2. MarketIInv => SelectionTrusted
  BY Trusted
<1>3. QED
  BY <1>1, <1>2, PTL

-----------------------------------------------------------------------------
(* Screening *)

InBand == {"register", "market", "regulation", "finish", "select"}
AtCandidate == {"market", "regulation"}

\* What a process knows or has filed is what the station answered.
AnsweredChecks(known) ==
    \A i \in Issue, k \in Kind : known[i][k] # "none" => known[i][k] \in answered[i]

\* A check was asked for once for what is known of it, and once for each loss.
AskedInv == \A i \in Issue, k \in Kind :
    asked[i][k] <= lost[i] + (IF checks[i][k] # "none" THEN 1 ELSE 0)

\* Where the run is in its band
PlaceInv ==
    /\ stage \in {"register", "market", "regulation"} => place \in DOMAIN Ranked[level]
    /\ stage = "finish" => place >= 1
    /\ stage = "select" => place > Len(Ranked[level])
    /\ stage = "regulation" => checks[Ranked[level][place]].market \in Market

\* What the candidates were judged by, in the band the run is at
VerdictInv ==
    /\ \A i \in Issue :
          /\ stage \in InBand /\ ~dated /\ verdict[i] = "free" => {"prime", "free"} \subseteq answered[i]
          /\ stage \in InBand /\ verdict[i] = "kept" => Alternate(level)
          /\ stage \in InBand /\ Alternate(level) /\ verdict[i] \in {"restricted", "local"}
                => answered[i] \cap {"local", "restricted"} # {}
    /\ stage \in InBand =>
          \A k \in DOMAIN Ranked[level] : k < place => verdict[Ranked[level][k]] # "none"

\* What is registered, as long as no call about registrations failed
ListedInv ==
    ~leaking =>
        /\ IsFiniteSet(listed) /\ Cardinality(listed) <= BATCH_SIZE
        /\ stage \in {"idle", "ranking", "register", "select", "following"} => listed = {}

ScreeningRest ==
    /\ ScreeningTypeOK
    /\ results \in [Level -> SUBSET (SUBSET Nat)]
    /\ answered \in [Issue -> SUBSET (Market \cup Rule \cup {"failed"})]
    /\ asked \in [Issue -> [Kind -> Nat]]
    /\ lost \in [Issue -> Nat]
    /\ dated => level = 1

ScreeningIInv ==
    /\ ScreeningRest
    /\ AnsweredChecks(checks) /\ AnsweredChecks(checksFile)
    /\ AskedInv
    /\ PlaceInv
    /\ VerdictInv
    /\ ListedInv
    /\ ConfirmedOnly
    /\ UnconfirmedStays

-----------------------------------------------------------------------------
(* Screening: constants and types *)

ScreeningStage == {"idle", "ranking", "register", "market", "regulation", "finish", "select", "cleanup",
          "following"}
Conclusion == {"none", "free", "restricted", "local", "kept"}
Reply == Market \cup Rule \cup {"failed"}

LEMMA ScreeningConstants ==
    /\ BATCH_SIZE \in Nat /\ BATCH_SIZE > 0 /\ MAX_COUNT \in Nat /\ MaxRuns \in Nat
    /\ 1 \in Level /\ Level = 1..Len(Ranked) /\ Len(Ranked) \in Nat
<1>1. /\ Ranked \in Seq(Seq(Issue)) /\ Len(Ranked) > 0
      /\ BATCH_SIZE \in Nat \ {0} /\ MAX_COUNT \in Nat \ {0} /\ MaxRuns \in Nat
  BY ScreeningAssumption
<1>2. QED
  BY <1>1 DEF Level

LEMMA BandType ==
    ASSUME NEW l \in Level
    PROVE  /\ Ranked[l] \in Seq(Issue) /\ Len(Ranked[l]) \in Nat
           /\ DOMAIN Ranked[l] = 1..Len(Ranked[l])
           /\ \A k \in DOMAIN Ranked[l] : Ranked[l][k] \in Issue
<1>1. Ranked \in Seq(Seq(Issue))
  BY ScreeningAssumption
<1>2. Ranked[l] \in Seq(Issue)
  BY <1>1 DEF Level
<1>3. QED
  BY <1>2

LEMMA ScreeningParts ==
    ASSUME ScreeningIInv
    PROVE  /\ stage \in ScreeningStage /\ level \in Level /\ level \in Nat /\ place \in Nat
           /\ checks \in [Issue -> Check] /\ checksFile \in [Issue -> Check]
           /\ verdict \in [Issue -> Conclusion] /\ listed \subseteq Issue /\ runs \in 0..MaxRuns
           /\ leaking \in BOOLEAN /\ dated \in BOOLEAN /\ recomputed \in BOOLEAN /\ (dated => level = 1)
           /\ \A l \in Level : results[l] \subseteq SUBSET DOMAIN Ranked[l] /\ Cardinality(results[l]) <= 1
           /\ results \in [Level -> SUBSET (SUBSET Nat)]
           /\ answered \in [Issue -> SUBSET Reply] /\ asked \in [Issue -> [Kind -> Nat]]
           /\ lost \in [Issue -> Nat]
           /\ AnsweredChecks(checks) /\ AnsweredChecks(checksFile) /\ AskedInv
           /\ PlaceInv /\ VerdictInv /\ ListedInv /\ ConfirmedOnly /\ UnconfirmedStays
BY ScreeningConstants DEF ScreeningIInv, ScreeningRest, ScreeningTypeOK, ScreeningStage, Conclusion, Reply

\* The steps that neither ask nor save: what the run is at changes.
LEMMA ScreeningMoves ==
    ASSUME ScreeningIInv, UNCHANGED <<dated, checks, checksFile, answered, asked, lost, results,
                                      recomputed, runs>>,
           stage' \in ScreeningStage, level' \in Level, dated => level' = level, place' \in Nat,
           verdict' \in [Issue -> Conclusion],
           listed' \subseteq Issue, leaking' \in BOOLEAN, PlaceInv', VerdictInv', ListedInv'
    PROVE  ScreeningIInv'
<1>1. ScreeningRest'
  <2>1. ScreeningTypeOK'
    BY ScreeningParts DEF ScreeningTypeOK, ScreeningStage, Conclusion
  <2>2. QED
    BY <2>1, ScreeningParts DEF ScreeningRest, Reply
<1>2. AnsweredChecks(checks)' /\ AnsweredChecks(checksFile)' /\ AskedInv'
  BY ScreeningParts DEF AnsweredChecks, AskedInv
<1>3. ConfirmedOnly' /\ UnconfirmedStays'
  BY ScreeningParts DEF ConfirmedOnly, UnconfirmedStays, Saved
<1>4. QED
  BY <1>1, <1>2, <1>3 DEF ScreeningIInv

\* Outside of a band only what a verdict was once confirmed by counts.
LEMMA OutOfBand ==
    ASSUME ScreeningIInv, stage' \in ScreeningStage \ InBand, UNCHANGED <<verdict, answered>>
    PROVE  PlaceInv' /\ VerdictInv'
<1>1. PlaceInv'
  BY DEF PlaceInv, InBand
<1>2. VerdictInv'
  BY ScreeningParts DEF VerdictInv
<1>3. QED
  BY <1>1, <1>2

LEMMA BandLeft ==
    ASSUME ScreeningIInv, Abandon
    PROVE  stage' \in {"cleanup", "idle"} /\ stage' \in ScreeningStage \ InBand
           /\ (~Alternate(level) => stage' = "idle") /\ (Alternate(level) => stage' = "cleanup")
BY DEF Abandon, ScreeningStage, InBand

LEMMA NoRankingKeeps == ASSUME ScreeningIInv, NoRanking PROVE ScreeningIInv'
<1>1. /\ Abandon /\ stage = "ranking"
      /\ UNCHANGED <<dated, level, place, checks, checksFile, verdict, listed, results, recomputed,
                     runs, answered, asked, lost, leaking>>
  BY DEF NoRanking, files, ghosts
<1>2. PlaceInv' /\ VerdictInv' /\ stage' \in ScreeningStage
  BY <1>1, BandLeft, OutOfBand
<1>3. ListedInv'
  BY <1>1, ScreeningParts DEF ListedInv
<1>4. QED
  BY <1>1, <1>2, <1>3, ScreeningParts, ScreeningMoves

LEMMA RankKeeps == ASSUME ScreeningIInv, Rank PROVE ScreeningIInv'
<1>1. /\ stage = "ranking" /\ place' = 1 /\ verdict' = [i \in Issue |-> "none"]
      /\ stage' = IF Ranked[level] = <<>> THEN "select" ELSE "register"
      /\ UNCHANGED <<dated, level, checks, checksFile, listed, results, recomputed, runs, answered,
                     asked, lost, leaking>>
  BY DEF Rank, files, ghosts
<1>2. PlaceInv'
  <2>1. CASE Ranked[level] = <<>>
    <3>1. Len(Ranked[level]) = 0
      BY <2>1
    <3>2. QED
      BY <1>1, <2>1, <3>1 DEF PlaceInv
  <2>2. CASE Ranked[level] # <<>>
    <3>1. 1 \in DOMAIN Ranked[level]
      BY <2>2, BandType, ScreeningParts
    <3>2. QED
      BY <1>1, <2>2, <3>1 DEF PlaceInv
  <2>3. QED
    BY <2>1, <2>2
<1>3. VerdictInv'
  <2>1. \A k \in DOMAIN Ranked[level] : k \in Nat /\ ~(k < 1)
    BY BandType, ScreeningParts
  <2>2. QED
    BY <1>1, <2>1 DEF VerdictInv
<1>4. ListedInv'
  BY <1>1, ScreeningParts DEF ListedInv
<1>5. verdict' \in [Issue -> Conclusion] /\ stage' \in ScreeningStage
  BY <1>1 DEF Conclusion, ScreeningStage
<1>6. QED
  BY <1>1, <1>2, <1>3, <1>4, <1>5, ScreeningParts, ScreeningMoves

-----------------------------------------------------------------------------
(* Screening: registrations *)

LEMMA SmallerType ==
    ASSUME NEW m \in Nat, NEW n \in Nat
    PROVE  Min2(m, n) \in Nat /\ Min2(m, n) <= m /\ Min2(m, n) <= n
BY DEF Min2

\* A batch is of the issues of the band, and not larger than the limit.
LEMMA BatchSize ==
    ASSUME level \in Level, NEW p \in DOMAIN Ranked[level]
    PROVE  /\ Batch(p) \subseteq Issue /\ IsFiniteSet(Batch(p)) /\ Cardinality(Batch(p)) <= BATCH_SIZE
<1> DEFINE m == Min2(p + BATCH_SIZE - 1, Len(Ranked[level]))
           f == [q \in p..m |-> Ranked[level][q]]
<1>1. /\ p \in Nat /\ p >= 1 /\ Len(Ranked[level]) \in Nat /\ p + BATCH_SIZE - 1 \in Nat
      /\ DOMAIN Ranked[level] = 1..Len(Ranked[level]) /\ BATCH_SIZE \in Nat
      /\ p <= Len(Ranked[level]) /\ BATCH_SIZE > 0
  BY BandType, ScreeningConstants
<1>2. m \in Nat /\ m <= p + BATCH_SIZE - 1 /\ m <= Len(Ranked[level]) /\ p <= m
  BY <1>1 DEF Min2
<1> HIDE DEF m
<1>3. Batch(p) = {Ranked[level][q] : q \in p..m}
  BY DEF Batch, m
<1>4. \A q \in p..m : q \in DOMAIN Ranked[level]
  BY <1>1, <1>2
<1>5. Batch(p) \subseteq Issue
  BY <1>3, <1>4, BandType
<1>6. IsFiniteSet(p..m) /\ Cardinality(p..m) <= BATCH_SIZE /\ Cardinality(p..m) \in Nat
  <2>1. IsFiniteSet(p..m) /\ Cardinality(p..m) = IF p > m THEN 0 ELSE m - p + 1
    <3>1. p \in Int /\ m \in Int
      BY <1>1, <1>2
    <3>2. QED
      BY <3>1, FS_Interval
  <2>2. m - p + 1 <= BATCH_SIZE /\ m - p + 1 \in Nat
    BY <1>1, <1>2
  <2>3. QED
    BY <1>2, <1>1, <2>1, <2>2
<1>7. f \in Surjection(p..m, Batch(p))
  BY <1>3 DEF Surjection
<1>8. IsFiniteSet(Batch(p)) /\ Cardinality(Batch(p)) <= Cardinality(p..m)
  BY <1>6, <1>7, FS_Surjection
<1>9. Cardinality(Batch(p)) \in Nat
  BY <1>8, FS_CardinalityType
<1>10. QED
  BY <1>1, <1>5, <1>6, <1>8, <1>9

LEMMA RegisterBatchKeeps == ASSUME ScreeningIInv, RegisterBatch PROVE ScreeningIInv'
<1>1. /\ stage = "register" /\ stage' = "market" /\ listed' = listed \cup Batch(place)
      /\ UNCHANGED <<dated, level, place, checks, checksFile, verdict, results, recomputed, runs,
                     answered, asked, lost, leaking>>
  BY DEF RegisterBatch, files, ghosts
<1>2. place \in DOMAIN Ranked[level]
  BY <1>1, ScreeningParts DEF PlaceInv
<1>3. Batch(place) \subseteq Issue /\ IsFiniteSet(Batch(place)) /\ Cardinality(Batch(place)) <= BATCH_SIZE
  BY <1>2, BatchSize, ScreeningParts
<1>4. ListedInv'
  <2>1. ~leaking => listed' = Batch(place)
    BY <1>1, ScreeningParts DEF ListedInv
  <2>2. QED
    BY <1>1, <1>3, <2>1 DEF ListedInv
<1>5. PlaceInv' /\ VerdictInv'
  BY <1>1, <1>2, ScreeningParts DEF PlaceInv, VerdictInv, InBand
<1>6. QED
  BY <1>1, <1>3, <1>4, <1>5, ScreeningParts, ScreeningMoves DEF ScreeningStage

LEMMA RegisterFailsKeeps == ASSUME ScreeningIInv, RegisterFails PROVE ScreeningIInv'
<1>1. /\ stage = "register" /\ Abandon /\ leaking' = (leaking \/ ~Alternate(level))
      /\ listed' \in {listed, listed \cup Batch(place)}
      /\ UNCHANGED <<dated, level, place, checks, checksFile, verdict, results, recomputed, runs,
                     answered, asked, lost>>
  BY DEF RegisterFails, files, ghosts
<1>2. place \in DOMAIN Ranked[level]
  BY <1>1, ScreeningParts DEF PlaceInv
<1>3. Batch(place) \subseteq Issue /\ IsFiniteSet(Batch(place)) /\ Cardinality(Batch(place)) <= BATCH_SIZE
  BY <1>2, BatchSize, ScreeningParts
<1>4. PlaceInv' /\ VerdictInv' /\ stage' \in ScreeningStage
  BY <1>1, BandLeft, OutOfBand
<1>5. ListedInv'
  <2>1. ~leaking' => ~leaking /\ stage' = "cleanup"
    BY <1>1, BandLeft
  <2>2. ~leaking => listed = {} /\ IsFiniteSet(listed) /\ Cardinality(listed) <= BATCH_SIZE
    BY <1>1, ScreeningParts DEF ListedInv
  <2>3. ~leaking => listed' \in {listed, Batch(place)}
    BY <1>1, <2>2
  <2>4. QED
    BY <1>3, <2>1, <2>2, <2>3 DEF ListedInv
<1>6. listed' \subseteq Issue
  BY <1>1, <1>3, ScreeningParts
<1>7. leaking' \in BOOLEAN
  BY <1>1
<1>8. QED
  BY <1>1, <1>4, <1>5, <1>6, <1>7, ScreeningParts, ScreeningMoves

LEMMA NothingListed == IsFiniteSet({}) /\ Cardinality({}) <= BATCH_SIZE
<1>1. Cardinality({}) = 0 /\ IsFiniteSet({})
  BY FS_EmptySet
<1>2. QED
  BY <1>1, ScreeningConstants

LEMMA FinishBatchKeeps == ASSUME ScreeningIInv, FinishBatch PROVE ScreeningIInv'
<1>1. /\ stage = "finish" /\ listed' = {}
      /\ stage' = IF place > Len(Ranked[level]) THEN "select" ELSE "register"
      /\ UNCHANGED <<dated, level, place, checks, checksFile, verdict, results, recomputed, runs,
                     answered, asked, lost, leaking>>
  BY DEF FinishBatch, files, ghosts
<1>2. ListedInv'
  BY <1>1, NothingListed DEF ListedInv
<1>3. VerdictInv'
  BY <1>1, ScreeningParts DEF VerdictInv, InBand
<1>4. PlaceInv'
  <2>1. place >= 1
    BY <1>1, ScreeningParts DEF PlaceInv
  <2>2. QED
    BY <1>1, <2>1, BandType, ScreeningParts DEF PlaceInv
<1>5. QED
  BY <1>1, <1>2, <1>3, <1>4, ScreeningParts, ScreeningMoves DEF ScreeningStage

LEMMA FinishFailsKeeps == ASSUME ScreeningIInv, FinishFails PROVE ScreeningIInv'
<1>1. /\ stage = "finish" /\ Abandon /\ leaking' = (leaking \/ ~Alternate(level))
      /\ UNCHANGED <<dated, level, place, checks, checksFile, verdict, listed, results, recomputed,
                     runs, answered, asked, lost>>
  BY DEF FinishFails, files, ghosts
<1>2. PlaceInv' /\ VerdictInv' /\ stage' \in ScreeningStage
  BY <1>1, BandLeft, OutOfBand
<1>3. ListedInv'
  <2>1. ~leaking' => ~leaking /\ stage' = "cleanup"
    BY <1>1, BandLeft
  <2>2. QED
    BY <1>1, <2>1, ScreeningParts DEF ListedInv
<1>4. leaking' \in BOOLEAN
  BY <1>1
<1>5. QED
  BY <1>1, <1>2, <1>3, <1>4, ScreeningParts, ScreeningMoves

LEMMA CleanupKeeps == ASSUME ScreeningIInv, Cleanup PROVE ScreeningIInv'
<1>1. PICK worked \in BOOLEAN : listed' = (IF worked THEN {} ELSE listed) /\ leaking' = ~worked
  BY DEF Cleanup
<1>2. /\ stage = "cleanup" /\ stage' = "following"
      /\ UNCHANGED <<dated, level, place, checks, checksFile, verdict, results, recomputed, runs,
                     answered, asked, lost>>
  BY DEF Cleanup, files, ghosts
<1>3. PlaceInv' /\ VerdictInv' /\ stage' \in ScreeningStage
  BY <1>2, OutOfBand DEF ScreeningStage, InBand
<1>4. ListedInv'
  BY <1>1, NothingListed DEF ListedInv
<1>5. leaking' \in BOOLEAN /\ listed' \subseteq Issue
  BY <1>1, ScreeningParts
<1>6. QED
  BY <1>2, <1>3, <1>4, <1>5, ScreeningParts, ScreeningMoves

LEMMA NextLevelKeeps == ASSUME ScreeningIInv, NextLevel PROVE ScreeningIInv'
<1>1. /\ stage = "following" /\ level' = (IF Follows THEN level + 1 ELSE level)
      /\ stage' = (IF Follows THEN "ranking" ELSE "idle")
      /\ UNCHANGED <<dated, place, checks, checksFile, verdict, listed, results, recomputed, runs,
                     answered, asked, lost, leaking>>
  BY DEF NextLevel, files, ghosts
<1>2. PlaceInv' /\ VerdictInv' /\ stage' \in ScreeningStage
  BY <1>1, OutOfBand DEF ScreeningStage, InBand
<1>3. ListedInv'
  BY <1>1, ScreeningParts DEF ListedInv
<1>4. level' \in Level /\ (dated => level' = level)
  BY <1>1, ScreeningParts, ScreeningConstants DEF Follows
<1>5. QED
  BY <1>1, <1>2, <1>3, <1>4, ScreeningParts, ScreeningMoves

LEMMA ScreeningDiesKeeps == ASSUME ScreeningIInv, ScreeningDies PROVE ScreeningIInv'
<1>1. /\ stage' = "idle" /\ leaking' = TRUE
      /\ UNCHANGED <<dated, level, place, checks, checksFile, verdict, listed, results, recomputed,
                     runs, answered, asked, lost>>
  BY DEF ScreeningDies, files, ghosts
<1>2. PlaceInv' /\ VerdictInv' /\ stage' \in ScreeningStage
  BY <1>1, OutOfBand DEF ScreeningStage, InBand
<1>3. ListedInv'
  BY <1>1 DEF ListedInv
<1>4. QED
  BY <1>1, <1>2, <1>3, ScreeningParts, ScreeningMoves

\* The file is read anew: what was not saved is counted as lost.
LEMMA StartScreeningKeeps == ASSUME ScreeningIInv, StartScreening PROVE ScreeningIInv'
<1>1. /\ stage = "idle" /\ runs < MaxRuns /\ runs' = runs + 1 /\ checks' = checksFile /\ level' = 1
      /\ lost' = [i \in Issue |-> lost[i] + (IF checks[i] # checksFile[i] THEN 1 ELSE 0)]
      /\ dated' \in BOOLEAN
      /\ UNCHANGED <<place, checksFile, verdict, results, recomputed, answered, asked>>
  BY DEF StartScreening, files
<1>2. PICK worked \in BOOLEAN :
         /\ stage' = IF worked THEN "ranking" ELSE "idle"
         /\ listed' = IF worked THEN {} ELSE listed
         /\ leaking' = ~worked
  BY DEF StartScreening
<1>3. PlaceInv' /\ VerdictInv' /\ stage' \in ScreeningStage
  BY <1>1, <1>2, OutOfBand DEF ScreeningStage, InBand
<1>4. ListedInv'
  BY <1>2, NothingListed DEF ListedInv
<1>5. lost' \in [Issue -> Nat]
  BY <1>1, ScreeningParts
<1>6. ScreeningRest'
  <2>1. leaking' \in BOOLEAN /\ listed' \subseteq Issue /\ runs' \in 0..MaxRuns /\ level' \in Level
    BY <1>1, <1>2, ScreeningParts, ScreeningConstants
  <2>2. ScreeningTypeOK'
    BY <1>1, <1>3, <2>1, ScreeningParts DEF ScreeningTypeOK, ScreeningStage, Conclusion
  <2>3. QED
    BY <1>1, <1>5, <2>2, ScreeningParts DEF ScreeningRest, Reply
<1>7. AskedInv'
  <2>1. ASSUME NEW i \in Issue, NEW k \in Kind
        PROVE  asked[i][k] <= lost'[i] + (IF checksFile[i][k] # "none" THEN 1 ELSE 0)
    <3>1. /\ asked[i][k] \in Nat /\ lost[i] \in Nat
          /\ asked[i][k] <= lost[i] + (IF checks[i][k] # "none" THEN 1 ELSE 0)
      BY ScreeningParts DEF AskedInv
    <3>2. CASE checks[i] = checksFile[i]
      BY <1>1, <3>1, <3>2
    <3>3. CASE checks[i] # checksFile[i]
      BY <1>1, <3>1, <3>3
    <3>4. QED
      BY <3>2, <3>3
  <2>2. QED
    BY <1>1, <2>1 DEF AskedInv
<1>8. AnsweredChecks(checks)' /\ AnsweredChecks(checksFile)'
  BY <1>1, ScreeningParts DEF AnsweredChecks
<1>9. ConfirmedOnly' /\ UnconfirmedStays'
  BY <1>1, ScreeningParts DEF ConfirmedOnly, UnconfirmedStays, Saved
<1>10. QED
  BY <1>3, <1>4, <1>6, <1>7, <1>8, <1>9 DEF ScreeningIInv

-----------------------------------------------------------------------------
(* Screening: the result of a band *)

\* A selection that is not full has all that pass.
LEMMA AllSelected ==
    ASSUME level \in Level, Cardinality(Selected) < MAX_COUNT
    PROVE  Selected = Passing
<1> DEFINE Omitted == Passing \ Selected
<1> SUFFICES ASSUME Omitted # {} PROVE FALSE
  BY DEF Selected
<1>1. /\ Passing \subseteq 1..Len(Ranked[level]) /\ Len(Ranked[level]) \in Nat /\ MAX_COUNT \in Nat
      /\ IsFiniteSet(1..Len(Ranked[level]))
  <2>1. Len(Ranked[level]) \in Nat /\ DOMAIN Ranked[level] = 1..Len(Ranked[level])
    BY BandType
  <2>2. IsFiniteSet(1..Len(Ranked[level]))
    BY <2>1, FS_Interval
  <2>3. QED
    BY <2>1, <2>2, ScreeningConstants DEF Passing
<1>2. IsFiniteSet(Passing) /\ Selected \subseteq Passing
  BY <1>1, FS_Subset DEF Selected
<1>3. PICK k \in Omitted : \A m \in Omitted : k <= m
  <2>1. Omitted \in SUBSET Nat
    <3>1. Passing \subseteq Nat
      BY <1>1
    <3>2. QED
      BY <3>1
  <2>2. QED
    BY <2>1, LeastNumber
<1> DEFINE Earlier == Passing \cap 1..k
<1>4. k \in Earlier /\ k \in Nat
  BY <1>1
<1>5. IsFiniteSet(Earlier) /\ ~(Cardinality(Earlier) <= MAX_COUNT)
  BY <1>2, <1>3, FS_Subset DEF Selected
<1>6. Earlier \ {k} \subseteq Selected
  <2>1. ASSUME NEW m \in Earlier \ {k} PROVE m \in Selected
    <3>1. m \in Nat /\ m < k
      BY <1>1, <1>4
    <3>2. QED
      BY <1>3, <1>4, <3>1
  <2>2. QED
    BY <2>1
<1> HIDE DEF Earlier
<1>7. /\ IsFiniteSet(Earlier \ {k}) /\ Cardinality(Earlier \ {k}) = Cardinality(Earlier) - 1
  BY <1>4, <1>5, FS_RemoveElement
<1>8. IsFiniteSet(Selected) /\ Cardinality(Earlier \ {k}) <= Cardinality(Selected)
  BY <1>2, <1>6, FS_Subset
<1>9. Cardinality(Selected) \in Nat /\ Cardinality(Earlier) \in Nat
  BY <1>5, <1>8, FS_CardinalityType
<1>10. QED
  BY <1>1, <1>5, <1>7, <1>8, <1>9

\* The result of this day is replaced.
LEMMA ReplacingKeeps ==
    ASSUME ScreeningIInv, SaveScreening, results' = [results EXCEPT ![level] = {Selected}],
           recomputed' = IF Alternate(level) THEN recomputed ELSE dated
    PROVE  ScreeningIInv'
<1>1. /\ stage = "select" /\ Continue
      /\ UNCHANGED <<dated, level, place, checks, checksFile, verdict, listed, runs, answered,
                     asked, lost, leaking>>
  BY DEF SaveScreening, ghosts
<1>2. /\ stage' \in {"cleanup", "following"} /\ stage' \in ScreeningStage \ InBand
  BY <1>1 DEF Continue, ScreeningStage, InBand
<1>3. PlaceInv' /\ VerdictInv'
  BY <1>1, <1>2, OutOfBand
<1>4. ListedInv'
  BY <1>1, <1>2, ScreeningParts DEF ListedInv
<1>5. ASSUME NEW l \in Level PROVE results'[l] = IF l = level THEN {Selected} ELSE results[l]
  BY ScreeningParts
<1>6. \A l \in Level : results'[l] \subseteq SUBSET DOMAIN Ranked[l] /\ Cardinality(results'[l]) <= 1
  <2>1. Selected \subseteq DOMAIN Ranked[level] /\ Cardinality({Selected}) = 1
    BY FS_Singleton DEF Selected, Passing
  <2>2. QED
    BY <1>5, <2>1, ScreeningParts
<1>7. ScreeningRest'
  <2>1. ScreeningTypeOK'
    <3>1. recomputed' \in BOOLEAN /\ dated' \in BOOLEAN
      BY <1>1, ScreeningParts
    <3>2. QED
      BY <3>1, <1>1, <1>2, <1>6, ScreeningParts DEF ScreeningTypeOK, ScreeningStage, Conclusion
  <2>2. results' \in [Level -> SUBSET (SUBSET Nat)]
    <3>1. Selected \in SUBSET Nat
      BY BandType, ScreeningParts DEF Selected, Passing
    <3>2. QED
      BY <3>1, ScreeningParts
  <2>3. QED
    BY <1>1, <2>1, <2>2, ScreeningParts DEF ScreeningRest, Reply
<1>8. AnsweredChecks(checks)' /\ AnsweredChecks(checksFile)' /\ AskedInv'
  BY <1>1, ScreeningParts DEF AnsweredChecks, AskedInv
<1>9. \A k \in Selected : verdict[Ranked[level][k]] \in {"free", "kept"} /\ Ranked[level][k] \in Issue
  BY BandType, ScreeningParts DEF Selected, Passing
<1>10. ConfirmedOnly'
  <2>1. ASSUME level = 1, ~dated, NEW k \in Selected PROVE {"prime", "free"} \subseteq answered[Ranked[1][k]]
    <3>1. verdict[Ranked[1][k]] # "kept"
      BY <1>1, <1>9, <2>1, ScreeningParts DEF VerdictInv, InBand, Alternate
    <3>2. verdict[Ranked[1][k]] = "free" /\ Ranked[1][k] \in Issue
      BY <1>9, <2>1, <3>1
    <3>3. stage \in InBand /\ VerdictInv
      BY <1>1, ScreeningParts DEF InBand
    <3>4. QED
      BY <2>1, <3>2, <3>3 DEF VerdictInv
  <2>2. Saved(1)' = IF level = 1 THEN {Ranked[1][k] : k \in Selected} ELSE Saved(1)
    BY <1>5, ScreeningConstants DEF Saved
  <2>3. level = 1 => recomputed' = dated
    BY DEF Alternate
  <2>4. level # 1 => recomputed' = recomputed
    BY ScreeningParts, ScreeningConstants DEF Alternate
  <2>5. QED
    BY <1>1, <2>1, <2>2, <2>3, <2>4, ScreeningParts DEF ConfirmedOnly
<1>11. UnconfirmedStays'
  <2>1. SUFFICES ASSUME NEW l \in Level, Alternate(l),
                        \E result \in results'[l] : Cardinality(result) < MAX_COUNT,
                        NEW k \in DOMAIN Ranked[l]
                 PROVE  \/ Ranked[l][k] \in Saved(l)'
                        \/ answered[Ranked[l][k]] \cap {"local", "restricted"} # {}
    BY <1>1 DEF UnconfirmedStays
  <2>2. CASE l # level
    <3>1. results'[l] = results[l] /\ Saved(l)' = Saved(l)
      BY <1>5, <2>2 DEF Saved
    <3>2. QED
      BY <2>1, <3>1, ScreeningParts DEF UnconfirmedStays
  <2>3. CASE l = level
    <3>1. Selected = Passing /\ Saved(l)' = {Ranked[l][j] : j \in Selected}
      BY <1>5, <2>1, <2>3, AllSelected DEF Saved
    <3>2. Ranked[l][k] \in Issue /\ k \in Nat /\ k < place
      <4>1. k \in 1..Len(Ranked[l]) /\ Len(Ranked[l]) \in Nat /\ Ranked[l][k] \in Issue
        BY <2>1, BandType
      <4>2. place > Len(Ranked[l]) /\ place \in Nat
        BY <1>1, <2>3, ScreeningParts DEF PlaceInv
      <4>3. QED
        BY <4>1, <4>2
    <3>3. verdict[Ranked[l][k]] \in {"free", "restricted", "local", "kept"}
      <4>1. verdict[Ranked[l][k]] # "none"
        BY <1>1, <2>1, <2>3, <3>2, ScreeningParts DEF VerdictInv, InBand
      <4>2. QED
        BY <3>2, <4>1, ScreeningParts DEF Conclusion
    <3>4. CASE verdict[Ranked[l][k]] \in {"free", "kept"}
      BY <2>1, <2>3, <3>1, <3>4 DEF Passing
    <3>5. CASE verdict[Ranked[l][k]] \in {"restricted", "local"}
      BY <1>1, <2>1, <2>3, <3>2, <3>5, ScreeningParts DEF VerdictInv, InBand
    <3>6. QED
      BY <3>3, <3>4, <3>5
  <2>4. QED
    BY <2>2, <2>3
<1>12. QED
  BY <1>3, <1>4, <1>7, <1>8, <1>10, <1>11 DEF ScreeningIInv

LEMMA SaveScreeningKeeps == ASSUME ScreeningIInv, SaveScreening PROVE ScreeningIInv'
<1>1. CASE /\ results' = [results EXCEPT ![level] = {Selected}]
           /\ recomputed' = IF Alternate(level) THEN recomputed ELSE dated
  BY <1>1, ReplacingKeeps
<1>2. CASE UNCHANGED <<results, recomputed>>
  <2>1. /\ stage = "select" /\ Continue
        /\ UNCHANGED <<dated, level, place, checks, checksFile, verdict, listed, results,
                       recomputed, runs, answered, asked, lost, leaking>>
    BY <1>2 DEF SaveScreening, ghosts
  <2>2. /\ stage' \in {"cleanup", "following"} /\ stage' \in ScreeningStage \ InBand
    BY <2>1 DEF Continue, ScreeningStage, InBand
  <2>3. PlaceInv' /\ VerdictInv'
    BY <2>1, <2>2, OutOfBand
  <2>4. ListedInv'
    BY <2>1, <2>2, ScreeningParts DEF ListedInv
  <2>5. QED
    BY <2>1, <2>2, <2>3, <2>4, ScreeningParts, ScreeningMoves
<1>3. QED
  BY <1>1, <1>2 DEF SaveScreening, files

LEMMA SavingFailsKeeps == ASSUME ScreeningIInv, SavingFails PROVE ScreeningIInv'
<1>1. /\ stage = "select" /\ Abandon
      /\ UNCHANGED <<dated, level, place, checks, checksFile, verdict, listed, results, recomputed,
                     runs, answered, asked, lost, leaking>>
  BY DEF SavingFails, files, ghosts
<1>2. PlaceInv' /\ VerdictInv' /\ stage' \in ScreeningStage
  BY <1>1, BandLeft, OutOfBand
<1>3. ListedInv'
  BY <1>1, BandLeft, ScreeningParts DEF ListedInv
<1>4. QED
  BY <1>1, <1>2, <1>3, ScreeningParts, ScreeningMoves

-----------------------------------------------------------------------------
(* Screening: the checks of a candidate *)

\* What the station has answered may only grow.
MoreAnswered == \A i \in Issue : answered[i] \subseteq answered'[i]

\* A conclusion about the candidate the run is at, by what is answered then.
LEMMA ConclusionKeeps ==
    ASSUME ScreeningIInv, stage \in AtCandidate, MoreAnswered,
           NEW concluded \in Conclusion \ {"none"}, Conclude(concluded), level' = level, dated' = dated,
           concluded = "free" /\ ~dated => {"prime", "free"} \subseteq answered'[Ranked[level][place]],
           concluded = "kept" => Alternate(level),
           Alternate(level) /\ concluded \in {"restricted", "local"}
              => answered'[Ranked[level][place]] \cap {"local", "restricted"} # {}
    PROVE  /\ stage' \in {"finish", "market"} /\ place' \in Nat /\ verdict' \in [Issue -> Conclusion]
           /\ PlaceInv' /\ VerdictInv'
<1> DEFINE i == Ranked[level][place]
<1>1. /\ verdict' = [verdict EXCEPT ![i] = concluded] /\ place' = place + 1
      /\ stage' = IF BatchEnds(place) THEN "finish" ELSE "market"
  BY DEF Conclude
<1>2. /\ place \in DOMAIN Ranked[level] /\ DOMAIN Ranked[level] = 1..Len(Ranked[level])
      /\ Len(Ranked[level]) \in Nat /\ place \in Nat /\ i \in Issue
  BY BandType, ScreeningParts DEF PlaceInv, AtCandidate
<1>3. PlaceInv'
  <2>1. ~BatchEnds(place) => place + 1 \in DOMAIN Ranked[level]
    BY <1>2 DEF BatchEnds
  <2>2. QED
    BY <1>1, <1>2, <2>1 DEF PlaceInv
<1> HIDE DEF i
<1>4. verdict' \in [Issue -> Conclusion] /\ place' \in Nat
  BY <1>1, <1>2, ScreeningParts
<1>5. ASSUME NEW j \in Issue
      PROVE  /\ verdict'[j] = "free" /\ ~dated => {"prime", "free"} \subseteq answered'[j]
             /\ verdict'[j] = "kept" => Alternate(level)
             /\ Alternate(level) /\ verdict'[j] \in {"restricted", "local"}
                   => answered'[j] \cap {"local", "restricted"} # {}
  <2>1. CASE j = i
    <3>1. verdict'[j] = concluded
      BY <1>1, <1>2, <2>1, ScreeningParts
    <3>2. QED
      BY <2>1, <3>1 DEF i
  <2>2. CASE j # i
    <3>1. verdict'[j] = verdict[j] /\ answered[j] \subseteq answered'[j]
      BY <1>1, <2>2, ScreeningParts DEF MoreAnswered
    <3>2. /\ verdict[j] = "free" /\ ~dated => {"prime", "free"} \subseteq answered[j]
          /\ verdict[j] = "kept" => Alternate(level)
          /\ Alternate(level) /\ verdict[j] \in {"restricted", "local"}
                => answered[j] \cap {"local", "restricted"} # {}
      BY ScreeningParts DEF VerdictInv, InBand, AtCandidate
    <3>3. QED
      BY <3>1, <3>2
  <2>3. QED
    BY <2>1, <2>2
<1>6. ASSUME NEW k \in DOMAIN Ranked[level], k < place'
      PROVE  verdict'[Ranked[level][k]] # "none"
  <2>1. k \in Nat /\ Ranked[level][k] \in Issue /\ (k < place \/ k = place)
    BY <1>1, <1>2, <1>6, BandType, ScreeningParts
  <2>2. CASE Ranked[level][k] = i
    BY <1>1, <1>2, <2>2, ScreeningParts
  <2>3. CASE Ranked[level][k] # i
    <3>1. k < place
      BY <2>1, <2>3 DEF i
    <3>2. verdict[Ranked[level][k]] # "none"
      BY <3>1, ScreeningParts DEF VerdictInv, InBand, AtCandidate
    <3>3. QED
      BY <1>1, <2>1, <2>3, <3>2, ScreeningParts
  <2>4. QED
    BY <2>2, <2>3
<1>7. VerdictInv'
  <2>1. Alternate(level)' = Alternate(level) /\ Ranked[level]' = Ranked[level]
    BY DEF Alternate
  <2>2. QED
    BY <1>5, <1>6, <2>1 DEF VerdictInv
<1>8. QED
  BY <1>1, <1>3, <1>4, <1>7

\* The regulation comes next.
LEMMA MarketKnown ==
    ASSUME ScreeningIInv, stage = "market", MoreAnswered, stage' = "regulation",
           UNCHANGED <<dated, level, place, verdict>>, checks'[Ranked[level][place]].market \in Market
    PROVE  PlaceInv' /\ VerdictInv'
<1>1. PlaceInv'
  BY ScreeningParts DEF PlaceInv
<1>2. ASSUME NEW j \in Issue
      PROVE  /\ verdict'[j] = "free" /\ ~dated => {"prime", "free"} \subseteq answered'[j]
             /\ verdict'[j] = "kept" => Alternate(level)
             /\ Alternate(level) /\ verdict'[j] \in {"restricted", "local"}
                   => answered'[j] \cap {"local", "restricted"} # {}
  <2>1. verdict'[j] = verdict[j] /\ answered[j] \subseteq answered'[j]
    BY DEF MoreAnswered
  <2>2. QED
    BY <2>1, ScreeningParts DEF VerdictInv, InBand
<1>3. \A k \in DOMAIN Ranked[level] : k < place => verdict[Ranked[level][k]] # "none"
  BY ScreeningParts DEF VerdictInv, InBand
<1>4. VerdictInv'
  BY <1>2, <1>3 DEF VerdictInv, Alternate
<1>5. QED
  BY <1>1, <1>4

LEMMA CandidateType ==
    ASSUME ScreeningIInv, stage \in AtCandidate
    PROVE  /\ Ranked[level][place] \in Issue
           /\ checks[Ranked[level][place]] \in Check
           /\ stage = "regulation" => checks[Ranked[level][place]].market \in Market
<1>1. place \in DOMAIN Ranked[level]
  BY ScreeningParts DEF PlaceInv, AtCandidate
<1>2. QED
  BY <1>1, BandType, ScreeningParts DEF PlaceInv

LEMMA ListedMoves ==
    ASSUME ScreeningIInv, stage \in AtCandidate, stage' \in {"market", "regulation", "finish"},
           UNCHANGED <<listed, leaking>>
    PROVE  ListedInv'
BY ScreeningParts DEF ListedInv, AtCandidate

LEMMA KnownMarketKeeps == ASSUME ScreeningIInv, KnownMarket PROVE ScreeningIInv'
<1> DEFINE i == Ranked[level][place]
<1>1. /\ stage = "market" /\ checks[i].market # "none"
      /\ IF checks[i].market = "failed"
         THEN Conclude(Unconfirmed)
         ELSE stage' = "regulation" /\ UNCHANGED <<place, verdict>>
      /\ UNCHANGED <<dated, level, checks, checksFile, listed, results, recomputed, runs, answered,
                     asked, lost, leaking>>
  BY DEF KnownMarket, files, ghosts
<1>2. i \in Issue /\ checks[i] \in Check /\ stage \in AtCandidate
  BY <1>1, CandidateType DEF AtCandidate
<1>3. MoreAnswered
  BY <1>1 DEF MoreAnswered
<1>4. /\ stage' \in {"finish", "market", "regulation"} /\ place' \in Nat
      /\ verdict' \in [Issue -> Conclusion] /\ PlaceInv' /\ VerdictInv'
  <2>1. CASE checks[i].market = "failed"
    <3>1. Unconfirmed \in Conclusion \ {"none", "free"} /\ (Unconfirmed = "kept" <=> Alternate(level))
      BY DEF Unconfirmed, Conclusion
    <3>2. Unconfirmed \in {"kept", "restricted"}
      BY DEF Unconfirmed
    <3>3. QED
      BY <1>1, <1>2, <1>3, <2>1, <3>1, <3>2, ConclusionKeeps
  <2>2. CASE checks[i].market # "failed"
    <3>1. checks[i].market \in Market
      BY <1>1, <1>2, <2>2 DEF Check
    <3>2. /\ checks'[i].market \in Market /\ stage' = "regulation"
          /\ UNCHANGED <<dated, level, place, verdict>>
      BY <1>1, <2>2, <3>1
    <3>3. PlaceInv' /\ VerdictInv'
      BY <1>1, <1>3, <3>2, MarketKnown
    <3>4. QED
      BY <3>2, <3>3, ScreeningParts
  <2>3. QED
    BY <2>1, <2>2
<1>5. ListedInv'
  BY <1>1, <1>2, <1>4, ListedMoves
<1>6. QED
  BY <1>1, <1>4, <1>5, ScreeningParts, ScreeningMoves DEF ScreeningStage

\* What is confirmed was answered.
LEMMA ConfirmedAnswered ==
    ASSUME NEW check \in Check, check.market \in Market, check.regulation \in Rule,
           NEW known, {check.market, check.regulation} \subseteq known
    PROVE  /\ Confirmed(check) \in Conclusion \ {"none", "kept"}
           /\ Confirmed(check) = "free" => {"prime", "free"} \subseteq known
           /\ Confirmed(check) \in {"restricted", "local"} => known \cap {"local", "restricted"} # {}
BY DEF Confirmed, Conclusion, Market, Rule

LEMMA KnownRegulationKeeps == ASSUME ScreeningIInv, KnownRegulation PROVE ScreeningIInv'
<1> DEFINE i == Ranked[level][place]
           concluded == IF checks[i].regulation = "failed" THEN Unconfirmed ELSE Confirmed(checks[i])
<1>1. /\ stage = "regulation" /\ checks[i].regulation # "none" /\ Conclude(concluded)
      /\ UNCHANGED <<dated, level, checks, checksFile, listed, results, recomputed, runs, answered,
                     asked, lost, leaking>>
  BY DEF KnownRegulation, files, ghosts
<1>2. i \in Issue /\ checks[i] \in Check /\ stage \in AtCandidate /\ checks[i].market \in Market
  BY <1>1, CandidateType DEF AtCandidate
<1>3. MoreAnswered
  BY <1>1 DEF MoreAnswered
<1>4. /\ concluded \in Conclusion \ {"none"}
      /\ concluded = "free" => {"prime", "free"} \subseteq answered'[i]
      /\ concluded = "kept" => Alternate(level)
      /\ Alternate(level) /\ concluded \in {"restricted", "local"}
            => answered'[i] \cap {"local", "restricted"} # {}
  <2>1. CASE checks[i].regulation = "failed"
    BY <2>1 DEF Unconfirmed, Conclusion
  <2>2. CASE checks[i].regulation # "failed"
    <3>1. checks[i].regulation \in Rule
      BY <1>1, <1>2, <2>2 DEF Check
    <3>2. {checks[i].market, checks[i].regulation} \subseteq answered[i]
      <4>1. checks[i]["market"] # "none" /\ checks[i]["regulation"] # "none"
        BY <1>1, <1>2 DEF Market
      <4>2. checks[i]["market"] \in answered[i] /\ checks[i]["regulation"] \in answered[i]
        BY <1>2, <4>1, ScreeningParts DEF AnsweredChecks, Kind
      <4>3. QED
        BY <4>2
    <3>3. /\ Confirmed(checks[i]) \in Conclusion \ {"none", "kept"}
          /\ Confirmed(checks[i]) = "free" => {"prime", "free"} \subseteq answered[i]
          /\ Confirmed(checks[i]) \in {"restricted", "local"}
                => answered[i] \cap {"local", "restricted"} # {}
      BY <1>2, <3>1, <3>2, ConfirmedAnswered
    <3>4. concluded = Confirmed(checks[i]) /\ answered' = answered
      BY <1>1, <2>2
    <3>5. QED
      BY <3>3, <3>4
  <2>3. QED
    BY <2>1, <2>2
<1> HIDE DEF concluded
<1>5. /\ stage' \in {"finish", "market"} /\ place' \in Nat
      /\ verdict' \in [Issue -> Conclusion] /\ PlaceInv' /\ VerdictInv'
  BY <1>1, <1>2, <1>3, <1>4, ConclusionKeeps
<1>6. ListedInv'
  BY <1>1, <1>2, <1>5, ListedMoves
<1>7. QED
  BY <1>1, <1>5, <1>6, ScreeningParts, ScreeningMoves DEF ScreeningStage

\* An answer is remembered, and filed with the others or not.
LEMMA RememberKeeps ==
    ASSUME ScreeningIInv, NEW i \in Issue, NEW kind \in Kind, NEW answer \in Reply \ {"none"},
           [checks[i] EXCEPT ![kind] = answer] \in Check, checks[i][kind] = "none",
           Remember(i, kind, answer), checksFile' \in {checks', checksFile}
    PROVE  /\ checks' = [checks EXCEPT ![i] = [checks[i] EXCEPT ![kind] = answer]]
           /\ checks' \in [Issue -> Check] /\ checksFile' \in [Issue -> Check]
           /\ answered' \in [Issue -> SUBSET Reply] /\ asked' \in [Issue -> [Kind -> Nat]]
           /\ lost' = lost /\ MoreAnswered /\ answer \in answered'[i]
           /\ AnsweredChecks(checks)' /\ AnsweredChecks(checksFile)' /\ AskedInv'
<1>1. /\ checks' = [checks EXCEPT ![i][kind] = answer]
      /\ asked' = [asked EXCEPT ![i][kind] = @ + 1]
      /\ answered' = [answered EXCEPT ![i] = @ \cup {answer}] /\ lost' = lost
  BY DEF Remember
<1> DEFINE check == [checks[i] EXCEPT ![kind] = answer]
<1>2. check \in Check /\ check[kind] = answer /\ \A k \in Kind \ {kind} : check[k] = checks[i][k]
  BY ScreeningParts DEF Check, Kind
<1>3. checks' = [checks EXCEPT ![i] = check]
  BY <1>1
<1> HIDE DEF check
<1>4. checks' \in [Issue -> Check] /\ checksFile' \in [Issue -> Check]
  <2>1. checks \in [Issue -> Check] /\ checksFile \in [Issue -> Check]
    BY ScreeningParts
  <2>2. checks' \in [Issue -> Check]
    BY <1>2, <1>3, <2>1
  <2>3. QED
    BY <2>1, <2>2
<1>5. /\ answered' \in [Issue -> SUBSET Reply] /\ MoreAnswered /\ answer \in answered'[i]
  <2>1. answered' \in [Issue -> SUBSET Reply] /\ answer \in answered'[i]
    BY <1>1, ScreeningParts
  <2>2. MoreAnswered
    BY <1>1, ScreeningParts DEF MoreAnswered
  <2>3. QED
    BY <2>1, <2>2
<1> DEFINE row == [asked[i] EXCEPT ![kind] = @ + 1]
<1>6. row \in [Kind -> Nat] /\ row[kind] = asked[i][kind] + 1 /\ asked[i][kind] \in Nat
      /\ \A k \in Kind \ {kind} : row[k] = asked[i][k]
  <2>1. asked[i] \in [Kind -> Nat]
    BY ScreeningParts
  <2>2. QED
    BY <2>1
<1>7. asked' = [asked EXCEPT ![i] = row]
  BY <1>1
<1> HIDE DEF row
<1>8. asked' \in [Issue -> [Kind -> Nat]]
  BY <1>6, <1>7, ScreeningParts
<1>9. ASSUME NEW j \in Issue, NEW k \in Kind
      PROVE  /\ checks'[j][k] # "none" => checks'[j][k] \in answered'[j]
             /\ checksFile[j][k] # "none" => checksFile[j][k] \in answered'[j]
             /\ asked'[j][k] <= lost'[j] + (IF checks'[j][k] # "none" THEN 1 ELSE 0)
  <2>1. /\ checks[j][k] # "none" => checks[j][k] \in answered[j]
        /\ checksFile[j][k] # "none" => checksFile[j][k] \in answered[j]
        /\ asked[j][k] <= lost[j] + (IF checks[j][k] # "none" THEN 1 ELSE 0)
        /\ answered[j] \subseteq answered'[j] /\ lost'[j] \in Nat /\ lost'[j] = lost[j]
    BY <1>1, <1>5, ScreeningParts DEF AnsweredChecks, AskedInv, MoreAnswered
  <2>2. CASE j = i /\ k = kind
    <3>1. checks'[j][k] = answer /\ asked'[j][k] = asked[i][kind] + 1
      BY <1>2, <1>3, <1>6, <1>7, <2>2, ScreeningParts
    <3>2. QED
      BY <1>5, <1>6, <2>1, <2>2, <3>1
  <2>3. CASE ~(j = i /\ k = kind)
    <3>1. checks'[j][k] = checks[j][k] /\ asked'[j][k] = asked[j][k]
      <4>1. CASE j = i
        BY <1>2, <1>3, <1>6, <1>7, <2>3, <4>1, ScreeningParts
      <4>2. CASE j # i
        BY <1>3, <1>7, <4>2, ScreeningParts
      <4>3. QED
        BY <4>1, <4>2
    <3>2. QED
      BY <2>1, <3>1
  <2>4. QED
    BY <2>2, <2>3
<1>10. AnsweredChecks(checks)' /\ AnsweredChecks(checksFile)' /\ AskedInv'
  <2>1. checksFile' = checks' \/ checksFile' = checksFile
    OBVIOUS
  <2>2. AnsweredChecks(checks)' /\ AskedInv'
    BY <1>9 DEF AnsweredChecks, AskedInv
  <2>3. AnsweredChecks(checksFile)'
    BY <1>9, <2>1 DEF AnsweredChecks
  <2>4. QED
    BY <2>2, <2>3
<1>11. QED
  BY <1>1, <1>3, <1>4, <1>5, <1>8, <1>10 DEF check

\* The end of a step that asked
LEMMA AskKeeps ==
    ASSUME ScreeningIInv, stage \in AtCandidate, stage' \in {"market", "regulation", "finish"},
           UNCHANGED <<dated, level, listed, results, recomputed, runs, leaking, lost>>,
           checks' \in [Issue -> Check], checksFile' \in [Issue -> Check],
           answered' \in [Issue -> SUBSET Reply], asked' \in [Issue -> [Kind -> Nat]], MoreAnswered,
           AnsweredChecks(checks)', AnsweredChecks(checksFile)', AskedInv',
           place' \in Nat, verdict' \in [Issue -> Conclusion], PlaceInv', VerdictInv'
    PROVE  ScreeningIInv'
<1>1. ScreeningRest'
  <2>1. ScreeningTypeOK'
    BY ScreeningParts DEF ScreeningTypeOK, ScreeningStage, Conclusion
  <2>2. QED
    BY <2>1, ScreeningParts DEF ScreeningRest, Reply
<1>2. ListedInv'
  BY ListedMoves
<1>3. ConfirmedOnly' /\ UnconfirmedStays'
  <2>1. \A l \in Level : Saved(l)' = Saved(l) /\ Saved(l) \subseteq Issue
    BY BandType, ScreeningParts DEF Saved
  <2>2. ConfirmedOnly'
    BY <2>1, ScreeningParts, ScreeningConstants DEF ConfirmedOnly, MoreAnswered
  <2>3. UnconfirmedStays'
    <3>1. SUFFICES ASSUME NEW l \in Level, Alternate(l),
                          \E result \in results[l] : Cardinality(result) < MAX_COUNT,
                          NEW k \in DOMAIN Ranked[l]
                   PROVE  \/ Ranked[l][k] \in Saved(l)
                          \/ answered'[Ranked[l][k]] \cap {"local", "restricted"} # {}
      BY <2>1 DEF UnconfirmedStays
    <3>2. \/ Ranked[l][k] \in Saved(l)
          \/ answered[Ranked[l][k]] \cap {"local", "restricted"} # {}
      BY <3>1, ScreeningParts DEF UnconfirmedStays
    <3>3. answered[Ranked[l][k]] \subseteq answered'[Ranked[l][k]]
      BY <3>1, BandType DEF MoreAnswered
    <3>4. QED
      BY <3>2, <3>3
  <2>4. QED
    BY <2>2, <2>3
<1>4. QED
  BY <1>1, <1>2, <1>3 DEF ScreeningIInv

LEMMA AskMarketKeeps == ASSUME ScreeningIInv, AskMarket PROVE ScreeningIInv'
<1> DEFINE i == Ranked[level][place]
<1>1. PICK answer \in Market \cup {"failed"}, written \in BOOLEAN :
         /\ Remember(i, "market", answer)
         /\ checksFile' = IF written THEN checks' ELSE checksFile
         /\ IF answer = "failed" \/ ~written
            THEN Conclude(Unconfirmed)
            ELSE stage' = "regulation" /\ UNCHANGED <<place, verdict>>
  BY DEF AskMarket, files
<1>2. /\ stage = "market" /\ checks[i].market = "none"
      /\ UNCHANGED <<dated, level, listed, results, recomputed, runs, leaking>>
  BY DEF AskMarket, files
<1>3. i \in Issue /\ checks[i] \in Check /\ stage \in AtCandidate
  BY <1>2, CandidateType DEF AtCandidate
<1>4. /\ checks' = [checks EXCEPT ![i] = [checks[i] EXCEPT !["market"] = answer]]
      /\ checks' \in [Issue -> Check] /\ checksFile' \in [Issue -> Check]
      /\ answered' \in [Issue -> SUBSET Reply] /\ asked' \in [Issue -> [Kind -> Nat]]
      /\ lost' = lost /\ MoreAnswered /\ answer \in answered'[i]
      /\ AnsweredChecks(checks)' /\ AnsweredChecks(checksFile)' /\ AskedInv'
  <2>1. /\ answer \in Reply \ {"none"} /\ "market" \in Kind /\ checksFile' \in {checks', checksFile}
        /\ checks[i]["market"] = "none"
    BY <1>1, <1>2 DEF Reply, Market, Rule, Kind
  <2>2. [checks[i] EXCEPT !["market"] = answer] \in Check
    BY <1>3 DEF Check
  <2>3. Remember(i, "market", answer)
    BY <1>1
  <2> HIDE DEF i
  <2>4. QED
    BY <1>3, <2>1, <2>2, <2>3, RememberKeeps
<1>5. /\ stage' \in {"finish", "market", "regulation"} /\ place' \in Nat
      /\ verdict' \in [Issue -> Conclusion] /\ PlaceInv' /\ VerdictInv'
  <2>1. CASE answer = "failed" \/ ~written
    <3>1. Unconfirmed \in Conclusion \ {"none", "free"} /\ (Unconfirmed = "kept" <=> Alternate(level))
      BY DEF Unconfirmed, Conclusion
    <3>2. Unconfirmed \in {"kept", "restricted"}
      BY DEF Unconfirmed
    <3>3. QED
      BY <1>1, <1>2, <1>3, <1>4, <2>1, <3>1, <3>2, ConclusionKeeps
  <2>2. CASE ~(answer = "failed" \/ ~written)
    <3>1. answer \in Market /\ checks'[i].market = answer
      BY <1>1, <1>3, <1>4, <2>2, ScreeningParts DEF Check
    <3>2. stage' = "regulation" /\ UNCHANGED <<dated, level, place, verdict>>
      BY <1>1, <1>2, <2>2
    <3>3. PlaceInv' /\ VerdictInv'
      BY <1>2, <1>4, <3>1, <3>2, MarketKnown
    <3>4. QED
      BY <3>2, <3>3, ScreeningParts
  <2>3. QED
    BY <2>1, <2>2
<1>6. QED
  BY <1>2, <1>3, <1>4, <1>5, AskKeeps

LEMMA AskRegulationKeeps == ASSUME ScreeningIInv, AskRegulation PROVE ScreeningIInv'
<1> DEFINE i == Ranked[level][place]
<1>1. PICK answer \in Rule \cup {"failed"}, written \in BOOLEAN :
         /\ Remember(i, "regulation", answer)
         /\ checksFile' = IF written THEN checks' ELSE checksFile
         /\ Conclude(IF answer = "failed" \/ ~written THEN Unconfirmed ELSE Confirmed(checks'[i]))
  BY DEF AskRegulation, files
<1>2. /\ stage = "regulation" /\ checks[i].regulation = "none"
      /\ UNCHANGED <<dated, level, listed, results, recomputed, runs, leaking>>
  BY DEF AskRegulation, files
<1>3. i \in Issue /\ checks[i] \in Check /\ stage \in AtCandidate /\ checks[i].market \in Market
  BY <1>2, CandidateType DEF AtCandidate
<1>4. /\ checks' = [checks EXCEPT ![i] = [checks[i] EXCEPT !["regulation"] = answer]]
      /\ checks' \in [Issue -> Check] /\ checksFile' \in [Issue -> Check]
      /\ answered' \in [Issue -> SUBSET Reply] /\ asked' \in [Issue -> [Kind -> Nat]]
      /\ lost' = lost /\ MoreAnswered /\ answer \in answered'[i]
      /\ AnsweredChecks(checks)' /\ AnsweredChecks(checksFile)' /\ AskedInv'
  <2>1. /\ answer \in Reply \ {"none"} /\ "regulation" \in Kind /\ checksFile' \in {checks', checksFile}
        /\ checks[i]["regulation"] = "none"
    BY <1>1, <1>2 DEF Reply, Market, Rule, Kind
  <2>2. [checks[i] EXCEPT !["regulation"] = answer] \in Check
    BY <1>3 DEF Check
  <2>3. Remember(i, "regulation", answer)
    BY <1>1
  <2> HIDE DEF i
  <2>4. QED
    BY <1>3, <2>1, <2>2, <2>3, RememberKeeps
<1> DEFINE concluded == IF answer = "failed" \/ ~written THEN Unconfirmed ELSE Confirmed(checks'[i])
<1>5. /\ concluded \in Conclusion \ {"none"}
      /\ concluded = "free" => {"prime", "free"} \subseteq answered'[i]
      /\ concluded = "kept" => Alternate(level)
      /\ Alternate(level) /\ concluded \in {"restricted", "local"}
            => answered'[i] \cap {"local", "restricted"} # {}
  <2>1. CASE answer = "failed" \/ ~written
    BY <2>1 DEF Unconfirmed, Conclusion
  <2>2. CASE ~(answer = "failed" \/ ~written)
    <3>1. /\ answer \in Rule /\ checks'[i].regulation = answer
          /\ checks'[i].market = checks[i].market /\ checks'[i] \in Check
      BY <1>1, <1>3, <1>4, <2>2, ScreeningParts DEF Check
    <3>2. {checks'[i].market, checks'[i].regulation} \subseteq answered'[i]
      <4>1. checks[i]["market"] # "none"
        BY <1>3 DEF Market
      <4>2. checks[i]["market"] \in answered[i] /\ answered[i] \subseteq answered'[i]
        BY <1>3, <1>4, <4>1, ScreeningParts DEF AnsweredChecks, Kind, MoreAnswered
      <4>3. QED
        BY <1>4, <3>1, <4>2
    <3>3. /\ Confirmed(checks'[i]) \in Conclusion \ {"none", "kept"}
          /\ Confirmed(checks'[i]) = "free" => {"prime", "free"} \subseteq answered'[i]
          /\ Confirmed(checks'[i]) \in {"restricted", "local"}
                => answered'[i] \cap {"local", "restricted"} # {}
      <4>1. PICK check : check = checks'[i]
        OBVIOUS
      <4>2. PICK known : known = answered'[i]
        OBVIOUS
      <4>3. check \in Check /\ check.market \in Market /\ check.regulation \in Rule
            /\ {check.market, check.regulation} \subseteq known
        BY <1>3, <3>1, <3>2, <4>1, <4>2
      <4>4. QED
        BY <4>1, <4>2, <4>3, ConfirmedAnswered
    <3>4. concluded = Confirmed(checks'[i])
      BY <2>2
    <3>5. QED
      BY <3>3, <3>4
  <2>3. QED
    BY <2>1, <2>2
<1>6. Conclude(concluded)
  BY <1>1
<1> HIDE DEF concluded
<1>7. /\ stage' \in {"finish", "market"} /\ place' \in Nat
      /\ verdict' \in [Issue -> Conclusion] /\ PlaceInv' /\ VerdictInv'
  <2>1. PICK o : o = concluded
    OBVIOUS
  <2>2. QED
    BY <1>2, <1>3, <1>4, <1>5, <1>6, <2>1, ConclusionKeeps
<1>8. QED
  BY <1>2, <1>3, <1>4, <1>7, AskKeeps

\* What a run with a date concludes is kept nowhere, and counts in no other run.
LEMMA JudgeDatedKeeps == ASSUME ScreeningIInv, JudgeDated PROVE ScreeningIInv'
<1>1. PICK market \in Market \cup {"failed"}, rule \in Rule \cup {"failed"} :
         Conclude(IF "failed" \in {market, rule} THEN Unconfirmed
                  ELSE Confirmed([market |-> market, regulation |-> rule]))
  BY DEF JudgeDated
<1> DEFINE concluded == IF "failed" \in {market, rule} THEN Unconfirmed
                        ELSE Confirmed([market |-> market, regulation |-> rule])
<1>2. /\ stage = "market" /\ dated
      /\ UNCHANGED <<dated, level, checks, checksFile, listed, results, recomputed, runs, answered,
                     asked, lost, leaking>>
  BY DEF JudgeDated, files, ghosts
<1>3. stage \in AtCandidate /\ MoreAnswered /\ ~Alternate(level)
  BY <1>2, ScreeningParts DEF AtCandidate, MoreAnswered, Alternate
<1>4. concluded \in {"restricted", "local", "free"}
  BY <1>3 DEF Unconfirmed, Confirmed
<1>5. Conclude(concluded)
  BY <1>1
<1> HIDE DEF concluded
<1>6. concluded \in Conclusion \ {"none"} /\ concluded # "kept"
  BY <1>4 DEF Conclusion
<1>7. /\ stage' \in {"finish", "market"} /\ place' \in Nat
      /\ verdict' \in [Issue -> Conclusion] /\ PlaceInv' /\ VerdictInv'
  BY <1>2, <1>3, <1>5, <1>6, ConclusionKeeps
<1>8. ListedInv'
  BY <1>2, <1>3, <1>7, ListedMoves
<1>9. QED
  BY <1>2, <1>7, <1>8, ScreeningParts, ScreeningMoves DEF ScreeningStage

-----------------------------------------------------------------------------
(* Screening: the theorem *)

LEMMA ScreeningInitially == ScreeningInit => ScreeningIInv
<1> SUFFICES ASSUME ScreeningInit PROVE ScreeningIInv
  OBVIOUS
<1>1. /\ stage = "idle" /\ level = 1 /\ place = 1 /\ listed = {} /\ runs = 0 /\ leaking = FALSE
      /\ dated = FALSE /\ recomputed = FALSE
      /\ checks = [i \in Issue |-> NoCheck] /\ checksFile = [i \in Issue |-> NoCheck]
      /\ verdict = [i \in Issue |-> "none"] /\ results = [l \in Level |-> {}]
      /\ answered = [i \in Issue |-> {}] /\ asked = [i \in Issue |-> [k \in Kind |-> 0]]
      /\ lost = [i \in Issue |-> 0]
  BY DEF ScreeningInit
<1>2. NoCheck \in Check /\ \A k \in Kind : NoCheck[k] = "none"
  BY DEF NoCheck, Check, Kind
<1>3. ScreeningTypeOK
  <2>1. Cardinality({}) = 0
    BY FS_EmptySet
  <2>2. \A l \in Level : results[l] \subseteq SUBSET DOMAIN Ranked[l] /\ Cardinality(results[l]) <= 1
    BY <1>1, <2>1
  <2>3. checks \in [Issue -> Check] /\ checksFile \in [Issue -> Check]
    BY <1>1, <1>2
  <2>4. verdict \in [Issue -> Conclusion] /\ runs \in 0..MaxRuns
    BY <1>1, ScreeningConstants DEF Conclusion
  <2>5. QED
    BY <1>1, <2>2, <2>3, <2>4, ScreeningConstants DEF ScreeningTypeOK, Conclusion
<1>4. ScreeningRest
  <2>1. results \in [Level -> SUBSET (SUBSET Nat)] /\ lost \in [Issue -> Nat]
    BY <1>1
  <2>2. answered \in [Issue -> SUBSET (Market \cup Rule \cup {"failed"})]
    BY <1>1
  <2>3. asked \in [Issue -> [Kind -> Nat]]
    BY <1>1
  <2>4. QED
    BY <1>1, <1>3, <2>1, <2>2, <2>3 DEF ScreeningRest
<1>5. AnsweredChecks(checks) /\ AnsweredChecks(checksFile) /\ AskedInv
  <2>1. \A i \in Issue, k \in Kind :
           checks[i][k] = "none" /\ checksFile[i][k] = "none" /\ asked[i][k] = 0 /\ lost[i] = 0
    BY <1>1, <1>2
  <2>2. QED
    BY <2>1 DEF AnsweredChecks, AskedInv
<1>6. PlaceInv /\ VerdictInv
  BY <1>1 DEF PlaceInv, VerdictInv, InBand
<1>7. ListedInv
  BY <1>1, NothingListed DEF ListedInv
<1>8. ConfirmedOnly /\ UnconfirmedStays
  BY <1>1, ScreeningConstants DEF ConfirmedOnly, UnconfirmedStays, Saved
<1>9. QED
  BY <1>4, <1>5, <1>6, <1>7, <1>8 DEF ScreeningIInv

LEMMA ScreeningInductive == ScreeningIInv /\ [ScreeningNext]_screeningVars => ScreeningIInv'
<1> SUFFICES ASSUME ScreeningIInv, [ScreeningNext]_screeningVars PROVE ScreeningIInv'
  OBVIOUS
<1>1. CASE StartScreening
  BY <1>1, StartScreeningKeeps
<1>2. CASE NoRanking
  BY <1>2, NoRankingKeeps
<1>3. CASE Rank
  BY <1>3, RankKeeps
<1>4. CASE RegisterBatch
  BY <1>4, RegisterBatchKeeps
<1>5. CASE RegisterFails
  BY <1>5, RegisterFailsKeeps
<1>6. CASE KnownMarket
  BY <1>6, KnownMarketKeeps
<1>7. CASE AskMarket
  BY <1>7, AskMarketKeeps
<1>8. CASE KnownRegulation
  BY <1>8, KnownRegulationKeeps
<1>9. CASE AskRegulation
  BY <1>9, AskRegulationKeeps
<1>10. CASE FinishBatch
  BY <1>10, FinishBatchKeeps
<1>11. CASE FinishFails
  BY <1>11, FinishFailsKeeps
<1>12. CASE SaveScreening
  BY <1>12, SaveScreeningKeeps
<1>13. CASE SavingFails
  BY <1>13, SavingFailsKeeps
<1>14. CASE Cleanup
  BY <1>14, CleanupKeeps
<1>15. CASE NextLevel
  BY <1>15, NextLevelKeeps
<1>16. CASE ScreeningDies
  BY <1>16, ScreeningDiesKeeps
<1>17. CASE UNCHANGED screeningVars
  <2>1. UNCHANGED <<stage, dated, level, place, checks, checksFile, verdict, listed, results,
                    recomputed, runs, answered, asked, lost, leaking>>
    BY <1>17 DEF screeningVars
  <2>2. PlaceInv' /\ VerdictInv' /\ ListedInv'
    BY <2>1, ScreeningParts DEF PlaceInv, VerdictInv, ListedInv, Alternate
  <2>3. QED
    BY <2>1, <2>2, ScreeningParts, ScreeningMoves
<1>18. CASE JudgeDated
  BY <1>18, JudgeDatedKeeps
<1>19. QED
  BY <1>1, <1>2, <1>3, <1>4, <1>5, <1>6, <1>7, <1>8, <1>9, <1>10, <1>11, <1>12, <1>13, <1>14,
     <1>15, <1>16, <1>17, <1>18 DEF ScreeningNext

LEMMA ScreeningImplied == ScreeningIInv => ScreeningTypeOK /\ ScreeningSound
<1> SUFFICES ASSUME ScreeningIInv PROVE ScreeningTypeOK /\ ScreeningSound
  OBVIOUS
<1>1. AskedOnce
  <2>1. ASSUME NEW i \in Issue, NEW k \in Kind PROVE asked[i][k] <= 1 + lost[i]
    <3>1. /\ asked[i][k] <= lost[i] + (IF checks[i][k] # "none" THEN 1 ELSE 0)
          /\ lost[i] \in Nat /\ asked[i][k] \in Nat
      BY ScreeningParts DEF AskedInv
    <3>2. QED
      BY <3>1
  <2>2. QED
    BY <2>1 DEF AskedOnce
<1>2. RegistrationsBounded
  BY ScreeningParts DEF ListedInv, RegistrationsBounded
<1>3. QED
  BY <1>1, <1>2, ScreeningParts DEF ScreeningSound, ScreeningIInv, ScreeningRest

\* A candidate of the traded band was confirmed by the station unless the result in the file is
\* that of a run with --date, which changes nothing for the other runs; an alternate band leaves out
\* only what the station refuses, a check is asked for once but for lost answers, and no
\* more than a batch is registered (screening_usecase.py), whatever fails, dies or is run again.
THEOREM AlwaysScreenedSoundly == ScreeningSpec => [](ScreeningTypeOK /\ ScreeningSound)
BY ScreeningInitially, ScreeningInductive, ScreeningImplied, PTL DEF ScreeningSpec

-----------------------------------------------------------------------------
(* Filtering *)

AtBand == {"prefetch", "scan", "average", "retry", "timedOut", "result"}
Deciding == {"scan", "average", "retry"}
RecordStatus == {"none", "pending", "evaluated", "skipped", "partial", "not_evaluated"}
FilteringSteps == AtBand \cup {"clear", "release", "rescue", "done", "failed"}
Remembered == Answer \cup {"unknown"}

\* A candidate was scored, or counted as skipped.
Concluded(b, c) == status[b][c] = "evaluated" \/ (status[b][c] = "skipped" /\ skips[b][c] = 1)

FilteringShape ==
    /\ clock \in Hour
    /\ step \in FilteringSteps
    /\ band \in Band
    /\ board \in [Candidate -> Remembered]
    /\ rounds \in [Candidate -> [1..MAX_ROUNDS -> Remembered]]
    /\ blocked \in BOOLEAN /\ registered \in BOOLEAN
    /\ prefetched \subseteq Candidate
    /\ next \in Nat /\ (step # "prefetch" => next <= Len(Screened[band]) + 1 /\ next >= 1)
    /\ round \in 0..(MAX_ROUNDS + 1)
    /\ cutoff \subseteq Band /\ broken \subseteq Band /\ saved \subseteq Band

RecordTypes ==
    /\ DOMAIN status = Band /\ DOMAIN scored = Band /\ DOMAIN skips = Band
    /\ \A b \in Band : /\ status[b] \in [Of(b) -> RecordStatus]
                       /\ scored[b] \in [Of(b) -> Nat] /\ skips[b] \in [Of(b) -> Nat]

\* The counts follow from the status, but for a skip that a deadline left uncounted.
RecordInv ==
    \A b \in Band : \A c \in Of(b) :
        /\ scored[b][c] = (IF status[b][c] = "evaluated" THEN 1 ELSE 0)
        /\ skips[b][c] <= (IF status[b][c] = "skipped" THEN 1 ELSE 0)

\* Bands that were not begun
FutureInv ==
    \A b \in Band : b > band \/ (b = band /\ step = "prefetch") =>
        \A c \in Of(b) : status[b][c] = "none"

\* How far the band is
DecidedInv ==
    /\ step \in {"scan", "average"} =>
          \A i \in DOMAIN Screened[band] :
              LET c == Screened[band][i]
              IN  IF i < next THEN status[band][c] = "pending" \/ Concluded(band, c)
                              ELSE status[band][c] = "none"
    /\ step = "average" => next <= Len(Screened[band]) /\ board[Screened[band][next]] = "full"
    /\ step = "retry" => \A c \in Of(band) : status[band][c] = "pending" \/ Concluded(band, c)
    /\ step = "result" => \A c \in Of(band) : Concluded(band, c)

\* The results that are saved
SavedInv ==
    /\ \A b \in saved : /\ b <= band /\ (b = band => step \notin AtBand)
                        /\ \A c \in Of(b) : Concluded(b, c)
    /\ step = "timedOut" => band > 1
    /\ step = "clear" => band = 1 /\ 1 \in saved
    /\ TradedBandFirst

\* What is remembered of a board
BoardInv ==
    /\ \A c \in Candidate, r \in 1..MAX_ROUNDS :
          /\ rounds[c][r] # "unknown" => board[c] # "unknown" /\ c \in prefetched
          /\ rounds[c][r] = "full" => board[c] = "full"
    /\ step \in Deciding => Of(band) \subseteq prefetched \/ (band > 1 /\ clock = 3)
    /\ step \in Deciding /\ band \notin cutoff =>
          \A c \in Of(band) : status[band][c] = "pending" => board[c] \in {"noTurnover", "noPrice"}
    /\ step \in Deciding =>
          \A c \in Of(band) : status[band][c] = "skipped" => board[c] # "noTurnover"

\* What the retry has done for those without turnover
RetryInv ==
    /\ step = "retry" => round >= 1
    /\ step = "retry" /\ band \notin cutoff \cup broken =>
          \A c \in Of(band), r \in 1..MAX_ROUNDS :
              status[band][c] = "pending" /\ r < round => rounds[c][r] # "unknown"
    /\ (step = "result" \/ band \in saved) /\ band \notin cutoff \cup broken =>
          \A c \in Of(band), r \in 1..MAX_ROUNDS :
              status[band][c] = "skipped" /\ board[c] = "noTurnover" => rounds[c][r] # "unknown"

FilteringIInv ==
    /\ FilteringShape
    /\ RecordTypes
    /\ RecordInv
    /\ FutureInv
    /\ DecidedInv
    /\ SavedInv
    /\ BoardInv
    /\ RetryInv
    /\ AnswersUsed
    /\ Released

-----------------------------------------------------------------------------
(* Filtering: constants and types *)

LEMMA FilteringConstants ==
    /\ MAX_ROUNDS \in Nat /\ Band = 1..Len(Screened) /\ Len(Screened) \in Nat /\ 1 \in Band
    /\ \A b \in Band : b \in Nat /\ b >= 1 /\ b <= Len(Screened)
<1>1. MAX_ROUNDS \in Nat /\ Screened \in Seq(Seq(Candidate)) /\ Len(Screened) > 0
  BY FilteringAssumption
<1>2. QED
  BY <1>1 DEF Band

LEMMA BandOfCandidates ==
    ASSUME NEW b \in Band
    PROVE  /\ Len(Screened[b]) \in Nat /\ DOMAIN Screened[b] = 1..Len(Screened[b])
           /\ \A i \in DOMAIN Screened[b] : Screened[b][i] \in Of(b)
           /\ \A c \in Of(b) : \E i \in DOMAIN Screened[b] : c = Screened[b][i]
           /\ Of(b) \subseteq Candidate
           /\ \A i, j \in DOMAIN Screened[b] : Screened[b][i] = Screened[b][j] => i = j
<1>1. Screened \in Seq(Seq(Candidate)) /\ DOMAIN Screened = Band
  BY FilteringAssumption DEF Band
<1>2. Screened[b] \in Seq(Candidate)
  BY <1>1
<1>3. /\ Len(Screened[b]) \in Nat /\ DOMAIN Screened[b] = 1..Len(Screened[b])
      /\ \A i \in DOMAIN Screened[b] : Screened[b][i] \in Candidate
  BY <1>2
<1>4. \A i, j \in DOMAIN Screened[b] : Screened[b][i] = Screened[b][j] => i = j
  BY <1>1, FilteringAssumption
<1>5. QED
  BY <1>3, <1>4 DEF Of

LEMMA FilteringParts ==
    ASSUME FilteringIInv
    PROVE  /\ clock \in 0..3 /\ clock \in Nat /\ step \in FilteringSteps /\ band \in Band /\ band \in Nat
           /\ board \in [Candidate -> Remembered]
           /\ rounds \in [Candidate -> [1..MAX_ROUNDS -> Remembered]]
           /\ blocked \in BOOLEAN /\ registered \in BOOLEAN /\ prefetched \subseteq Candidate
           /\ next \in Nat /\ (step # "prefetch" => next <= Len(Screened[band]) + 1 /\ next >= 1)
           /\ round \in 0..(MAX_ROUNDS + 1) /\ round \in Nat
           /\ cutoff \subseteq Band /\ broken \subseteq Band /\ saved \subseteq Band
           /\ RecordTypes /\ RecordInv /\ FutureInv /\ DecidedInv /\ SavedInv /\ BoardInv /\ RetryInv
           /\ AnswersUsed /\ Released
BY FilteringConstants DEF FilteringIInv, FilteringShape, Hour

Elsewhere == \A b \in Band \ {band} : status'[b] = status[b] /\ skips'[b] = skips[b]

\* A step that changes the records of one band
LEMMA RecordsOfBand ==
    ASSUME FilteringIInv,
           DOMAIN status' = Band, DOMAIN scored' = Band, DOMAIN skips' = Band,
           status'[band] \in [Of(band) -> RecordStatus], scored'[band] \in [Of(band) -> Nat],
           skips'[band] \in [Of(band) -> Nat],
           \A b \in Band \ {band} :
               status'[b] = status[b] /\ scored'[b] = scored[b] /\ skips'[b] = skips[b],
           \A c \in Of(band) :
               /\ scored'[band][c] = (IF status'[band][c] = "evaluated" THEN 1 ELSE 0)
               /\ skips'[band][c] <= (IF status'[band][c] = "skipped" THEN 1 ELSE 0)
    PROVE  RecordTypes' /\ RecordInv' /\ Elsewhere
<1>1. /\ band \in Band
      /\ \A b \in Band : /\ status[b] \in [Of(b) -> RecordStatus]
                         /\ scored[b] \in [Of(b) -> Nat] /\ skips[b] \in [Of(b) -> Nat]
  BY FilteringParts DEF RecordTypes
<1>2. RecordTypes'
  <2>1. ASSUME NEW b \in Band
        PROVE  /\ status'[b] \in [Of(b) -> RecordStatus]
               /\ scored'[b] \in [Of(b) -> Nat] /\ skips'[b] \in [Of(b) -> Nat]
    <3>1. CASE b = band
      BY <3>1
    <3>2. CASE b # band
      BY <1>1, <3>2
    <3>3. QED
      BY <3>1, <3>2
  <2>2. QED
    BY <2>1 DEF RecordTypes
<1>3. RecordInv'
  <2>1. ASSUME NEW b \in Band, NEW c \in Of(b)
        PROVE  /\ scored'[b][c] = (IF status'[b][c] = "evaluated" THEN 1 ELSE 0)
               /\ skips'[b][c] <= (IF status'[b][c] = "skipped" THEN 1 ELSE 0)
    <3>1. CASE b = band
      BY <3>1
    <3>2. CASE b # band
      BY <3>2, FilteringParts DEF RecordInv
    <3>3. QED
      BY <3>1, <3>2
  <2>2. QED
    BY <2>1 DEF RecordInv
<1>4. QED
  BY <1>2, <1>3 DEF Elsewhere

LEMMA BandRecords ==
    ASSUME FilteringIInv
    PROVE  /\ DOMAIN status = Band /\ DOMAIN scored = Band /\ DOMAIN skips = Band /\ band \in Band
           /\ status[band] \in [Of(band) -> RecordStatus]
           /\ scored[band] \in [Of(band) -> Nat] /\ skips[band] \in [Of(band) -> Nat]
           /\ \A c \in Of(band) :
                 /\ scored[band][c] = (IF status[band][c] = "evaluated" THEN 1 ELSE 0)
                 /\ skips[band][c] <= (IF status[band][c] = "skipped" THEN 1 ELSE 0)
BY FilteringParts DEF RecordTypes, RecordInv

\* A step within a band, which leaves the others alone
LEMMA StillInBand ==
    ASSUME FilteringIInv, band' = band, saved' = saved, Elsewhere,
           step \in AtBand, step' \in AtBand \ {"prefetch"}, step' = "timedOut" => band > 1
    PROVE  FutureInv' /\ SavedInv'
<1>1. FutureInv'
  BY FilteringParts DEF FutureInv, Elsewhere
<1>2. \A b \in saved : b \in Band \ {band} /\ b <= band /\ \A c \in Of(b) : Concluded(b, c)
  BY FilteringParts DEF SavedInv
<1>3. \A b \in saved : \A c \in Of(b) : Concluded(b, c)'
  BY <1>2 DEF Elsewhere, Concluded
<1>4. step' # "clear"
  BY DEF AtBand
<1>5. QED
  BY <1>1, <1>2, <1>3, <1>4, FilteringParts DEF SavedInv, TradedBandFirst

-----------------------------------------------------------------------------
(* Filtering: the steps that change no record *)

\* A step that decides nothing
LEMMA NothingDecided ==
    ASSUME FilteringIInv, UNCHANGED <<status, scored, skips, wasted>>,
           cutoff \subseteq cutoff', broken \subseteq broken'
    PROVE  RecordTypes' /\ RecordInv' /\ AnswersUsed' /\ Elsewhere
BY FilteringParts DEF RecordTypes, RecordInv, AnswersUsed, Elsewhere

LEMMA TimeGoesOnKeeps == ASSUME FilteringIInv, TimeGoesOn PROVE FilteringIInv'
<1>1. /\ clock < 3 /\ clock' = clock + 1
      /\ UNCHANGED <<step, band, board, rounds, blocked, registered, prefetched, next, status, scored,
                     skips, round, cutoff, broken, wasted, saved>>
  BY DEF TimeGoesOn, cacheVars, recordVars, retryVars
<1>2. FilteringShape'
  BY <1>1, FilteringParts DEF FilteringShape, Hour
<1>3. FutureInv' /\ DecidedInv' /\ SavedInv' /\ RetryInv' /\ Released'
  BY <1>1, FilteringParts DEF FutureInv, DecidedInv, Concluded, SavedInv, TradedBandFirst, RetryInv, Released, Finished
<1>4. BoardInv'
  <2>1. ~(clock = 3)
    BY <1>1, FilteringParts
  <2>2. QED
    BY <1>1, <2>1, FilteringParts DEF BoardInv
<1>5. RecordTypes' /\ RecordInv' /\ AnswersUsed'
  BY <1>1, NothingDecided
<1>6. QED
  BY <1>2, <1>3, <1>4, <1>5 DEF FilteringIInv

LEMMA PrefetchKeeps == ASSUME FilteringIInv, Prefetch PROVE FilteringIInv'
<1> DEFINE wanted == Of(band) \ prefetched
<1>1. PICK moment \in {h \in Hour : h >= clock}, notStarted \in SUBSET wanted, refused \in SUBSET wanted,
           answer \in [wanted -> Answer] :
        /\ notStarted \cap refused = {}
        /\ notStarted # {} => band > 1 /\ moment = 3
        /\ DeadlinePassed(band) => notStarted = wanted
        /\ blocked => refused = wanted \ notStarted
        /\ LET read == wanted \ (notStarted \cup refused)
           IN  /\ board' = [c \in Candidate |-> IF c \in read THEN answer[c] ELSE board[c]]
               /\ registered' = (registered \/ read # {})
        /\ blocked' = (blocked \/ refused # {})
        /\ prefetched' = prefetched \cup (wanted \ notStarted)
        /\ clock' = moment
  BY Zenon DEF Prefetch
<1>2. /\ step = "prefetch" /\ step' = "scan" /\ next' = 1
      /\ UNCHANGED <<band, rounds, status, scored, skips, round, cutoff, broken, wasted, saved>>
  BY DEF Prefetch, recordVars, retryVars
<1>3. /\ board' \in [Candidate -> Remembered]
      /\ \A c \in Candidate : /\ c \notin wanted => board'[c] = board[c]
                              /\ board[c] # "unknown" => board'[c] # "unknown"
  <2> DEFINE read == wanted \ (notStarted \cup refused)
  <2>1. board' = [c \in Candidate |-> IF c \in read THEN answer[c] ELSE board[c]]
    BY <1>1
  <2>2. read \subseteq wanted
    OBVIOUS
  <2>3. \A c \in read : answer[c] \in Answer /\ answer[c] # "unknown"
    BY <2>2 DEF Answer
  <2> HIDE DEF wanted, read
  <2>4. QED
    BY <2>1, <2>2, <2>3, FilteringParts DEF Remembered
<1>4. FilteringShape'
  <2>1. clock' \in Hour
    BY <1>1
  <2>2. prefetched' \subseteq Candidate /\ blocked' \in BOOLEAN /\ registered' \in BOOLEAN
    BY <1>1, FilteringParts, BandOfCandidates
  <2>3. next' \in Nat /\ next' <= Len(Screened[band]) + 1 /\ next' >= 1
    BY <1>2, FilteringParts, BandOfCandidates
  <2>4. QED
    BY <1>2, <1>3, <2>1, <2>2, <2>3, FilteringParts DEF FilteringShape, FilteringSteps, AtBand
<1>5. RecordTypes' /\ RecordInv' /\ AnswersUsed' /\ Elsewhere
  BY <1>2, NothingDecided
<1>6. FutureInv' /\ SavedInv'
  BY <1>2, <1>5, StillInBand DEF AtBand
<1>7. \A c \in Of(band) : status[band][c] = "none"
  BY <1>2, FilteringParts DEF FutureInv
<1>8. DecidedInv'
  <2>1. \A i \in DOMAIN Screened[band] : i \in Nat /\ ~(i < 1) /\ Screened[band][i] \in Of(band)
    BY BandOfCandidates, FilteringParts
  <2>2. QED
    BY <1>2, <1>7, <2>1 DEF DecidedInv
<1>9. BoardInv'
  <2>1. \A c \in Candidate, r \in 1..MAX_ROUNDS :
          /\ rounds'[c][r] # "unknown" => board'[c] # "unknown" /\ c \in prefetched'
          /\ rounds'[c][r] = "full" => board'[c] = "full"
    <3>1. prefetched \subseteq prefetched'
      BY <1>1
    <3>2. SUFFICES ASSUME NEW c \in Candidate, NEW r \in 1..MAX_ROUNDS, rounds[c][r] # "unknown"
                   PROVE  /\ board'[c] # "unknown" /\ c \in prefetched'
                          /\ rounds[c][r] = "full" => board'[c] = "full"
      BY <1>2
    <3>3. board[c] # "unknown" /\ c \in prefetched /\ (rounds[c][r] = "full" => board[c] = "full")
      BY <3>2, FilteringParts DEF BoardInv
    <3>4. QED
      BY <1>3, <3>1, <3>3
  <2>2. Of(band) \subseteq prefetched' \/ (band > 1 /\ clock' = 3)
    <3>1. notStarted = {} => Of(band) \subseteq prefetched'
      BY <1>1
    <3>2. QED
      BY <1>1, <3>1
  <2>3. QED
    BY <1>2, <1>7, <2>1, <2>2 DEF BoardInv
<1>10. RetryInv'
  <2>1. band \notin saved
    BY <1>2, FilteringParts DEF SavedInv, AtBand
  <2>2. QED
    BY <1>2, <2>1 DEF RetryInv
<1>11. Released'
  BY <1>2 DEF Released, Finished
<1>12. QED
  BY <1>4, <1>5, <1>6, <1>8, <1>9, <1>10, <1>11 DEF FilteringIInv

LEMMA EndScanKeeps == ASSUME FilteringIInv, EndScan PROVE FilteringIInv'
<1>1. /\ step = "scan" /\ round' = 1
      /\ UNCHANGED <<clock, band, board, rounds, blocked, registered, prefetched, next, status, scored,
                     skips, cutoff, broken, wasted, saved>>
      /\ \/ next > Len(Screened[band]) /\ step' = IF Pending = {} THEN "result" ELSE "retry"
         \/ TimeIsUp /\ step' = "timedOut"
  BY DEF EndScan, cacheVars, recordVars
<1>2. step' = "timedOut" => band > 1
  BY <1>1 DEF TimeIsUp, DeadlinePassed
<1>3. step' \in {"result", "retry", "timedOut"}
  BY <1>1
<1>4. FilteringShape'
  BY <1>1, <1>3, FilteringParts, FilteringConstants DEF FilteringShape, FilteringSteps, AtBand, Hour
<1>5. RecordTypes' /\ RecordInv' /\ AnswersUsed' /\ Elsewhere
  BY <1>1, NothingDecided
<1>6. FutureInv' /\ SavedInv'
  BY <1>1, <1>2, <1>3, <1>5, StillInBand DEF AtBand
<1>7. step' # "timedOut" => \A c \in Of(band) : status[band][c] = "pending" \/ Concluded(band, c)
  <2>1. SUFFICES ASSUME next > Len(Screened[band]), NEW c \in Of(band)
                 PROVE  status[band][c] = "pending" \/ Concluded(band, c)
    BY <1>1
  <2>2. PICK i \in DOMAIN Screened[band] : c = Screened[band][i]
    BY BandOfCandidates, FilteringParts
  <2>3. i < next
    BY <2>1, BandOfCandidates, FilteringParts
  <2>4. QED
    BY <1>1, <2>2, <2>3, FilteringParts DEF DecidedInv
<1>8. step' = "result" => Pending = {}
  BY <1>1
<1>9. DecidedInv'
  <2>1. step' = "result" => \A c \in Of(band) : Concluded(band, c)
    BY <1>3, <1>7, <1>8 DEF Pending
  <2>2. QED
    BY <1>1, <1>3, <1>7, <2>1 DEF DecidedInv, Concluded
<1>10. BoardInv'
  BY <1>1, <1>3, FilteringParts DEF BoardInv, Deciding
<1>11. RetryInv'
  <2>1. band \notin saved
    BY <1>1, FilteringParts DEF SavedInv, AtBand
  <2>2. \A c \in Of(band) : status[band][c] = "skipped" => board[c] # "noTurnover"
    BY <1>1, FilteringParts DEF BoardInv, Deciding
  <2>3. \A r \in 1..MAX_ROUNDS : ~(r < 1)
    OBVIOUS
  <2>4. QED
    BY <1>1, <1>3, <2>1, <2>2, <2>3 DEF RetryInv
<1>12. Released'
  BY <1>3 DEF Released, Finished
<1>13. QED
  BY <1>4, <1>5, <1>6, <1>9, <1>10, <1>11, <1>12 DEF FilteringIInv

-----------------------------------------------------------------------------
(* Filtering: the loop over the candidates *)

\* The candidate that is next was not decided before.
LEMMA NextCandidate ==
    ASSUME FilteringIInv, step \in {"scan", "average"}, next <= Len(Screened[band])
    PROVE  /\ next \in DOMAIN Screened[band] /\ Screened[band][next] \in Of(band)
           /\ Screened[band][next] \in Candidate
           /\ status[band][Screened[band][next]] = "none"
<1>1. next >= 1 /\ next \in Nat /\ band \in Band
  BY FilteringParts
<1>2. next \in DOMAIN Screened[band]
  BY <1>1, BandOfCandidates
<1>3. ~(next < next)
  BY <1>1
<1>4. QED
  BY <1>1, <1>2, <1>3, BandOfCandidates, FilteringParts DEF DecidedInv

\* It is decided.
LEMMA OneDecided ==
    ASSUME FilteringIInv, step \in {"scan", "average"}, next <= Len(Screened[band]),
           NEW o \in {"pending", "skipped", "evaluated", "partial"},
           status' = [status EXCEPT ![band][Screened[band][next]] = o],
           \/ o # "evaluated" /\ scored' = scored
           \/ scored' = [scored EXCEPT ![band][Screened[band][next]] = IF o = "evaluated" THEN @ + 1 ELSE @],
           \/ o # "skipped" /\ skips' = skips
           \/ skips' = [skips EXCEPT ![band][Screened[band][next]] = IF o = "skipped" THEN @ + 1 ELSE @]
    PROVE  /\ RecordTypes' /\ RecordInv' /\ Elsewhere
           /\ status'[band][Screened[band][next]] = o
           /\ skips'[band][Screened[band][next]] = (IF o = "skipped" THEN 1 ELSE 0)
           /\ \A d \in Of(band) \ {Screened[band][next]} :
                 status'[band][d] = status[band][d] /\ skips'[band][d] = skips[band][d]
<1> DEFINE c == Screened[band][next]
<1>1. c \in Of(band) /\ status[band][c] = "none"
  BY NextCandidate
<1> HIDE DEF c
<1>2. /\ status' = [status EXCEPT ![band][c] = o]
      /\ \/ o # "evaluated" /\ scored' = scored
         \/ scored' = [scored EXCEPT ![band][c] = IF o = "evaluated" THEN @ + 1 ELSE @]
      /\ \/ o # "skipped" /\ skips' = skips
         \/ skips' = [skips EXCEPT ![band][c] = IF o = "skipped" THEN @ + 1 ELSE @]
  BY DEF c
<1>3. scored[band][c] = 0 /\ skips[band][c] = 0
  BY <1>1, BandRecords
<1>4. /\ DOMAIN status' = Band /\ DOMAIN scored' = Band /\ DOMAIN skips' = Band
      /\ \A b \in Band \ {band} :
            status'[b] = status[b] /\ scored'[b] = scored[b] /\ skips'[b] = skips[b]
  BY <1>2, BandRecords
<1>5. /\ status'[band] \in [Of(band) -> RecordStatus] /\ status'[band][c] = o
      /\ \A d \in Of(band) \ {c} : status'[band][d] = status[band][d]
  BY <1>1, <1>2, BandRecords DEF RecordStatus
<1>6. /\ scored'[band] \in [Of(band) -> Nat] /\ scored'[band][c] = (IF o = "evaluated" THEN 1 ELSE 0)
      /\ \A d \in Of(band) \ {c} : scored'[band][d] = scored[band][d]
  BY <1>1, <1>2, <1>3, BandRecords
<1>7. /\ skips'[band] \in [Of(band) -> Nat] /\ skips'[band][c] = (IF o = "skipped" THEN 1 ELSE 0)
      /\ \A d \in Of(band) \ {c} : skips'[band][d] = skips[band][d]
  BY <1>1, <1>2, <1>3, BandRecords
<1>8. ASSUME NEW d \in Of(band)
      PROVE  /\ scored'[band][d] = (IF status'[band][d] = "evaluated" THEN 1 ELSE 0)
             /\ skips'[band][d] <= (IF status'[band][d] = "skipped" THEN 1 ELSE 0)
  BY <1>5, <1>6, <1>7, BandRecords
<1>9. RecordTypes' /\ RecordInv' /\ Elsewhere
  BY <1>4, <1>5, <1>6, <1>7, <1>8, RecordsOfBand
<1>10. QED
  BY <1>5, <1>7, <1>9 DEF c

\* Then the loop is one further.
LEMMA OneFurther ==
    ASSUME FilteringIInv, step \in {"scan", "average"}, next <= Len(Screened[band]), band' = band,
           NEW o \in {"pending", "skipped", "evaluated"}, next' = next + 1, step' = "scan",
           status'[band][Screened[band][next]] = o,
           skips'[band][Screened[band][next]] = (IF o = "skipped" THEN 1 ELSE 0),
           \A d \in Of(band) \ {Screened[band][next]} :
               status'[band][d] = status[band][d] /\ skips'[band][d] = skips[band][d]
    PROVE  DecidedInv' /\ next' \in Nat /\ next' <= Len(Screened[band]) + 1 /\ next' >= 1
<1>1. /\ next \in Nat /\ next >= 1 /\ band \in Band /\ next \in DOMAIN Screened[band]
      /\ Len(Screened[band]) \in Nat
  BY FilteringParts, NextCandidate, BandOfCandidates
<1>2. ASSUME NEW i \in DOMAIN Screened[band]
      PROVE  IF i < next + 1
             THEN \/ status'[band][Screened[band][i]] = "pending"
                  \/ Concluded(band, Screened[band][i])'
             ELSE status'[band][Screened[band][i]] = "none"
  <2>1. i \in Nat /\ Screened[band][i] \in Of(band)
    BY <1>1, BandOfCandidates
  <2>2. CASE i = next
    <3>1. i < next + 1
      BY <1>1, <2>2
    <3>2. QED
      BY <2>2, <3>1 DEF Concluded
  <2>3. CASE i # next
    <3>1. Screened[band][i] # Screened[band][next]
      BY <1>1, <2>3, BandOfCandidates
    <3>2. i < next + 1 <=> i < next
      BY <1>1, <2>1, <2>3
    <3>3. IF i < next
          THEN status[band][Screened[band][i]] = "pending" \/ Concluded(band, Screened[band][i])
          ELSE status[band][Screened[band][i]] = "none"
      BY FilteringParts DEF DecidedInv
    <3>4. QED
      BY <2>1, <3>1, <3>2, <3>3 DEF Concluded
  <2>4. QED
    BY <2>2, <2>3
<1>3. DecidedInv'
  BY <1>2 DEF DecidedInv, Concluded
<1>4. QED
  BY <1>1, <1>3

\* The board of the candidate is known or could not be had.
LEMMA LookKeeps ==
    ASSUME FilteringIInv, step = "scan", next <= Len(Screened[band]),
           NEW answer \in Answer, Look(Screened[band][next], answer),
           board' \in [Candidate -> Remembered],
           \A d \in Candidate \ {Screened[band][next]} : board'[d] = board[d],
           board[Screened[band][next]] # "unknown" =>
               board'[Screened[band][next]] = board[Screened[band][next]],
           \/ board'[Screened[band][next]] = answer
           \/ answer = "error" /\ board'[Screened[band][next]] = "unknown",
           blocked' \in BOOLEAN, registered' \in BOOLEAN,
           UNCHANGED <<clock, band, rounds, prefetched, round, cutoff, broken, wasted, saved>>
    PROVE  FilteringIInv'
<1> DEFINE c == Screened[band][next]
<1>1. /\ c \in Of(band) /\ c \in Candidate /\ status[band][c] = "none" /\ next \in Nat /\ next >= 1
      /\ band \in Band /\ Of(band) \subseteq Candidate
  BY NextCandidate, FilteringParts, BandOfCandidates
<1>2. \A d \in Candidate, r \in 1..MAX_ROUNDS :
         /\ rounds'[d][r] # "unknown" => board'[d] # "unknown" /\ d \in prefetched'
         /\ rounds'[d][r] = "full" => board'[d] = "full"
  <2>1. SUFFICES ASSUME NEW d \in Candidate, NEW r \in 1..MAX_ROUNDS, rounds[d][r] # "unknown"
                 PROVE  /\ board'[d] # "unknown" /\ d \in prefetched
                        /\ rounds[d][r] = "full" => board'[d] = "full"
    OBVIOUS
  <2>2. board[d] # "unknown" /\ d \in prefetched /\ (rounds[d][r] = "full" => board[d] = "full")
    BY <2>1, FilteringParts DEF BoardInv
  <2>3. board'[d] = board[d]
    BY <2>2
  <2>4. QED
    BY <2>2, <2>3
<1>3. /\ Of(band) \subseteq prefetched \/ (band > 1 /\ clock = 3)
      /\ band \notin cutoff =>
            \A d \in Of(band) : status[band][d] = "pending" => board[d] \in {"noTurnover", "noPrice"}
      /\ \A d \in Of(band) : status[band][d] = "skipped" => board[d] # "noTurnover"
  BY FilteringParts DEF BoardInv, Deciding
<1>4. band \notin saved
  BY FilteringParts DEF SavedInv, AtBand
<1>5. CASE answer = "full"
  <2>1. step' = "average" /\ UNCHANGED <<status, scored, skips, next>>
    BY <1>5 DEF Look, recordVars
  <2>2. FilteringShape'
    BY <2>1, FilteringParts DEF FilteringShape, FilteringSteps, AtBand, Hour
  <2>3. RecordTypes' /\ RecordInv' /\ AnswersUsed' /\ Elsewhere
    BY <2>1, NothingDecided
  <2>4. FutureInv' /\ SavedInv'
    BY <2>1, <2>3, StillInBand DEF AtBand
  <2>5. DecidedInv'
    BY <1>5, <2>1, FilteringParts DEF DecidedInv, Concluded
  <2>6. BoardInv'
    <3>1. \A d \in Of(band) : status[band][d] \in {"pending", "skipped"} => board'[d] = board[d]
      BY <1>1
    <3>2. QED
      BY <1>2, <1>3, <2>1, <3>1 DEF BoardInv
  <2>7. RetryInv' /\ Released'
    BY <1>4, <2>1 DEF RetryInv, Released, Finished
  <2>8. QED
    BY <2>2, <2>3, <2>4, <2>5, <2>6, <2>7 DEF FilteringIInv
<1>6. CASE answer # "full"
  <2>1. PICK o \in {"pending", "skipped"} :
          /\ o = (IF answer = "noTurnover" THEN "pending" ELSE "skipped")
          /\ status' = [status EXCEPT ![band][c] = o]
          /\ \/ o # "evaluated" /\ scored' = scored
             \/ scored' = [scored EXCEPT ![band][c] = IF o = "evaluated" THEN @ + 1 ELSE @]
          /\ \/ o # "skipped" /\ skips' = skips
             \/ skips' = [skips EXCEPT ![band][c] = IF o = "skipped" THEN @ + 1 ELSE @]
    <3>1. CASE answer = "noTurnover"
      BY <3>1 DEF Look, TurnoverMissing
    <3>2. CASE answer # "noTurnover"
      BY <1>6, <3>2 DEF Look, Decide
    <3>3. QED
      BY <3>1, <3>2
  <2>2. step' = "scan" /\ next' = next + 1
    BY <1>6 DEF Look
  <2>3. /\ RecordTypes' /\ RecordInv' /\ Elsewhere
        /\ status'[band][c] = o /\ skips'[band][c] = (IF o = "skipped" THEN 1 ELSE 0)
        /\ \A d \in Of(band) \ {c} : status'[band][d] = status[band][d] /\ skips'[band][d] = skips[band][d]
    BY <2>1, OneDecided
  <2>4. DecidedInv' /\ next' \in Nat /\ next' <= Len(Screened[band]) + 1 /\ next' >= 1
    BY <2>2, <2>3, OneFurther
  <2>5. FilteringShape'
    BY <2>2, <2>4, FilteringParts DEF FilteringShape, FilteringSteps, AtBand, Hour
  <2>6. FutureInv' /\ SavedInv'
    BY <2>2, <2>3, StillInBand DEF AtBand
  <2>7. BoardInv'
    <3>1. ASSUME NEW d \in Of(band)
          PROVE  /\ band \notin cutoff /\ status'[band][d] = "pending" => board'[d] \in {"noTurnover", "noPrice"}
                 /\ status'[band][d] = "skipped" => board'[d] # "noTurnover"
      <4>1. CASE d = c
        BY <1>6, <2>1, <2>3, <4>1
      <4>2. CASE d # c
        BY <1>1, <1>3, <2>3, <4>2
      <4>3. QED
        BY <4>1, <4>2
    <3>2. QED
      BY <1>2, <1>3, <2>2, <3>1 DEF BoardInv
  <2>8. RetryInv' /\ Released' /\ AnswersUsed'
    BY <1>4, <2>2, FilteringParts DEF RetryInv, Released, Finished, AnswersUsed
  <2>9. QED
    BY <2>3, <2>4, <2>5, <2>6, <2>7, <2>8 DEF FilteringIInv
<1>7. QED
  BY <1>5, <1>6

LEMMA ReadBoardKeeps == ASSUME FilteringIInv, ReadBoard PROVE FilteringIInv'
<1> DEFINE c == Screened[band][next]
<1>1. /\ step = "scan" /\ next <= Len(Screened[band])
      /\ UNCHANGED <<clock, band, prefetched, round, cutoff, broken, wasted, saved>>
  BY DEF ReadBoard, retryVars
<1>2. c \in Candidate /\ board[c] \in Remembered /\ board \in [Candidate -> Remembered]
      /\ blocked \in BOOLEAN /\ registered \in BOOLEAN
  BY <1>1, NextCandidate, FilteringParts
<1>3. CASE board[c] # "unknown" /\ Look(c, board[c]) /\ UNCHANGED <<board, rounds, blocked, registered>>
  <2>1. board[c] \in Answer
    BY <1>2, <1>3 DEF Remembered
  <2>2. QED
    BY <1>1, <1>2, <1>3, <2>1, LookKeeps
<1>4. ASSUME NEW answer \in Answer, Look(c, answer), board' = [board EXCEPT ![c] = answer],
             board[c] = "unknown", registered' = TRUE, UNCHANGED <<rounds, blocked>>
      PROVE  FilteringIInv'
  <2>1. board' \in [Candidate -> Remembered] /\ board'[c] = answer
        /\ \A d \in Candidate \ {c} : board'[d] = board[d]
    BY <1>2, <1>4 DEF Remembered
  <2>2. QED
    BY <1>1, <1>2, <1>4, <2>1, LookKeeps
<1>5. CASE board[c] = "unknown" /\ Look(c, "error") /\ blocked' = TRUE /\ UNCHANGED <<board, rounds, registered>>
  <2>1. "error" \in Answer
    BY DEF Answer
  <2>2. QED
    BY <1>1, <1>2, <1>5, <2>1, LookKeeps
<1>6. QED
  BY <1>3, <1>4, <1>5 DEF ReadBoard, cacheVars

LEMMA AskAverageKeeps == ASSUME FilteringIInv, AskAverage PROVE FilteringIInv'
<1> DEFINE c == Screened[band][next]
<1>1. /\ step = "average" /\ next' = next + 1
      /\ UNCHANGED <<clock, band, board, rounds, blocked, registered, prefetched, round, cutoff,
                     broken, wasted, saved>>
  BY DEF AskAverage, cacheVars, retryVars
<1>2. next <= Len(Screened[band]) /\ board[c] = "full"
  BY <1>1, FilteringParts DEF DecidedInv
<1>3. PICK o \in {"skipped", "evaluated", "partial"} :
        /\ Decide(c, o)
        /\ IF o = "partial" THEN DeadlinePassed(band) /\ step' = "timedOut" ELSE step' = "scan"
  BY DEF AskAverage
<1>4. /\ RecordTypes' /\ RecordInv' /\ Elsewhere
      /\ status'[band][c] = o /\ skips'[band][c] = (IF o = "skipped" THEN 1 ELSE 0)
      /\ \A d \in Of(band) \ {c} : status'[band][d] = status[band][d] /\ skips'[band][d] = skips[band][d]
  BY <1>1, <1>2, <1>3, OneDecided DEF Decide
<1>5. next' \in Nat /\ next' <= Len(Screened[band]) + 1 /\ next' >= 1
  BY <1>1, <1>2, FilteringParts, BandOfCandidates
<1>6. step' \in {"scan", "timedOut"} /\ (step' = "timedOut" => band > 1)
  BY <1>3 DEF DeadlinePassed
<1>7. FilteringShape'
  BY <1>1, <1>5, <1>6, FilteringParts DEF FilteringShape, FilteringSteps, AtBand, Hour
<1>8. FutureInv' /\ SavedInv'
  BY <1>1, <1>4, <1>6, StillInBand DEF AtBand
<1>9. DecidedInv'
  <2>1. CASE o = "partial"
    BY <1>3, <2>1 DEF DecidedInv
  <2>2. CASE o # "partial"
    BY <1>1, <1>2, <1>3, <1>4, <2>2, OneFurther
  <2>3. QED
    BY <2>1, <2>2
<1>10. BoardInv'
  <2>1. /\ Of(band) \subseteq prefetched \/ (band > 1 /\ clock = 3)
        /\ band \notin cutoff =>
              \A d \in Of(band) : status[band][d] = "pending" => board[d] \in {"noTurnover", "noPrice"}
        /\ \A d \in Of(band) : status[band][d] = "skipped" => board[d] # "noTurnover"
    BY <1>1, FilteringParts DEF BoardInv, Deciding
  <2>2. ASSUME NEW d \in Of(band), o # "partial"
        PROVE  /\ band \notin cutoff /\ status'[band][d] = "pending" => board[d] \in {"noTurnover", "noPrice"}
               /\ status'[band][d] = "skipped" => board[d] # "noTurnover"
    <3>1. CASE d = c
      BY <1>2, <1>4, <2>2, <3>1
    <3>2. CASE d # c
      BY <1>4, <2>1, <3>2
    <3>3. QED
      BY <3>1, <3>2
  <2>3. step' \in Deciding => o # "partial"
    BY <1>3 DEF Deciding
  <2>4. QED
    BY <1>1, <2>1, <2>2, <2>3, FilteringParts DEF BoardInv
<1>11. RetryInv' /\ Released' /\ AnswersUsed'
  <2>1. band \notin saved
    BY <1>1, FilteringParts DEF SavedInv, AtBand
  <2>2. QED
    BY <1>1, <1>6, <2>1, FilteringParts DEF RetryInv, Released, Finished, AnswersUsed
<1>12. QED
  BY <1>4, <1>7, <1>8, <1>9, <1>10, <1>11 DEF FilteringIInv

-----------------------------------------------------------------------------
(* Filtering: the retry *)

\* What is known in the retry
LEMMA InRetry ==
    ASSUME FilteringIInv, step = "retry"
    PROVE  /\ band \notin saved /\ round >= 1 /\ round \in Nat
           /\ \A c \in Of(band) : status[band][c] = "pending" \/ Concluded(band, c)
           /\ Of(band) \subseteq prefetched \/ (band > 1 /\ clock = 3)
           /\ band \notin cutoff =>
                 \A c \in Of(band) : status[band][c] = "pending" => board[c] \in {"noTurnover", "noPrice"}
           /\ \A c \in Of(band) : status[band][c] = "skipped" => board[c] # "noTurnover"
           /\ band \notin cutoff \cup broken =>
                 \A c \in Of(band), r \in 1..MAX_ROUNDS :
                     status[band][c] = "pending" /\ r < round => rounds[c][r] # "unknown"
           /\ \A c \in Candidate, r \in 1..MAX_ROUNDS :
                 /\ rounds[c][r] # "unknown" => board[c] # "unknown" /\ c \in prefetched
                 /\ rounds[c][r] = "full" => board[c] = "full"
BY FilteringParts DEF SavedInv, AtBand, RetryInv, DecidedInv, BoardInv, Deciding

LEMMA RetryBreaksKeeps == ASSUME FilteringIInv, RetryBreaks PROVE FilteringIInv'
<1>1. /\ step = "retry" /\ round' = MAX_ROUNDS + 1 /\ broken' = broken \cup {band}
      /\ UNCHANGED <<clock, step, band, board, rounds, blocked, registered, prefetched, next, status,
                     scored, skips, cutoff, wasted, saved>>
  BY DEF RetryBreaks, cacheVars, recordVars
<1>2. FilteringShape'
  BY <1>1, FilteringParts, FilteringConstants DEF FilteringShape, Hour
<1>3. RecordTypes' /\ RecordInv' /\ AnswersUsed' /\ Elsewhere
  BY <1>1, NothingDecided
<1>4. FutureInv' /\ SavedInv'
  BY <1>1, <1>3, StillInBand DEF AtBand
<1>5. DecidedInv' /\ BoardInv'
  BY <1>1, FilteringParts DEF DecidedInv, Concluded, BoardInv, Deciding
<1>6. RetryInv' /\ Released'
  BY <1>1, InRetry, FilteringConstants DEF RetryInv, Released, Finished
<1>7. QED
  BY <1>2, <1>3, <1>4, <1>5, <1>6 DEF FilteringIInv

\* A pending candidate was not counted.
LEMMA PendingUncounted ==
    ASSUME FilteringIInv, NEW c \in Pending
    PROVE  /\ c \in Of(band) /\ status[band][c] = "pending"
           /\ scored[band][c] = 0 /\ skips[band][c] = 0
BY BandRecords DEF Pending

\* What a round decides
LEMMA RoundDecides ==
    ASSUME FilteringIInv, step = "retry", NEW recovered \in SUBSET Pending, NEW unusable \in SUBSET recovered,
           status' = [status EXCEPT ![band] = [c \in Of(band) |->
                         IF c \in unusable THEN "skipped" ELSE IF c \in recovered THEN "evaluated" ELSE @[c]]],
           scored' = [scored EXCEPT ![band] = [c \in Of(band) |->
                         IF c \in recovered \ unusable THEN @[c] + 1 ELSE @[c]]],
           skips' = [skips EXCEPT ![band] = [c \in Of(band) |->
                         IF c \in unusable THEN @[c] + 1 ELSE @[c]]]
    PROVE  /\ RecordTypes' /\ RecordInv' /\ Elsewhere
           /\ \A c \in Of(band) :
                 /\ c \notin recovered => status'[band][c] = status[band][c] /\ skips'[band][c] = skips[band][c]
                 /\ c \in recovered => /\ status'[band][c] \in {"evaluated", "skipped"}
                                       /\ status'[band][c] = "skipped" => skips'[band][c] = 1
<1> DEFINE s == [c \in Of(band) |->
                    IF c \in unusable THEN "skipped"
                    ELSE IF c \in recovered THEN "evaluated" ELSE status[band][c]]
           g == [c \in Of(band) |-> IF c \in recovered \ unusable THEN scored[band][c] + 1 ELSE scored[band][c]]
           k == [c \in Of(band) |-> IF c \in unusable THEN skips[band][c] + 1 ELSE skips[band][c]]
<1>1. status' = [status EXCEPT ![band] = s] /\ scored' = [scored EXCEPT ![band] = g]
      /\ skips' = [skips EXCEPT ![band] = k]
  OBVIOUS
<1>2. ASSUME NEW c \in recovered
      PROVE  /\ c \in Of(band) /\ scored[band][c] = 0 /\ skips[band][c] = 0
  BY PendingUncounted
<1>3. ASSUME NEW c \in Of(band)
      PROVE  /\ s[c] \in RecordStatus /\ g[c] \in Nat /\ k[c] \in Nat
             /\ g[c] = (IF s[c] = "evaluated" THEN 1 ELSE 0) /\ k[c] <= (IF s[c] = "skipped" THEN 1 ELSE 0)
             /\ c \notin recovered => s[c] = status[band][c] /\ k[c] = skips[band][c]
             /\ c \in recovered => s[c] \in {"evaluated", "skipped"} /\ (s[c] = "skipped" => k[c] = 1)
  <2>1. /\ status[band][c] \in RecordStatus /\ scored[band][c] \in Nat /\ skips[band][c] \in Nat
        /\ scored[band][c] = (IF status[band][c] = "evaluated" THEN 1 ELSE 0)
        /\ skips[band][c] <= (IF status[band][c] = "skipped" THEN 1 ELSE 0)
    BY BandRecords
  <2>2. CASE c \in unusable
    BY <1>2, <2>2 DEF RecordStatus
  <2>3. CASE c \in recovered \ unusable
    BY <1>2, <2>3 DEF RecordStatus
  <2>4. CASE c \notin recovered
    BY <2>1, <2>4
  <2>5. QED
    BY <2>2, <2>3, <2>4
<1>4. s \in [Of(band) -> RecordStatus] /\ g \in [Of(band) -> Nat] /\ k \in [Of(band) -> Nat]
  BY <1>3
<1> HIDE DEF s, g, k
<1>5. /\ DOMAIN status' = Band /\ DOMAIN scored' = Band /\ DOMAIN skips' = Band
      /\ status'[band] = s /\ scored'[band] = g /\ skips'[band] = k
      /\ \A b \in Band \ {band} :
            status'[b] = status[b] /\ scored'[b] = scored[b] /\ skips'[b] = skips[b]
  BY <1>1, BandRecords
<1>6. RecordTypes' /\ RecordInv' /\ Elsewhere
  BY <1>3, <1>4, <1>5, RecordsOfBand
<1>7. QED
  BY <1>3, <1>5, <1>6

LEMMA RetryRoundKeeps == ASSUME FilteringIInv, RetryRound PROVE FilteringIInv'
<1>1. /\ step = "retry" /\ band \notin cutoff /\ clock = 0 /\ round <= MAX_ROUNDS /\ round' = round + 1
      /\ UNCHANGED <<step, band, prefetched, next, wasted, saved>>
  BY DEF RetryRound, RoundFits
<1>2. PICK moment \in {h \in Hour : h >= clock},
           answer \in [Pending -> Answer \cup {"refused", "notStarted"}], unusable \in SUBSET Pending :
          /\ \A c \in Pending : answer[c] \in Refetched(c, moment)
          /\ LET had == {c \in Pending : answer[c] \in Answer}
                 fresh == {c \in had : rounds[c][round] = "unknown"}
                 recovered == Recovered(answer)
             IN  /\ unusable \subseteq recovered
                 /\ rounds' = [c \in Candidate |-> IF c \in fresh
                                                  THEN [rounds[c] EXCEPT ![round] = answer[c]]
                                                  ELSE rounds[c]]
                 /\ board' = [c \in Candidate |-> IF c \in fresh /\ answer[c] \notin {"empty", "error"}
                                                 THEN answer[c] ELSE board[c]]
                 /\ registered' = (registered \/ fresh # {})
                 /\ blocked' = (blocked \/ \E c \in Pending : answer[c] = "refused")
                 /\ status' = [status EXCEPT ![band] = [c \in Of(band) |->
                                  IF c \in unusable THEN "skipped"
                                  ELSE IF c \in recovered THEN "evaluated" ELSE @[c]]]
                 /\ scored' = [scored EXCEPT ![band] = [c \in Of(band) |->
                                  IF c \in recovered \ unusable THEN @[c] + 1 ELSE @[c]]]
                 /\ skips' = [skips EXCEPT ![band] = [c \in Of(band) |->
                                  IF c \in unusable THEN @[c] + 1 ELSE @[c]]]
                 /\ cutoff' = IF \E c \in Pending : answer[c] = "notStarted"
                              THEN cutoff \cup {band} ELSE cutoff
                 /\ broken' = IF \E c \in Pending : answer[c] = "refused"
                              THEN broken \cup {band} ELSE broken
          /\ clock' = moment
  BY DEF RetryRound
<1> DEFINE fresh == {c \in Pending : answer[c] \in Answer /\ rounds[c][round] = "unknown"}
           recovered == Recovered(answer)
           usable == {c \in fresh : answer[c] \notin {"empty", "error"}}
<1>3. /\ unusable \subseteq recovered /\ recovered \subseteq Pending
      /\ rounds' = [c \in Candidate |-> IF c \in fresh THEN [rounds[c] EXCEPT ![round] = answer[c]] ELSE rounds[c]]
      /\ board' = [c \in Candidate |-> IF c \in usable THEN answer[c] ELSE board[c]]
  <2>1. {c \in {d \in Pending : answer[d] \in Answer} : rounds[c][round] = "unknown"} = fresh
    OBVIOUS
  <2>2. board' = [c \in Candidate |-> IF c \in fresh /\ answer[c] \notin {"empty", "error"}
                                      THEN answer[c] ELSE board[c]]
    BY <1>2, <2>1
  <2>3. board' = [c \in Candidate |-> IF c \in usable THEN answer[c] ELSE board[c]]
    BY <2>2
  <2>4. rounds' = [c \in Candidate |-> IF c \in fresh THEN [rounds[c] EXCEPT ![round] = answer[c]] ELSE rounds[c]]
    BY <1>2, <2>1
  <2>5. recovered \subseteq Pending
    BY DEF Recovered
  <2>6. QED
    BY <1>2, <2>3, <2>4, <2>5
<1>4. /\ RecordTypes' /\ RecordInv' /\ Elsewhere
      /\ \A c \in Of(band) :
            /\ c \notin recovered => status'[band][c] = status[band][c] /\ skips'[band][c] = skips[band][c]
            /\ c \in recovered => /\ status'[band][c] \in {"evaluated", "skipped"}
                                  /\ status'[band][c] = "skipped" => skips'[band][c] = 1
  <2>1. /\ recovered \in SUBSET Pending /\ unusable \in SUBSET recovered
    BY <1>3
  <2>2. /\ status' = [status EXCEPT ![band] = [c \in Of(band) |->
                         IF c \in unusable THEN "skipped" ELSE IF c \in recovered THEN "evaluated" ELSE @[c]]]
        /\ scored' = [scored EXCEPT ![band] = [c \in Of(band) |->
                         IF c \in recovered \ unusable THEN @[c] + 1 ELSE @[c]]]
        /\ skips' = [skips EXCEPT ![band] = [c \in Of(band) |->
                         IF c \in unusable THEN @[c] + 1 ELSE @[c]]]
    BY <1>2
  <2> HIDE DEF recovered
  <2>3. QED
    BY <1>1, <2>1, <2>2, RoundDecides
<1>5. /\ \A c \in Pending : c \in Of(band) /\ c \in Candidate /\ status[band][c] = "pending"
                            /\ board[c] \in {"noTurnover", "noPrice"} /\ answer[c] \in Answer \cup {"refused", "notStarted"}
      /\ fresh \subseteq Pending /\ usable \subseteq fresh /\ recovered \subseteq Pending
      /\ \A c \in fresh : answer[c] \in Answer /\ rounds[c][round] = "unknown"
  <2>1. Of(band) \subseteq Candidate
    BY BandOfCandidates, FilteringParts
  <2>2. \A c \in Of(band) : status[band][c] = "pending" => board[c] \in {"noTurnover", "noPrice"}
    BY <1>1, InRetry
  <2>3. QED
    BY <1>2, <1>3, <2>1, <2>2 DEF Pending
<1>6. \A c \in Pending : /\ answer[c] \in {"refused", "notStarted"} \/ c \in fresh \/ answer[c] = rounds[c][round]
                         /\ answer[c] \in Answer /\ c \notin fresh => rounds[c][round] = answer[c]
  <2>1. SUFFICES ASSUME NEW c \in Pending, answer[c] \in Answer, c \notin fresh
                 PROVE  rounds[c][round] = answer[c]
    BY <1>5
  <2>2. rounds[c][round] # "unknown"
    BY <2>1
  <2>3. QED
    BY <1>2, <2>2 DEF Refetched
<1>7. (\A c \in Pending : answer[c] # "notStarted") => recovered = {c \in Pending : answer[c] = "full"}
  <2>1. SUFFICES ASSUME \A c \in Pending : answer[c] # "notStarted", NEW c \in Pending
                 PROVE  Reached(c, answer)
    BY DEF Recovered
  <2>2. QED
    BY <2>1 DEF Reached
<1>8. recovered \subseteq {c \in Pending : answer[c] = "full"}
  BY DEF Recovered
<1>9. round \in 1..MAX_ROUNDS /\ round \in Nat /\ MAX_ROUNDS \in Nat
  BY <1>1, InRetry, FilteringConstants
<1>10. Of(band) \subseteq prefetched
  BY <1>1, InRetry
<1>11. board' \in [Candidate -> Remembered] /\ rounds' \in [Candidate -> [1..MAX_ROUNDS -> Remembered]]
  <2>1. \A c \in usable : answer[c] \in Remembered
    BY <1>5 DEF Remembered
  <2>2. \A c \in fresh : answer[c] \in Remembered
    BY <1>5 DEF Remembered
  <2> HIDE DEF usable, fresh
  <2>3. board' \in [Candidate -> Remembered]
    BY <1>3, <2>1, FilteringParts
  <2>4. \A c \in fresh : c \in Candidate => [rounds[c] EXCEPT ![round] = answer[c]] \in [1..MAX_ROUNDS -> Remembered]
    BY <2>2, FilteringParts
  <2>5. rounds' \in [Candidate -> [1..MAX_ROUNDS -> Remembered]]
    BY <1>3, <2>4, FilteringParts
  <2>6. QED
    BY <2>3, <2>5
<1>12. ASSUME NEW c \in Candidate
       PROVE  /\ c \in usable => board'[c] = answer[c]
              /\ c \notin usable => board'[c] = board[c]
              /\ c \in fresh => rounds'[c][round] = answer[c]
              /\ \A r \in 1..MAX_ROUNDS : c \notin fresh \/ r # round => rounds'[c][r] = rounds[c][r]
  <2>1. rounds[c] \in [1..MAX_ROUNDS -> Remembered]
    BY FilteringParts
  <2> HIDE DEF usable, fresh
  <2>2. QED
    BY <1>3, <1>9, <2>1
<1> HIDE DEF recovered
<1>13. FilteringShape'
  <2>1. clock' \in Hour /\ cutoff' \subseteq Band /\ broken' \subseteq Band
    BY <1>2, FilteringParts
  <2>2. registered' \in BOOLEAN /\ blocked' \in BOOLEAN
    BY <1>2, FilteringParts
  <2>3. QED
    BY <1>1, <1>9, <1>11, <2>1, <2>2, FilteringParts DEF FilteringShape
<1>14. AnswersUsed'
  <2>1. cutoff \subseteq cutoff' /\ broken \subseteq broken'
    BY <1>2
  <2>2. QED
    BY <1>1, <2>1, FilteringParts DEF AnswersUsed
<1>15. FutureInv' /\ SavedInv'
  BY <1>1, <1>4, StillInBand DEF AtBand
<1>16. ASSUME NEW c \in Of(band), c \notin Pending
       PROVE  /\ Concluded(band, c) /\ status'[band][c] = status[band][c] /\ skips'[band][c] = skips[band][c]
              /\ status[band][c] # "pending"
  BY <1>1, <1>4, <1>5, <1>16, InRetry DEF Pending, Concluded
<1>17. DecidedInv'
  <2>1. ASSUME NEW c \in Of(band)
        PROVE  status'[band][c] = "pending" \/ Concluded(band, c)'
    <3>1. CASE c \in recovered
      BY <1>1, <1>4, <3>1 DEF Concluded
    <3>2. CASE c \notin recovered
      <4>1. status'[band][c] = status[band][c] /\ skips'[band][c] = skips[band][c]
        BY <1>4, <3>2
      <4>2. QED
        BY <1>1, <4>1, InRetry DEF Concluded
    <3>3. QED
      BY <3>1, <3>2
  <2>2. QED
    BY <1>1, <2>1 DEF DecidedInv
<1>18. \A c \in Pending : answer[c] = "full" => c \in usable
  <2>1. SUFFICES ASSUME NEW c \in Pending, answer[c] = "full", c \notin fresh
                 PROVE  FALSE
    BY <1>5
  <2>2. rounds[c][round] = "full"
    BY <1>6, <2>1 DEF Answer
  <2>3. board[c] = "full"
    BY <1>1, <1>5, <1>9, <2>1, <2>2, InRetry
  <2>4. QED
    BY <1>5, <2>1, <2>3
<1>19. BoardInv'
  <2>1. ASSUME NEW c \in Candidate, NEW r \in 1..MAX_ROUNDS
        PROVE  /\ rounds'[c][r] # "unknown" => board'[c] # "unknown" /\ c \in prefetched
               /\ rounds'[c][r] = "full" => board'[c] = "full"
    <3>1. /\ rounds[c][r] # "unknown" => board[c] # "unknown" /\ c \in prefetched
          /\ rounds[c][r] = "full" => board[c] = "full"
      BY <1>1, InRetry
    <3>2. CASE c \notin fresh
      <4>1. c \notin usable
        BY <3>2
      <4>2. QED
        BY <1>12, <3>1, <3>2, <4>1
    <3>3. CASE c \in fresh
      <4>1. c \in prefetched /\ c \in Pending
        BY <1>5, <1>10, <3>3
      <4>2. board'[c] # "unknown"
        BY <1>5, <1>12, <3>3, <4>1 DEF Answer
      <4>3. rounds[c][r] # "full"
        BY <1>5, <3>1, <4>1
      <4>4. rounds'[c][r] = "full" => answer[c] = "full"
        BY <1>12, <3>3, <4>3
      <4>5. QED
        BY <1>12, <1>18, <4>1, <4>2, <4>4
    <3>4. QED
      BY <3>2, <3>3
  <2>2. ASSUME NEW c \in Of(band), band \notin cutoff', status'[band][c] = "pending"
        PROVE  board'[c] \in {"noTurnover", "noPrice"}
    <3>1. \A d \in Pending : answer[d] # "notStarted"
      BY <1>2, <2>2
    <3>2. c \in Pending /\ c \notin recovered
      BY <1>4, <1>16, <2>2
    <3>3. answer[c] # "full"
      BY <1>7, <3>1, <3>2
    <3>4. CASE c \in usable
      BY <1>5, <1>12, <3>2, <3>3, <3>4 DEF Answer
    <3>5. CASE c \notin usable
      BY <1>5, <1>12, <3>2, <3>5
    <3>6. QED
      BY <3>4, <3>5
  <2>3. ASSUME NEW c \in Of(band), status'[band][c] = "skipped"
        PROVE  board'[c] # "noTurnover"
    <3>1. CASE c \in recovered
      BY <1>5, <1>8, <1>12, <1>18, <3>1
    <3>2. CASE c \notin recovered
      <4>1. status[band][c] = "skipped" /\ c \notin Pending
        BY <1>4, <1>5, <2>3, <3>2
      <4>2. c \notin usable /\ c \in Candidate
        BY <1>5, <4>1, BandOfCandidates, FilteringParts
      <4>3. QED
        BY <1>1, <1>12, <4>1, <4>2, InRetry
    <3>3. QED
      BY <3>1, <3>2
  <2>4. QED
    BY <1>1, <1>10, <2>1, <2>2, <2>3 DEF BoardInv
<1>20. RetryInv'
  <2>1. ASSUME NEW c \in Of(band), NEW r \in 1..MAX_ROUNDS, band \notin cutoff' \cup broken',
               status'[band][c] = "pending", r < round + 1
        PROVE  rounds'[c][r] # "unknown"
    <3>1. c \in Pending /\ c \in Candidate
      BY <1>4, <1>5, <1>16, <2>1
    <3>2. answer[c] \in Answer
      BY <1>2, <1>5, <2>1, <3>1
    <3>3. CASE r = round
      <4>1. rounds'[c][round] = answer[c]
        BY <1>6, <1>9, <1>12, <3>1, <3>2
      <4>2. QED
        BY <3>2, <3>3, <4>1 DEF Answer
    <3>4. CASE r # round
      <4>1. r < round /\ band \notin cutoff \cup broken /\ status[band][c] = "pending"
        BY <1>2, <1>5, <1>9, <2>1, <3>1, <3>4
      <4>2. rounds[c][r] # "unknown"
        BY <1>1, <4>1, InRetry
      <4>3. QED
        BY <1>12, <3>1, <3>4, <4>2
    <3>5. QED
      BY <3>3, <3>4
  <2>2. band \notin saved /\ round + 1 >= 1
    BY <1>1, <1>9, InRetry
  <2>3. QED
    BY <1>1, <2>1, <2>2 DEF RetryInv
<1>21. Released'
  BY <1>1 DEF Released, Finished
<1>22. QED
  BY <1>4, <1>13, <1>14, <1>15, <1>17, <1>19, <1>20, <1>21 DEF FilteringIInv

\* The candidates that are left are counted as skipped.
LEMMA EndRetryKeeps == ASSUME FilteringIInv, EndRetry PROVE FilteringIInv'
<1>1. /\ step = "retry" /\ step' = "result"
      /\ cutoff' = (IF round <= MAX_ROUNDS /\ Pending # {} THEN cutoff \cup {band} ELSE cutoff)
      /\ wasted' = wasted \cup {<<band, c>> : c \in {c \in Pending : board[c] = "full"}}
      /\ status' = [status EXCEPT ![band] = [c \in Of(band) |-> IF c \in Pending THEN "skipped" ELSE @[c]]]
      /\ skips' = [skips EXCEPT ![band] = [c \in Of(band) |-> IF c \in Pending THEN @[c] + 1 ELSE @[c]]]
      /\ UNCHANGED <<clock, band, board, rounds, blocked, registered, prefetched, next, scored, round,
                     broken, saved>>
  BY DEF EndRetry, cacheVars
<1>2. /\ DOMAIN status' = Band /\ DOMAIN scored' = Band /\ DOMAIN skips' = Band
      /\ \A b \in Band \ {band} :
            status'[b] = status[b] /\ scored'[b] = scored[b] /\ skips'[b] = skips[b]
      /\ status'[band] = [c \in Of(band) |-> IF c \in Pending THEN "skipped" ELSE status[band][c]]
      /\ skips'[band] = [c \in Of(band) |-> IF c \in Pending THEN skips[band][c] + 1 ELSE skips[band][c]]
      /\ scored'[band] = scored[band]
  BY <1>1, BandRecords
<1>3. ASSUME NEW c \in Of(band)
      PROVE  /\ status'[band][c] = (IF c \in Pending THEN "skipped" ELSE status[band][c])
             /\ status'[band][c] \in RecordStatus /\ skips'[band][c] \in Nat
             /\ scored'[band][c] = (IF status'[band][c] = "evaluated" THEN 1 ELSE 0)
             /\ skips'[band][c] <= (IF status'[band][c] = "skipped" THEN 1 ELSE 0)
             /\ Concluded(band, c)'
  <2>1. /\ status[band][c] \in RecordStatus /\ scored[band][c] \in Nat /\ skips[band][c] \in Nat
        /\ scored[band][c] = (IF status[band][c] = "evaluated" THEN 1 ELSE 0)
        /\ skips[band][c] <= (IF status[band][c] = "skipped" THEN 1 ELSE 0)
    BY BandRecords
  <2>2. status'[band][c] = (IF c \in Pending THEN "skipped" ELSE status[band][c])
        /\ skips'[band][c] = (IF c \in Pending THEN skips[band][c] + 1 ELSE skips[band][c])
        /\ scored'[band][c] = scored[band][c]
    BY <1>2
  <2>3. CASE c \in Pending
    <3>1. scored[band][c] = 0 /\ skips[band][c] = 0
      BY <2>3, PendingUncounted
    <3>2. QED
      BY <1>1, <2>2, <2>3, <3>1 DEF RecordStatus, Concluded
  <2>4. CASE c \notin Pending
    <3>1. Concluded(band, c)
      BY <1>1, <2>4, InRetry DEF Pending
    <3>2. QED
      BY <1>1, <2>1, <2>2, <2>4, <3>1 DEF Concluded
  <2>5. QED
    BY <2>3, <2>4
<1>4. /\ status'[band] \in [Of(band) -> RecordStatus] /\ skips'[band] \in [Of(band) -> Nat]
      /\ scored'[band] \in [Of(band) -> Nat]
  <2>1. status'[band] \in [Of(band) -> RecordStatus]
    BY <1>2, <1>3
  <2>2. skips'[band] \in [Of(band) -> Nat]
    BY <1>2, <1>3
  <2>3. scored'[band] \in [Of(band) -> Nat]
    BY <1>2, BandRecords
  <2>4. QED
    BY <2>1, <2>2, <2>3
<1>5. RecordTypes' /\ RecordInv' /\ Elsewhere
  BY <1>2, <1>3, <1>4, RecordsOfBand
<1>6. FilteringShape'
  BY <1>1, FilteringParts DEF FilteringShape, FilteringSteps, AtBand, Hour
<1>7. AnswersUsed'
  <2>1. ASSUME NEW c \in Pending, board[c] = "full" PROVE band \in cutoff'
    BY <1>1, <2>1, InRetry DEF Pending
  <2>2. SUFFICES ASSUME NEW w \in wasted' PROVE w[1] \in cutoff' \cup broken'
    BY DEF AnswersUsed
  <2>3. CASE w \in wasted
    BY <1>1, <2>3, FilteringParts DEF AnswersUsed
  <2>4. CASE w \notin wasted
    <3>1. PICK c \in {c \in Pending : board[c] = "full"} : w = <<band, c>>
      BY <1>1, <2>4
    <3>2. QED
      BY <2>1, <3>1
  <2>5. QED
    BY <2>3, <2>4
<1>8. FutureInv' /\ SavedInv'
  BY <1>1, <1>5, StillInBand DEF AtBand
<1>9. DecidedInv'
  BY <1>1, <1>3 DEF DecidedInv
<1>10. BoardInv'
  BY <1>1, FilteringParts DEF BoardInv, Deciding
<1>11. RetryInv'
  <2>1. ASSUME band \notin cutoff' \cup broken', NEW c \in Of(band), NEW r \in 1..MAX_ROUNDS,
               status'[band][c] = "skipped", board[c] = "noTurnover"
        PROVE  rounds[c][r] # "unknown"
    <3>1. c \in Pending
      BY <1>1, <1>3, <2>1, InRetry
    <3>2. ~(round <= MAX_ROUNDS) /\ band \notin cutoff \cup broken
      BY <1>1, <2>1, <3>1
    <3>3. r < round
      BY <3>2, FilteringParts, FilteringConstants
    <3>4. QED
      BY <1>1, <3>1, <3>2, <3>3, InRetry DEF Pending
  <2>2. QED
    BY <1>1, <2>1 DEF RetryInv
<1>12. Released'
  BY <1>1 DEF Released, Finished
<1>13. QED
  BY <1>5, <1>6, <1>7, <1>8, <1>9, <1>10, <1>11, <1>12 DEF FilteringIInv

-----------------------------------------------------------------------------
(* Filtering: the result, and the end *)

\* Where a run goes after a band
LEMMA GoesOn ==
    ASSUME FilteringIInv, step \in {"result", "timedOut"}, Onward, Forward
    PROVE  /\ band' \in Band /\ band' \in Nat /\ step' \in {"clear", "prefetch", "release"}
           /\ band = 1 => step' = "clear" /\ band' = band
           /\ band > 1 => step' \in {"prefetch", "release"}
           /\ step' = "prefetch" => band' = band + 1
           /\ step' # "prefetch" => band' = band
           /\ band \notin saved
<1>1. band \in Nat /\ band >= 1 /\ band <= Len(Screened) /\ Len(Screened) \in Nat /\ Band = 1..Len(Screened)
  BY FilteringParts, FilteringConstants
<1>2. band \notin saved
  BY FilteringParts DEF SavedInv, AtBand
<1>3. QED
  BY <1>1, <1>2 DEF Onward, Forward

\* Then nothing is said of the band that follows.
LEMMA BandLeftBehind ==
    ASSUME FilteringIInv, step \in {"result", "timedOut"}, Onward, Forward, Elsewhere,
           UNCHANGED <<board, rounds, prefetched, cutoff, broken>>,
           \/ saved' = saved /\ band > 1
           \/ /\ step = "result" /\ saved' = saved \cup {band}
              /\ UNCHANGED <<status, skips>>
    PROVE  FutureInv' /\ DecidedInv' /\ SavedInv' /\ BoardInv' /\ RetryInv' /\ Released'
<1>1. /\ band' \in Band /\ band' \in Nat /\ step' \in {"clear", "prefetch", "release"}
      /\ band = 1 => step' = "clear" /\ band' = band
      /\ band > 1 => step' \in {"prefetch", "release"}
      /\ step' = "prefetch" => band' = band + 1
      /\ step' # "prefetch" => band' = band
      /\ band \notin saved /\ band \in Nat /\ band \in Band
      /\ \A b \in Band : b \in Nat /\ b >= 1
  BY GoesOn, FilteringParts, FilteringConstants
<1>2. FutureInv'
  <2>1. SUFFICES ASSUME NEW b \in Band, b > band' \/ (b = band' /\ step' = "prefetch"), NEW c \in Of(b)
                 PROVE  status'[b][c] = "none"
    BY DEF FutureInv
  <2>2. b > band
    BY <1>1, <2>1
  <2>3. b \in Band \ {band}
    BY <1>1, <2>2
  <2>4. QED
    BY <2>2, <2>3, FilteringParts DEF FutureInv, Elsewhere
<1>3. DecidedInv' /\ Released'
  BY <1>1 DEF DecidedInv, Released, Finished
<1>4. BoardInv'
  BY <1>1, FilteringParts DEF BoardInv, Deciding
<1>5. ASSUME NEW b \in saved
      PROVE  b < band /\ b < band' /\ b \in Band /\ \A c \in Of(b) : Concluded(b, c)'
  <2>1. b \in Band /\ b <= band /\ \A c \in Of(b) : Concluded(b, c)
    BY FilteringParts DEF SavedInv
  <2>2. b \in Nat /\ b # band
    BY <1>1, <2>1
  <2>3. b < band
    BY <1>1, <2>1, <2>2
  <2>4. b < band'
    BY <1>1, <2>2, <2>3
  <2>5. status'[b] = status[b] /\ skips'[b] = skips[b]
    BY <2>1, <2>2 DEF Elsewhere
  <2>6. QED
    BY <2>1, <2>3, <2>4, <2>5 DEF Concluded
<1>6. \A b \in saved : b \in Nat /\ b < band'
  BY <1>1, <1>5
<1>7. step = "result" => \A c \in Of(band) : Concluded(band, c)
  BY FilteringParts DEF DecidedInv
<1>8. ASSUME NEW b \in saved'
      PROVE  b <= band' /\ (b = band' => step' \notin AtBand) /\ \A c \in Of(b) : Concluded(b, c)'
  <2>1. CASE b \in saved
    <3>1. b < band' /\ b \in Nat
      BY <1>6, <2>1
    <3>2. b <= band' /\ b # band'
      BY <1>1, <3>1
    <3>3. QED
      BY <1>5, <2>1, <3>2
  <2>2. CASE b \notin saved
    <3>1. b = band /\ step = "result" /\ UNCHANGED <<status, skips>>
      BY <2>2
    <3>2. \A c \in Of(b) : Concluded(b, c)'
      BY <1>7, <3>1 DEF Concluded
    <3>3. b <= band' /\ (b = band' => step' \notin AtBand)
      BY <1>1, <3>1 DEF AtBand
    <3>4. QED
      BY <3>2, <3>3
  <2>3. QED
    BY <2>1, <2>2
<1>9. SavedInv'
  <2>1. band > 1 => 1 \in saved
    BY FilteringParts DEF SavedInv, TradedBandFirst
  <2>2. 1 \in saved'
    <3>1. CASE band = 1
      BY <3>1
    <3>2. CASE band # 1
      BY <1>1, <2>1, <3>2
    <3>3. QED
      BY <3>1, <3>2
  <2>3. step' = "clear" => band' = 1
    BY <1>1
  <2>4. QED
    BY <1>1, <1>8, <2>2, <2>3 DEF SavedInv, TradedBandFirst
<1>10. RetryInv'
  <2>1. step' \notin {"retry", "result"}
    BY <1>1
  <2>2. CASE step' = "prefetch"
    <3>1. band' \notin saved'
      BY <1>1, <1>6, <2>2
    <3>2. QED
      BY <2>1, <3>1 DEF RetryInv
  <2>3. CASE step' # "prefetch" /\ saved' = saved
    <3>1. band' \notin saved'
      BY <1>1, <1>6, <2>3
    <3>2. QED
      BY <2>1, <3>1 DEF RetryInv
  <2>4. CASE step' # "prefetch" /\ step = "result" /\ UNCHANGED <<status, skips>>
    <3>1. band' = band
      BY <1>1, <2>4
    <3>2. QED
      BY <2>1, <2>4, <3>1, FilteringParts DEF RetryInv
  <2>5. QED
    BY <2>2, <2>3, <2>4
<1>11. QED
  BY <1>2, <1>3, <1>4, <1>9, <1>10

LEMMA SaveResultKeeps == ASSUME FilteringIInv, SaveResult PROVE FilteringIInv'
<1>1. /\ step = "result" /\ saved' = saved \cup {band} /\ Onward /\ Forward
      /\ UNCHANGED <<clock, board, rounds, blocked, registered, prefetched, next, status, scored, skips,
                     round, cutoff, broken, wasted>>
  BY DEF SaveResult, cacheVars, recordVars, retryVars
<1>2. RecordTypes' /\ RecordInv' /\ AnswersUsed' /\ Elsewhere
  BY <1>1, NothingDecided
<1>3. FutureInv' /\ DecidedInv' /\ SavedInv' /\ BoardInv' /\ RetryInv' /\ Released'
  BY <1>1, <1>2, BandLeftBehind
<1>4. FilteringShape'
  BY <1>1, GoesOn, FilteringParts DEF FilteringShape, FilteringSteps, AtBand, Hour
<1>5. QED
  BY <1>2, <1>3, <1>4 DEF FilteringIInv

LEMMA SaveFailsKeeps == ASSUME FilteringIInv, SaveFails PROVE FilteringIInv'
<1>1. /\ step = "result"
      /\ IF band = 1 THEN step' = "rescue" /\ UNCHANGED band ELSE Onward /\ Forward
      /\ UNCHANGED <<clock, board, rounds, blocked, registered, prefetched, next, status, scored, skips,
                     round, cutoff, broken, wasted, saved>>
  BY DEF SaveFails, cacheVars, recordVars, retryVars
<1>2. RecordTypes' /\ RecordInv' /\ AnswersUsed' /\ Elsewhere
  BY <1>1, NothingDecided
<1>3. CASE band = 1
  <2>1. step' = "rescue" /\ band' = band
    BY <1>1, <1>3
  <2>2. FilteringShape'
    BY <1>1, <2>1, FilteringParts DEF FilteringShape, FilteringSteps, AtBand, Hour
  <2>3. band \notin saved
    BY <1>1, FilteringParts DEF SavedInv, AtBand
  <2>4. FutureInv' /\ SavedInv'
    BY <1>1, <2>1, FilteringParts DEF FutureInv, SavedInv, TradedBandFirst, AtBand, Concluded
  <2>5. DecidedInv' /\ BoardInv' /\ RetryInv' /\ Released'
    BY <1>1, <2>1, <2>3, FilteringParts DEF DecidedInv, BoardInv, Deciding, RetryInv, Released, Finished
  <2>6. QED
    BY <1>2, <2>2, <2>4, <2>5 DEF FilteringIInv
<1>4. CASE band # 1
  <2>1. Onward /\ Forward /\ band > 1
    BY <1>1, <1>4, FilteringParts, FilteringConstants
  <2>2. FutureInv' /\ DecidedInv' /\ SavedInv' /\ BoardInv' /\ RetryInv' /\ Released'
    BY <1>1, <1>2, <2>1, BandLeftBehind
  <2>3. FilteringShape'
    BY <1>1, <2>1, GoesOn, FilteringParts DEF FilteringShape, FilteringSteps, AtBand, Hour
  <2>4. QED
    BY <1>2, <2>2, <2>3 DEF FilteringIInv
<1>5. QED
  BY <1>3, <1>4

LEMMA TimeOutKeeps == ASSUME FilteringIInv, TimeOut PROVE FilteringIInv'
<1> DEFINE said == [c \in Of(band) |-> CASE status[band][c] = "none" -> "not_evaluated"
                                         [] status[band][c] = "pending" -> "skipped"
                                         [] OTHER -> status[band][c]]
<1>1. /\ step = "timedOut" \/ (step = "result" /\ DeadlinePassed(band))
      /\ status' = [status EXCEPT ![band] = said] /\ Onward /\ Forward
      /\ UNCHANGED <<clock, board, rounds, blocked, registered, prefetched, next, scored, skips, round,
                     cutoff, broken, wasted, saved>>
  BY DEF TimeOut, cacheVars, retryVars
<1>2. step \in {"result", "timedOut"} /\ band > 1
  BY <1>1, FilteringParts DEF DeadlinePassed, SavedInv
<1>3. /\ DOMAIN status' = Band /\ DOMAIN scored' = Band /\ DOMAIN skips' = Band
      /\ \A b \in Band \ {band} :
            status'[b] = status[b] /\ scored'[b] = scored[b] /\ skips'[b] = skips[b]
      /\ status'[band] = said /\ skips'[band] = skips[band] /\ scored'[band] = scored[band]
  BY <1>1, BandRecords
<1>4. ASSUME NEW c \in Of(band)
      PROVE  /\ said[c] \in RecordStatus
             /\ scored'[band][c] = (IF said[c] = "evaluated" THEN 1 ELSE 0)
             /\ skips'[band][c] <= (IF said[c] = "skipped" THEN 1 ELSE 0)
  <2>1. /\ status[band][c] \in RecordStatus /\ scored[band][c] \in Nat /\ skips[band][c] \in Nat
        /\ scored[band][c] = (IF status[band][c] = "evaluated" THEN 1 ELSE 0)
        /\ skips[band][c] <= (IF status[band][c] = "skipped" THEN 1 ELSE 0)
    BY BandRecords
  <2>2. said[c] = IF status[band][c] = "none" THEN "not_evaluated"
                  ELSE IF status[band][c] = "pending" THEN "skipped" ELSE status[band][c]
    OBVIOUS
  <2> HIDE DEF said
  <2>3. QED
    BY <1>3, <2>1, <2>2 DEF RecordStatus
<1>5. /\ status'[band] \in [Of(band) -> RecordStatus] /\ skips'[band] \in [Of(band) -> Nat]
      /\ scored'[band] \in [Of(band) -> Nat]
  <2>1. said \in [Of(band) -> RecordStatus]
    BY <1>4
  <2> HIDE DEF said
  <2>2. QED
    BY <1>3, <2>1, BandRecords
<1> HIDE DEF said
<1>6. RecordTypes' /\ RecordInv' /\ Elsewhere
  BY <1>3, <1>4, <1>5, RecordsOfBand
<1>7. FutureInv' /\ DecidedInv' /\ SavedInv' /\ BoardInv' /\ RetryInv' /\ Released'
  BY <1>1, <1>2, <1>6, BandLeftBehind
<1>8. FilteringShape'
  BY <1>1, <1>2, GoesOn, FilteringParts DEF FilteringShape, FilteringSteps, AtBand, Hour
<1>9. AnswersUsed'
  BY <1>1, FilteringParts DEF AnswersUsed
<1>10. QED
  BY <1>6, <1>7, <1>8, <1>9 DEF FilteringIInv

LEMMA ClearAfterFirstKeeps == ASSUME FilteringIInv, ClearAfterFirst PROVE FilteringIInv'
<1>1. PICK cleared \in BOOLEAN :
          /\ blocked' = ~cleared /\ registered' = (registered /\ ~cleared) /\ UNCHANGED <<board, rounds>>
          /\ step' = (IF ~cleared THEN "release" ELSE IF Len(Screened) = 1 THEN "done" ELSE "prefetch")
          /\ band' = (IF cleared /\ Len(Screened) > 1 THEN 2 ELSE band)
  BY DEF ClearAfterFirst, ClearBands
<1>2. /\ step = "clear"
      /\ UNCHANGED <<clock, prefetched, next, status, scored, skips, round, cutoff, broken, wasted, saved>>
  BY DEF ClearAfterFirst, recordVars, retryVars
<1>3. band = 1 /\ 1 \in saved
  BY <1>2, FilteringParts DEF SavedInv
<1>4. /\ step' \in {"release", "done", "prefetch"} /\ band' \in Band
      /\ step' = "prefetch" => band' = 2
      /\ step' # "prefetch" => band' = 1
  <2>1. Len(Screened) \in Nat /\ Len(Screened) >= 1 /\ Band = 1..Len(Screened)
    BY FilteringConstants
  <2>2. CASE cleared /\ Len(Screened) > 1
    BY <1>1, <2>1, <2>2
  <2>3. CASE ~(cleared /\ Len(Screened) > 1)
    <3>1. band' = 1
      BY <1>1, <1>3, <2>3
    <3>2. Len(Screened) \in Nat /\ Len(Screened) >= 1
      BY <2>1
    <3>3. Len(Screened) = 1 \/ Len(Screened) > 1
      <4>1. \A n \in Nat : n >= 1 => n = 1 \/ n > 1
        OBVIOUS
      <4>2. QED
        BY <3>2, <4>1, Zenon
    <3>4. step' \in {"release", "done"}
      <4>1. CASE Len(Screened) = 1
        BY <1>1, <4>1
      <4>2. CASE ~cleared
        BY <1>1, <4>2
      <4>3. QED
        BY <2>3, <3>3, <4>1, <4>2, Zenon
    <3>5. QED
      BY <2>1, <3>1, <3>4
  <2>4. QED
    BY <2>2, <2>3
<1>5. FilteringShape'
  BY <1>1, <1>2, <1>3, <1>4, FilteringParts DEF FilteringShape, FilteringSteps, AtBand, Hour
<1>6. RecordTypes' /\ RecordInv' /\ AnswersUsed' /\ Elsewhere
  BY <1>2, NothingDecided
<1>7. FutureInv'
  BY <1>2, <1>3, <1>4, FilteringParts, FilteringConstants DEF FutureInv
<1>8. \A b \in saved : b <= 1 /\ b \in Nat /\ \A c \in Of(b) : Concluded(b, c)
  BY <1>2, <1>3, FilteringParts, FilteringConstants DEF SavedInv
<1>9. SavedInv'
  BY <1>2, <1>3, <1>4, <1>8 DEF SavedInv, TradedBandFirst, AtBand, Concluded
<1>10. DecidedInv'
  BY <1>4 DEF DecidedInv
<1>11. BoardInv'
  BY <1>1, <1>2, <1>4, FilteringParts DEF BoardInv, Deciding
<1>12. RetryInv'
  <2>1. CASE step' = "prefetch"
    BY <1>2, <1>4, <1>8, <2>1 DEF RetryInv
  <2>2. CASE step' # "prefetch"
    BY <1>1, <1>2, <1>3, <1>4, <2>2, FilteringParts DEF RetryInv
  <2>3. QED
    BY <2>1, <2>2
<1>13. Released'
  BY <1>1 DEF Released, Finished
<1>14. QED
  BY <1>5, <1>6, <1>7, <1>9, <1>10, <1>11, <1>12, <1>13 DEF FilteringIInv

LEMMA ReleaseKeeps == ASSUME FilteringIInv, Release PROVE FilteringIInv'
<1>1. PICK cleared \in BOOLEAN :
          blocked' = ~cleared /\ registered' = (registered /\ ~cleared) /\ UNCHANGED <<board, rounds>>
  BY DEF Release, ClearBands
<1>2. /\ step \in {"release", "rescue"} /\ step' \in {"done", "failed"}
      /\ UNCHANGED <<clock, band, prefetched, next, status, scored, skips, round, cutoff, broken, wasted, saved>>
  BY DEF Release, recordVars, retryVars
<1>3. FilteringShape'
  BY <1>1, <1>2, FilteringParts DEF FilteringShape, FilteringSteps, AtBand, Hour
<1>4. RecordTypes' /\ RecordInv' /\ AnswersUsed' /\ Elsewhere
  BY <1>2, NothingDecided
<1>5. FutureInv' /\ DecidedInv'
  BY <1>2, FilteringParts DEF FutureInv, DecidedInv
<1>6. SavedInv'
  BY <1>2, FilteringParts DEF SavedInv, TradedBandFirst, AtBand, Concluded
<1>7. BoardInv' /\ RetryInv'
  BY <1>1, <1>2, FilteringParts DEF BoardInv, Deciding, RetryInv
<1>8. Released'
  BY <1>1 DEF Released
<1>9. QED
  BY <1>3, <1>4, <1>5, <1>6, <1>7, <1>8 DEF FilteringIInv

-----------------------------------------------------------------------------
(* Filtering: the theorem *)

LEMMA FilteringInitially == FilteringInit => FilteringIInv
<1> SUFFICES ASSUME FilteringInit PROVE FilteringIInv
  OBVIOUS
<1> USE DEF FilteringInit
<1>1. board \in [Candidate -> Remembered] /\ rounds \in [Candidate -> [1..MAX_ROUNDS -> Remembered]]
  BY DEF Remembered
<1>2. FilteringShape
  <2>1. 1 <= Len(Screened[1]) + 1
    BY BandOfCandidates, FilteringConstants
  <2>2. 0 \in 0..(MAX_ROUNDS + 1)
    BY FilteringConstants
  <2>3. QED
    BY <1>1, <2>1, <2>2, FilteringConstants DEF FilteringShape, FilteringSteps, AtBand
<1>3. RecordTypes
  BY DEF RecordTypes, RecordStatus
<1>4. RecordInv /\ FutureInv
  BY DEF RecordInv, FutureInv
<1>5. DecidedInv /\ SavedInv /\ RetryInv
  BY DEF DecidedInv, SavedInv, TradedBandFirst, RetryInv
<1>6. BoardInv /\ AnswersUsed /\ Released
  BY DEF BoardInv, Deciding, AnswersUsed, Released, Finished
<1>7. QED
  BY <1>2, <1>3, <1>4, <1>5, <1>6 DEF FilteringIInv

LEMMA FilteringInductive == FilteringIInv /\ [FilteringNext]_filteringVars => FilteringIInv'
<1> SUFFICES ASSUME FilteringIInv, [FilteringNext]_filteringVars PROVE FilteringIInv'
  OBVIOUS
<1>1. CASE UNCHANGED filteringVars
  BY <1>1 DEF filteringVars, FilteringIInv, FilteringShape, RecordTypes, RecordInv, FutureInv, DecidedInv,
              SavedInv, TradedBandFirst, Concluded, BoardInv, RetryInv, AnswersUsed, Released, Finished
<1>2. CASE FilteringNext
  BY <1>2, PrefetchKeeps, ReadBoardKeeps, AskAverageKeeps, EndScanKeeps, RetryRoundKeeps, RetryBreaksKeeps,
     EndRetryKeeps, SaveResultKeeps, SaveFailsKeeps, TimeOutKeeps, ClearAfterFirstKeeps, ReleaseKeeps,
     TimeGoesOnKeeps DEF FilteringNext, FilteringStep
<1>3. QED
  BY <1>1, <1>2

LEMMA FilteringImplied == FilteringIInv => FilteringTypeOK /\ FilteringSound
<1> SUFFICES ASSUME FilteringIInv PROVE FilteringTypeOK /\ FilteringSound
  OBVIOUS
<1>1. FilteringTypeOK
  <2>1. \A b \in Band : status[b] \in [Of(b) -> RecordStatus]
    BY FilteringParts DEF RecordTypes
  <2>2. next \in 1..(Len(Screened[band]) + 1) \/ step = "prefetch"
    BY FilteringParts, BandOfCandidates
  <2>3. QED
    BY <2>1, <2>2, FilteringParts DEF FilteringTypeOK, Hour, FilteringSteps, AtBand, Remembered, RecordStatus
<1>2. DecidedOnce
  <2>1. SUFFICES ASSUME NEW b \in Band, NEW c \in Of(b)
                 PROVE  /\ scored[b][c] + skips[b][c] <= 1
                        /\ b \in saved => /\ scored[b][c] + skips[b][c] = 1
                                          /\ status[b][c] = IF scored[b][c] = 1 THEN "evaluated" ELSE "skipped"
    BY DEF DecidedOnce
  <2>2. /\ scored[b][c] \in Nat /\ skips[b][c] \in Nat
        /\ scored[b][c] = (IF status[b][c] = "evaluated" THEN 1 ELSE 0)
        /\ skips[b][c] <= (IF status[b][c] = "skipped" THEN 1 ELSE 0)
    BY FilteringParts DEF RecordTypes, RecordInv
  <2>3. b \in saved => status[b][c] = "evaluated" \/ (status[b][c] = "skipped" /\ skips[b][c] = 1)
    BY FilteringParts DEF SavedInv, Concluded
  <2>4. QED
    BY <2>2, <2>3
<1>3. RoundsUsedUp
  BY FilteringParts DEF RoundsUsedUp, RetryInv
<1>4. QED
  BY <1>1, <1>2, <1>3, FilteringParts DEF FilteringSound, SavedInv

\* However the boards answer, the time passes and the clearings and savings fail, for any bands,
\* candidates and rounds: a candidate is decided once, a turnover that was read is used, the rounds
\* are used up, the band that is traded comes first and no registration is left behind.
THEOREM AlwaysFilteredSoundly == FilteringSpec => [](FilteringTypeOK /\ FilteringSound)
BY FilteringInitially, FilteringInductive, FilteringImplied, PTL DEF FilteringSpec

-----------------------------------------------------------------------------
(* Midday filtering *)

MiddayOutcome == Verdict \cup {"none", "failed"}
Judgement == {"none", "evaluated", "skipped", "not_evaluated"}

MiddayTypes ==
    /\ hour \in 0..2
    /\ activity \in {"fetch", "wait", "evaluate", "over"}
    /\ attempts \in 0..FETCH_RETRIES
    /\ outcome \in [Ticker -> MiddayOutcome]
    /\ DOMAIN judged = Index
    /\ \A b \in Index : judged[b] \in [TickersOf(b) -> Judgement]
    /\ kept \subseteq summed /\ summed \subseteq Index

\* The records of a band say what became of its candidates, of which no other is tried then.
SummedInv ==
    /\ \A b \in summed : \A t \in TickersOf(b) : judged[b][t] = Status(t)
    /\ summed # {} => activity \in {"evaluate", "over"}
    /\ activity = "over" => summed = Index

KeptInv ==
    \A b \in kept : ~MiddayBands[b].compared /\ \A t \in TickersOf(b) : outcome[t] # "none"

MiddayIInv == MiddayTypes /\ ProductionFirst /\ SummedInv /\ KeptInv

LEMMA MiddayParts ==
    ASSUME MiddayIInv
    PROVE  /\ hour \in 0..2 /\ activity \in {"fetch", "wait", "evaluate", "over"}
           /\ attempts \in 0..FETCH_RETRIES /\ attempts \in Nat /\ FETCH_RETRIES \in Nat
           /\ outcome \in [Ticker -> MiddayOutcome] /\ DOMAIN judged = Index
           /\ \A b \in Index : judged[b] \in [TickersOf(b) -> Judgement]
           /\ kept \subseteq summed /\ summed \subseteq Index /\ kept \subseteq Index
           /\ ProductionFirst /\ SummedInv /\ KeptInv
BY MiddayAssumption DEF MiddayIInv, MiddayTypes

LEMMA MiddayBandType ==
    ASSUME NEW b \in Index
    PROVE  /\ MiddayBands[b].compared \in BOOLEAN /\ TickersOf(b) \subseteq Ticker
           /\ \A k \in DOMAIN MiddayBands[b].tickers :
                 <<b, k>> \in Row /\ TickerAt(<<b, k>>) = MiddayBands[b].tickers[k]
<1> DEFINE Described == [tickers : Seq(Ticker), compared : BOOLEAN, found : BOOLEAN]
<1>1. MiddayBands \in Seq(Described)
  BY MiddayAssumption
<1>2. MiddayBands[b] \in Described
  <2> HIDE DEF Described
  <2>1. QED
    BY <1>1 DEF Index
<1>3. MiddayBands[b].compared \in BOOLEAN /\ MiddayBands[b].tickers \in Seq(Ticker)
  BY <1>2
<1>4. TickersOf(b) \subseteq Ticker
  BY <1>3 DEF TickersOf
<1>5. \A k \in DOMAIN MiddayBands[b].tickers : <<b, k>> \in Row
  BY DEF Row
<1>6. \A k \in DOMAIN MiddayBands[b].tickers : TickerAt(<<b, k>>) = MiddayBands[b].tickers[k]
  BY DEF TickerAt
<1>7. QED
  BY <1>3, <1>4, <1>5, <1>6

\* A candidate of a compared band alone comes after all of the others.
LEMMA ComparedIsLast ==
    ASSUME NEW t \in Ticker, Due(t), t \notin Productive, NEW u \in Productive
    PROVE  outcome[u] # "none"
<1>1. PICK p \in Row : TickerAt(p) = t /\ \A q \in Row : Before(q, p) => outcome[TickerAt(q)] # "none"
  BY DEF Due
<1>2. PICK b \in Index : \E k \in DOMAIN MiddayBands[b].tickers : p = <<b, k>>
  BY DEF Row
<1>3. PICK k \in DOMAIN MiddayBands[b].tickers : p = <<b, k>>
  BY <1>2
<1>4. MiddayBands[b].compared
  <2>1. MiddayBands[b].tickers[k] = t
    BY <1>1, <1>3 DEF TickerAt
  <2>2. t \in TickersOf(b)
    BY <2>1 DEF TickersOf
  <2>3. QED
    BY <2>2, MiddayBandType DEF Productive
<1>5. PICK c \in Index : ~MiddayBands[c].compared /\ u \in TickersOf(c)
  BY DEF Productive
<1>6. PICK j \in DOMAIN MiddayBands[c].tickers : MiddayBands[c].tickers[j] = u
  BY <1>5 DEF TickersOf
<1>7. <<c, j>> \in Row /\ TickerAt(<<c, j>>) = u
  BY <1>6, MiddayBandType
<1>8. Before(<<c, j>>, p)
  <2>1. c # b
    BY <1>4, <1>5
  <2>2. Precedes(c, b)
    BY <1>4, <1>5 DEF Precedes
  <2>3. QED
    BY <1>3, <2>1, <2>2 DEF Before
<1>9. QED
  BY <1>1, <1>7, <1>8

LEMMA FetchKeeps == ASSUME MiddayIInv, Fetch PROVE MiddayIInv'
<1>1. PICK t \in Ticker :
        /\ Due(t)
        /\ \/ \E reason \in Verdict : Settle(t, reason)
           \/ Settle(t, "failed")
           \/ /\ ~GivesUp(attempts + 1, hour') /\ attempts' = attempts + 1
              /\ activity' = "wait" /\ UNCHANGED outcome
  BY DEF Fetch
<1>2. /\ activity \in {"fetch", "wait"} /\ hour' \in 0..2 /\ UNCHANGED <<summed, judged, kept>>
  BY DEF Fetch
<1>3. summed = {} /\ kept = {}
  BY <1>2, MiddayParts DEF SummedInv
<1>4. /\ attempts' \in 0..FETCH_RETRIES /\ activity' \in {"fetch", "wait"}
      /\ outcome' \in [Ticker -> MiddayOutcome] /\ \A u \in Ticker \ {t} : outcome'[u] = outcome[u]
  <2>1. CASE \E reason \in Verdict \cup {"failed"} : Settle(t, reason)
    <3>1. PICK reason \in Verdict \cup {"failed"} : outcome' = [outcome EXCEPT ![t] = reason]
      BY <2>1 DEF Settle
    <3>2. attempts' = 0 /\ activity' = "fetch"
      BY <2>1 DEF Settle
    <3>3. reason \in MiddayOutcome
      BY DEF MiddayOutcome
    <3>4. QED
      BY <3>1, <3>2, <3>3, MiddayParts
  <2>2. CASE ~GivesUp(attempts + 1, hour') /\ attempts' = attempts + 1 /\ activity' = "wait" /\ UNCHANGED outcome
    <3>1. attempts' \in 0..FETCH_RETRIES
      BY <2>2, MiddayParts DEF GivesUp
    <3>2. QED
      BY <2>2, <3>1, MiddayParts
  <2>3. QED
    BY <1>1, <2>1, <2>2
<1>5. \A u \in Ticker : outcome[u] # "none" => outcome'[u] # "none"
  BY <1>1, <1>4 DEF Due
<1>6. ProductionFirst'
  <2>1. SUFFICES ASSUME NEW v \in Ticker, outcome'[v] # "none", v \notin Productive, NEW u \in Productive
                 PROVE  outcome'[u] # "none"
    BY DEF ProductionFirst, Productive
  <2>2. outcome[u] # "none"
    <3>1. CASE v = t
      BY <1>1, <2>1, <3>1, ComparedIsLast
    <3>2. CASE v # t
      BY <1>4, <2>1, <3>2, MiddayParts DEF ProductionFirst
    <3>3. QED
      BY <3>1, <3>2
  <2>3. u \in Ticker
    BY MiddayBandType DEF Productive
  <2>4. QED
    BY <1>5, <2>2, <2>3
<1>7. SummedInv' /\ KeptInv'
  BY <1>2, <1>3, <1>4 DEF SummedInv, KeptInv
<1>8. MiddayTypes'
  BY <1>2, <1>4, MiddayParts DEF MiddayTypes
<1>9. QED
  BY <1>6, <1>7, <1>8 DEF MiddayIInv

LEMMA EndFetchingKeeps == ASSUME MiddayIInv, EndFetching PROVE MiddayIInv'
<1>1. activity = "fetch" /\ activity' = "evaluate" /\ UNCHANGED <<hour, attempts, outcome, summed, judged, kept>>
  BY DEF EndFetching
<1>2. summed = {} /\ kept = {}
  BY <1>1, MiddayParts DEF SummedInv
<1>3. QED
  BY <1>1, <1>2, MiddayParts DEF MiddayIInv, MiddayTypes, ProductionFirst, Productive, SummedInv, KeptInv

LEMMA EvaluateBandKeeps == ASSUME MiddayIInv, EvaluateBand PROVE MiddayIInv'
<1>1. PICK b \in Index \ summed :
        /\ summed' = summed \cup {b}
        /\ judged' = [judged EXCEPT ![b] = [t \in TickersOf(b) |-> Status(t)]]
        /\ kept' \in IF Complete(b) /\ ~MiddayBands[b].compared THEN {kept, kept \cup {b}} ELSE {kept}
  BY DEF EvaluateBand
<1>2. activity = "evaluate" /\ UNCHANGED <<hour, activity, attempts, outcome>>
  BY DEF EvaluateBand
<1>3. \A t \in Ticker : Status(t)' = Status(t) /\ Status(t) \in Judgement
  BY <1>2 DEF Status, Judgement
<1>4. /\ DOMAIN judged' = Index /\ judged'[b] = [t \in TickersOf(b) |-> Status(t)]
      /\ \A c \in Index \ {b} : judged'[c] = judged[c]
  BY <1>1, MiddayParts
<1>5. MiddayTypes'
  <2>1. judged'[b] \in [TickersOf(b) -> Judgement]
    BY <1>3, <1>4, MiddayBandType
  <2>2. \A c \in Index : judged'[c] \in [TickersOf(c) -> Judgement]
    BY <1>4, <2>1, MiddayParts
  <2>3. kept' \subseteq summed' /\ summed' \subseteq Index
    BY <1>1, MiddayParts
  <2>4. QED
    BY <1>2, <1>4, <2>2, <2>3, MiddayParts DEF MiddayTypes
<1>6. SummedInv'
  <2>1. ASSUME NEW c \in summed', NEW t \in TickersOf(c) PROVE judged'[c][t] = Status(t)'
    <3>1. t \in Ticker /\ c \in Index
      BY <1>1, MiddayParts, MiddayBandType
    <3>2. CASE c = b
      BY <1>3, <1>4, <3>1, <3>2
    <3>3. CASE c # b
      <4>1. c \in summed /\ judged'[c] = judged[c]
        BY <1>1, <1>4, <3>1, <3>3
      <4>2. judged[c][t] = Status(t)
        BY <4>1, MiddayParts DEF SummedInv
      <4>3. QED
        BY <1>3, <3>1, <4>1, <4>2
    <3>4. QED
      BY <3>2, <3>3
  <2>2. QED
    BY <1>2, <2>1 DEF SummedInv
<1>7. KeptInv' /\ ProductionFirst'
  BY <1>1, <1>2, MiddayParts DEF KeptInv, Complete, ProductionFirst, Productive
<1>8. QED
  BY <1>5, <1>6, <1>7 DEF MiddayIInv

LEMMA MiddayInitially == MiddayInit => MiddayIInv
<1> SUFFICES ASSUME MiddayInit PROVE MiddayIInv
  OBVIOUS
<1> USE DEF MiddayInit
<1>1. attempts \in 0..FETCH_RETRIES
  BY MiddayAssumption
<1>2. MiddayTypes
  BY <1>1 DEF MiddayTypes, MiddayOutcome, Judgement
<1>3. ProductionFirst /\ SummedInv /\ KeptInv
  BY DEF ProductionFirst, SummedInv, KeptInv
<1>4. QED
  BY <1>2, <1>3 DEF MiddayIInv

LEMMA MiddayStatusStays == UNCHANGED outcome => \A t \in Ticker : Status(t)' = Status(t)
BY DEF Status

LEMMA MiddayInductive == MiddayIInv /\ [MiddayNext]_middayVars => MiddayIInv'
<1> SUFFICES ASSUME MiddayIInv, [MiddayNext]_middayVars PROVE MiddayIInv'
  OBVIOUS
<1>1. ASSUME UNCHANGED <<attempts, outcome, summed, judged, kept>>, hour' \in 0..2,
             \/ activity' = activity
             \/ activity = "evaluate" /\ activity' = "over" /\ summed = Index
      PROVE  MiddayIInv'
  <2>1. MiddayTypes'
    BY <1>1, MiddayParts DEF MiddayTypes
  <2>2. SummedInv'
    <3>1. \A b \in summed : \A t \in TickersOf(b) : judged[b][t] = Status(t) /\ Status(t)' = Status(t)
      BY <1>1, MiddayParts, MiddayBandType, MiddayStatusStays DEF SummedInv
    <3>2. QED
      BY <1>1, <3>1, MiddayParts DEF SummedInv
  <2>3. ProductionFirst' /\ KeptInv'
    BY <1>1, MiddayParts DEF ProductionFirst, Productive, KeptInv
  <2>4. QED
    BY <2>1, <2>2, <2>3 DEF MiddayIInv
<1>2. CASE UNCHANGED middayVars
  BY <1>1, <1>2, MiddayParts DEF middayVars
<1>3. CASE EndEvaluating
  BY <1>1, <1>3, MiddayParts DEF EndEvaluating
<1>4. CASE HourPasses
  BY <1>1, <1>4, MiddayParts DEF HourPasses
<1>5. QED
  BY <1>2, <1>3, <1>4, FetchKeeps, EndFetchingKeeps, EvaluateBandKeeps DEF MiddayNext, MiddayStep

LEMMA MiddayImplied == MiddayIInv => MiddayTypeOK /\ MiddaySound
<1> SUFFICES ASSUME MiddayIInv PROVE MiddayTypeOK /\ MiddaySound
  OBVIOUS
<1>1. MiddayTypeOK
  BY MiddayParts DEF MiddayTypeOK, MiddayOutcome, Judgement
<1>2. SavedWhole
  <2>1. SUFFICES ASSUME NEW b \in kept, NEW t \in TickersOf(b)
                 PROVE  ~MiddayBands[b].compared /\ judged[b][t] \in {"evaluated", "skipped"}
    BY MiddayParts DEF SavedWhole, KeptInv
  <2>2. judged[b][t] = Status(t) /\ outcome[t] # "none" /\ ~MiddayBands[b].compared
    BY MiddayParts DEF SummedInv, KeptInv
  <2>3. QED
    BY <2>2 DEF Status
<1>3. BandsAgree
  <2>1. SUFFICES ASSUME activity = "over", NEW b \in Index, NEW c \in Index,
                        NEW t \in DOMAIN judged[b] \cap DOMAIN judged[c]
                 PROVE  judged[b][t] = judged[c][t]
    BY DEF BandsAgree
  <2>2. t \in TickersOf(b) /\ t \in TickersOf(c) /\ b \in summed /\ c \in summed
    BY <2>1, MiddayParts DEF SummedInv
  <2>3. QED
    BY <2>2, MiddayParts DEF SummedInv
<1>4. QED
  BY <1>1, <1>2, <1>3, MiddayParts DEF MiddaySound

\* Whenever the deadline comes, for any bands, candidates and retries: a candidate that is only
\* compared is begun after all of the others, a result that is saved is of a whole band, and two
\* bands say the same of a candidate they share.
THEOREM AlwaysMiddaySound == MiddaySpec => [](MiddayTypeOK /\ MiddaySound)
BY MiddayInitially, MiddayInductive, MiddayImplied, PTL DEF MiddaySpec

-----------------------------------------------------------------------------
(* The programs of a day, composed *)

\* What the machine that runs preserves. The others do not step, and no property is about them.
RunningInv ==
    /\ machine = "filtering" => FilteringIInv
    /\ machine = "screening" => ScreeningIInv
    /\ machine = "market" => MarketIInv /\ MarketRest
    /\ machine = "midday" => MiddayIInv
    /\ machine = "bars" => BarsIInv
    /\ machine = "decision" => DecisionIInv
    /\ machine = "regime" => RegimeIInv
    /\ machine = "client" => ClientIInv
    /\ machine = "snapshot" => SnapshotIInv
    /\ machine = "backtest" => BacktestIInv

LEMMA DayInitially == DayInit => RunningInv
BY FilteringInitially, ScreeningInitially, MarketInitially, RestInitially, MiddayInitially,
   BarsInitially, DecisionInitially, RegimeInitially, ClientInitially, SnapshotInitially,
   BacktestBegins DEF DayInit, RunningInv

\* A step of the composition is one of the machine that was chosen, or changes nothing of it.
LEMMA Running ==
    ASSUME [DayNext]_dayVars
    PROVE  /\ machine' = machine
           /\ machine = "filtering" => [FilteringNext]_filteringVars
           /\ machine = "screening" => [ScreeningNext]_screeningVars
           /\ machine = "market" => [MarketDayNext]_marketVars
           /\ machine = "midday" => [MiddayNext]_middayVars
           /\ machine = "bars" => [MinuteBarsNext]_barVars
           /\ machine = "decision" => [DecisionNext]_decisionVars
           /\ machine = "regime" => [RegimeNext]_regimeVars
           /\ machine = "client" => [ClientNext]_clientVars
           /\ machine = "snapshot" => [SnapshotNext]_snapshotVars
           /\ machine = "backtest" => [BacktestNext]_backtestVars
<1>1. CASE DayNext
  BY <1>1 DEF DayNext, OthersIdle
<1>2. CASE UNCHANGED dayVars
  BY <1>2 DEF dayVars
<1>3. QED
  BY <1>1, <1>2

LEMMA DayInductive == RunningInv /\ [DayNext]_dayVars => RunningInv'
<1> SUFFICES ASSUME RunningInv, [DayNext]_dayVars PROVE RunningInv'
  OBVIOUS
<1>1. machine' = machine
  BY Running
<1>2. machine = "filtering" => FilteringIInv'
  BY Running, FilteringInductive DEF RunningInv
<1>3. machine = "screening" => ScreeningIInv'
  BY Running, ScreeningInductive DEF RunningInv
<1>4. machine = "market" => MarketIInv' /\ MarketRest'
  BY Running, MarketInductive, RestInductive DEF RunningInv
<1>5. machine = "midday" => MiddayIInv'
  BY Running, MiddayInductive DEF RunningInv
<1>6. machine = "bars" => BarsIInv'
  BY Running, BarsInductive DEF RunningInv
<1>7. machine = "decision" => DecisionIInv'
  BY Running, DecisionInductive DEF RunningInv
<1>8. machine = "regime" => RegimeIInv'
  BY Running, RegimeInductive DEF RunningInv
<1>9. machine = "client" => ClientIInv'
  BY Running, ClientInductive DEF RunningInv
<1>10. machine = "snapshot" => SnapshotIInv'
  BY Running, SnapshotInductive DEF RunningInv
<1>11. machine = "backtest" => BacktestIInv'
  BY Running, BacktestMoves DEF RunningInv
<1>12. QED
  BY <1>1, <1>2, <1>3, <1>4, <1>5, <1>6, <1>7, <1>8, <1>9, <1>10, <1>11 DEF RunningInv

\* What the day chooses from keeps its promises in every state of every behaviour: the
\* screening (screening_usecase.py), the filtering of the morning (filtering_usecase.py), the
\* one of noon (midday_filtering_usecase.py) and the client that fetches pages
\* (jquants_client.py).
THEOREM DaySelectionsSound == DaySpec => []SelectionsSound
<1>1. RunningInv => SelectionsSound
  BY FilteringImplied, ScreeningImplied, MiddayImplied, ClientSafe
     DEF RunningInv, SelectionsSound
<1>2. QED
  BY <1>1, DayInitially, DayInductive, PTL DEF DaySpec

\* Every program of a day keeps its types, whichever runs, for any constants.
THEOREM DayTyped == DaySpec => []DayTypeOK
<1>1. RunningInv => DayTypeOK
  BY FilteringImplied, ScreeningImplied, MarketTyped, MiddayImplied, DecisionSafe, RegimeSafe,
     ClientSafe, SnapshotSafe, BacktestImplied DEF RunningInv, DayTypeOK, BarsIInv
<1>2. QED
  BY <1>1, DayInitially, DayInductive, PTL DEF DaySpec

\* What is decided about the chosen symbols is sound in every state of every behaviour: by the
\* loop (trading_usecase.py), by the judgement of the market (market_regime_usecase.py), in the
\* simulations (backtest_usecase.py) and in the runs of them that are saved and repeated
\* (backtest_input_snapshot.py).
THEOREM DayDecisionsSound == DaySpec => []DecisionsSound
<1>1. RunningInv => DecisionsSound
  BY DecisionSafe, RegimeSafe, BacktestImplied, SnapshotSafe DEF RunningInv, DecisionsSound
<1>2. QED
  BY <1>1, DayInitially, DayInductive, PTL DEF DaySpec

=============================================================================
