------------------------------ MODULE MinuteBars ------------------------------
(* The minute bars of one symbol and day (ParquetMinuteBarRepository). Three       *)
(* programs read the file, merge what they have fetched, and replace the file: the *)
(* filtering at noon, the saving after the close and the backfill of Saturday.     *)
(* Each has its own rule of what wins, and no lock is shared.                     *)
EXTENDS Naturals, FiniteSets

CONSTANTS
    Early,         \* the minutes from 09:00 to 09:30
    Later,         \* the other minutes of the day
    none,          \* no bar
    MaxReplaced    \* bound: replacements of the file

ASSUME MinuteBarsAssumption == Early \cap Later = {} /\ MaxReplaced \in Nat

VARIABLES
    bars,        \* the file: the bar of each minute
    writer,      \* what each program is at
    fetched,     \* what it has fetched
    existing,    \* what it has read of the file
    replaced,    \* the number of replacements
    outdated,    \* not in the program: the file was replaced after the program read it
    last         \* not in the program: the program of the last replacement, if it was not outdated

barVars == <<bars, writer, fetched, existing, replaced, outdated, last>>

Minute == Early \cup Later
Writer == {"noon", "close", "backfill"}

\* A bar is known by the fetch it is from; 0: of another source (poll), as earlier
\* versions of the program have written them.
Bar == 0..MaxReplaced
Bars == [Minute -> Bar \cup {none}]
NoBars == [m \in Minute |-> none]

MinuteBarsInit ==
    /\ bars \in [Minute -> {none, 0}]
    /\ writer = [w \in Writer |-> "off"]
    /\ fetched = [w \in Writer |-> NoBars]
    /\ existing = [w \in Writer |-> NoBars]
    /\ replaced = 0
    /\ outdated = {}
    /\ last = none

\* The bars of Yahoo, of which minutes without trades are missing
FetchBars(w) ==
    /\ writer[w] = "off"
    /\ replaced < MaxReplaced
    /\ \E found \in SUBSET Minute :
          fetched' = [fetched EXCEPT ![w] = [m \in Minute |-> IF m \in found THEN replaced + 1 ELSE none]]
    /\ writer' = [writer EXCEPT ![w] = "fetched"]
    /\ UNCHANGED <<bars, existing, replaced, outdated, last>>

\* The minutes that a program writes
Taken(w) == IF w = "noon" THEN Early ELSE Minute

\* load_bars. Without bars of its own the program leaves the file alone.
LoadBars(w) ==
    /\ writer[w] = "fetched"
    /\ IF \A m \in Taken(w) : fetched[w][m] = none
       THEN /\ writer' = [writer EXCEPT ![w] = "off"]
            /\ UNCHANGED existing
       ELSE /\ writer' = [writer EXCEPT ![w] = "loaded"]
            /\ existing' = [existing EXCEPT ![w] = bars]
    /\ outdated' = outdated \ {w}
    /\ UNCHANGED <<bars, fetched, replaced, last>>

Over(m, first, second) == IF first[m] # none THEN first[m] ELSE second[m]

\* A bug: the noon writes its bars only.
MergedForgetting(w) ==
    CASE w = "noon" -> [m \in Minute |-> IF m \in Early THEN fetched[w][m] ELSE none]
      [] w = "close" -> [m \in Minute |-> Over(m, fetched[w], existing[w])]
      [] w = "backfill" -> [m \in Minute |-> Over(m, existing[w], fetched[w])]

\* A bug: the backfill overwrites, as the saving after the close does.
MergedOverwriting(w) ==
    CASE w = "noon" -> [m \in Minute |-> IF m \in Early THEN fetched[w][m] ELSE existing[w][m]]
      [] OTHER -> [m \in Minute |-> Over(m, fetched[w], existing[w])]

\* The noon replaces its half hour, the close each minute it has fetched, and the
\* backfill adds the minutes that are missing.
Merged(w) ==
    CASE w = "noon" -> [m \in Minute |-> IF m \in Early THEN fetched[w][m] ELSE existing[w][m]]
      [] w = "close" -> [m \in Minute |-> Over(m, fetched[w], existing[w])]
      [] w = "backfill" -> [m \in Minute |-> Over(m, existing[w], fetched[w])]

Forgotten(w) ==
    /\ fetched' = [fetched EXCEPT ![w] = NoBars]
    /\ existing' = [existing EXCEPT ![w] = NoBars]

\* replace_bars: a new file takes the place of the old one, or the old one stays.
ReplaceBars(w) ==
    /\ writer[w] = "loaded"
    /\ \/ /\ bars' = Merged(w)
          /\ replaced' = replaced + 1
          /\ outdated' = {v \in Writer : v # w /\ writer[v] = "loaded"} \cup (outdated \ {w})
          /\ last' = IF w \in outdated THEN none ELSE w
       \/ UNCHANGED <<bars, replaced, outdated, last>>
    /\ writer' = [writer EXCEPT ![w] = "off"]
    /\ Forgotten(w)

\* The program dies; the new file is not in place, or it is.
WriterDies(w) ==
    /\ writer[w] # "off"
    /\ writer' = [writer EXCEPT ![w] = "off"]
    /\ Forgotten(w)
    /\ UNCHANGED <<bars, replaced, outdated, last>>

MinuteBarsNext == \E w \in Writer : FetchBars(w) \/ LoadBars(w) \/ ReplaceBars(w) \/ WriterDies(w)

MinuteBarsSpec == MinuteBarsInit /\ [][MinuteBarsNext]_barVars

-----------------------------------------------------------------------------
(* Properties *)

MinuteBarsTypeOK ==
    /\ bars \in Bars
    /\ writer \in [Writer -> {"off", "fetched", "loaded"}]
    /\ fetched \in [Writer -> Bars] /\ existing \in [Writer -> Bars]
    /\ replaced \in 0..(MaxReplaced + Cardinality(Writer))
    /\ outdated \subseteq Writer
    /\ last \in Writer \cup {none}

\* Unless two programs overlap, no bar is lost but in the half hour that the noon
\* renews, and what was there before is kept by the backfill, whatever the order and
\* the number of the runs.
BarsKept ==
    [][\A m \in Minute : bars[m] # none /\ bars'[m] # bars[m] /\ last' # none =>
          \/ last' = "noon" /\ m \in Early
          \/ last' = "close" /\ bars'[m] = fetched["close"][m]]_barVars
=============================================================================
