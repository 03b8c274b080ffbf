--------------------------- MODULE CoverageRatio ---------------------------
(***************************************************************************)
(* coverageRatio of internal/billing/engine.go: the part of a usage        *)
(* snapshot's window that storms cover.                                    *)
(*                                                                         *)
(* The function clips the storms to the window, sorts the intervals and    *)
(* merges them in place: merged := intervals[:1] shares its backing array  *)
(* with the slice the loop is still reading, so an append overwrites it.   *)
(* The model keeps one array, arr, a write length and a read index.        *)
(***************************************************************************)
EXTENDS StormEvents, Sequences

CONSTANTS
  Start, End,  \* the window
  Horizon,     \* bound on the times of the storms
  MaxRows      \* bound on the number of storms

ASSUME SpanAssumption == Start \in Nat /\ End \in Nat /\ Start < End

ASSUME RowsAssumption == Horizon \in Nat /\ MaxRows \in Nat

VARIABLES
  rows,   \* the rows of GetStormEventsForWindow
  next,     \* the storm, interval or merged interval the current loop is at
  arr,      \* the backing array of intervals and merged
  merged,   \* len(merged)
  covered,  \* the sum of the merged intervals
  loop

coverageVars == <<rows, next, arr, merged, covered, loop>>

Times == 0 .. Horizon

StormRow == [started : Times, ended : Times \cup {NULL}]

\* The WHERE clause of GetStormEventsForWindow.
InWindow(s) == s.started < End /\ (s.ended = NULL \/ s.ended > Start)

\* timeRange; only intervals that are not inverted are kept.
TimeRange == {r \in [start : Nat, end : Nat] : r.start <= r.end}

CoverageInit ==
  /\ \E n \in 0 .. MaxRows : rows \in [1 .. n -> {s \in StormRow : InWindow(s)}]
  /\ \A i, j \in DOMAIN rows : i < j => rows[i].started <= rows[j].started
  /\ next = 1
  /\ arr = <<>>
  /\ merged = 0
  /\ covered = 0
  /\ loop = "clip"

-----------------------------------------------------------------------------
ClipStart(s) == IF s.started < Start THEN Start ELSE s.started

ClipEnd(s) == IF s.ended # NULL /\ s.ended < End THEN s.ended ELSE End

Clipped(s) == [start |-> ClipStart(s), end |-> ClipEnd(s)]

Keep(s) == ClipStart(s) <= ClipEnd(s)

Clip ==
  /\ loop = "clip"
  /\ next <= Len(rows)
  /\ arr' = IF Keep(rows[next]) THEN Append(arr, Clipped(rows[next])) ELSE arr
  /\ next' = next + 1
  /\ UNCHANGED <<rows, merged, covered, loop>>

\* len(intervals) == 0: the ratio is 0.
NothingKept ==
  /\ loop = "clip"
  /\ next > Len(rows)
  /\ arr = <<>>
  /\ loop' = "done"
  /\ UNCHANGED <<rows, next, arr, merged, covered>>

\* sort.Slice is not stable: any order of the intervals that share a start.
Sorted(t) ==
  \A i, j \in DOMAIN t : i < j => t[i].start <= t[j].start

Reorders(s, t) ==
  \E f \in [DOMAIN s -> DOMAIN s] :
    /\ \A j \in DOMAIN s : \E i \in DOMAIN s : f[i] = j
    /\ t = [i \in DOMAIN s |-> s[f[i]]]

\* Faulty: merged starts as the whole slice.
SortAll ==
  /\ loop = "clip"
  /\ next > Len(rows)
  /\ arr # <<>>
  /\ arr' \in {t \in [DOMAIN arr -> {arr[i] : i \in DOMAIN arr}] : Reorders(arr, t) /\ Sorted(t)}
  /\ merged' = Len(arr)
  /\ next' = 2
  /\ loop' = "merge"
  /\ UNCHANGED <<rows, covered>>

Sort ==
  /\ loop = "clip"
  /\ next > Len(rows)
  /\ arr # <<>>
  /\ arr' \in {t \in [DOMAIN arr -> {arr[i] : i \in DOMAIN arr}] : Reorders(arr, t) /\ Sorted(t)}
  /\ merged' = 1
  /\ next' = 2
  /\ loop' = "merge"
  /\ UNCHANGED <<rows, covered>>

-----------------------------------------------------------------------------
iv == arr[next]
last == arr[merged]

Merging == loop = "merge" /\ next <= Len(arr)

\* Faulty: intervals that overlap are kept apart.
AppendOverlapping ==
  /\ Merging
  /\ iv.start > last.start
  /\ arr' = [arr EXCEPT ![merged + 1] = iv]
  /\ merged' = merged + 1
  /\ next' = next + 1
  /\ UNCHANGED <<rows, covered, loop>>

\* iv starts after the last merged interval: the append writes arr in place.
AppendApart ==
  /\ Merging
  /\ iv.start > last.end
  /\ arr' = [arr EXCEPT ![merged + 1] = iv]
  /\ merged' = merged + 1
  /\ next' = next + 1
  /\ UNCHANGED <<rows, covered, loop>>

\* Faulty: the end of the interval replaces a later one.
ExtendAlways ==
  /\ Merging
  /\ iv.start <= last.end
  /\ arr' = [arr EXCEPT ![merged].end = iv.end]
  /\ next' = next + 1
  /\ UNCHANGED <<rows, merged, covered, loop>>

Extend ==
  /\ Merging
  /\ iv.start <= last.end
  /\ arr' = IF iv.end > last.end THEN [arr EXCEPT ![merged].end = iv.end] ELSE arr
  /\ next' = next + 1
  /\ UNCHANGED <<rows, merged, covered, loop>>

EndMerge ==
  /\ loop = "merge"
  /\ next > Len(arr)
  /\ next' = 1
  /\ loop' = "sum"
  /\ UNCHANGED <<rows, arr, merged, covered>>

Sum ==
  /\ loop = "sum"
  /\ next <= merged
  /\ covered' = covered + (arr[next].end - arr[next].start)
  /\ next' = next + 1
  /\ UNCHANGED <<rows, arr, merged, loop>>

\* covered > duration is cut to duration, and the ratio is returned.
Finish ==
  /\ loop = "sum"
  /\ next > merged
  /\ covered' = IF covered > End - Start THEN End - Start ELSE covered
  /\ loop' = "done"
  /\ UNCHANGED <<rows, next, arr, merged>>

CoverageNext ==
  \/ Clip \/ NothingKept \/ Sort
  \/ AppendApart \/ Extend \/ EndMerge
  \/ Sum \/ Finish

CoverageSpec == CoverageInit /\ [][CoverageNext]_coverageVars

-----------------------------------------------------------------------------
(* The shape of the state.  The merge never writes past what it has read.  *)
CoverageTypeOK ==
  /\ rows \in Seq(Storm)
  /\ \A i \in DOMAIN rows : InWindow(rows[i])
  /\ arr \in Seq(TimeRange)
  /\ \A i \in DOMAIN arr : Start <= arr[i].start /\ arr[i].end <= End
  /\ next \in Nat \ {0}
  /\ merged \in 0 .. Len(arr)
  /\ covered \in Nat
  /\ loop \in {"clip", "merge", "sum", "done"}
  /\ loop = "merge" => 0 < merged /\ merged < next /\ next <= Len(arr) + 1
  /\ loop = "sum" => 0 < merged /\ next <= merged + 1

\* The units of the window in an interval of arr[I].
UnitsOf(I) ==
  {t \in Start .. End - 1 : \E i \in I : arr[i].start <= t /\ t < arr[i].end}

\* The definition of what coverageRatio computes: the units of the window in
\* which at least one storm is active.
CoveredUnits ==
  {t \in Start .. End - 1 : \E i \in DOMAIN rows : ActiveAt(rows[i], t)}

(* However the sort orders equal starts, and although an append overwrites *)
(* the array the loop reads, the merged and the unread intervals together  *)
(* always cover exactly the units in which a storm is active               *)
(* (engine.go:237-250).                                                    *)
MergeLosesNothing ==
  /\ loop = "merge" => UnitsOf(1 .. merged) \cup UnitsOf(next .. Len(arr)) = CoveredUnits
  /\ loop = "sum" => UnitsOf(1 .. merged) = CoveredUnits

(* What is returned is the time covered by the union of the storms: a time *)
(* covered by several storms counts once, time outside the window and      *)
(* inverted storms not at all, and the ratio is at most 1                  *)
(* (engine.go:214-259).                                                    *)
CoveredIsUnion == loop = "done" => covered = Cardinality(CoveredUnits)

=============================================================================
