---------------------------- MODULE LogRotation ----------------------------
(***************************************************************************)
(* The log writer (utils/log.go) and the files it keeps: "latest" and its  *)
(* history, the rotated files with ids 1, 2, ...  slog's handler writes one*)
(* entry at a time, so Write is a sequence of steps of one process.  Each  *)
(* call to the file system is a step: it may fail, the process may be      *)
(* killed after it, and main closes the writer without synchronisation.    *)
(*                                                                         *)
(* A name is a base and an id; the current file has id 0.  The pattern for *)
(* rotated files matches every base, so a history that another file left   *)
(* in the directory is renumbered and deleted too.  A file is the set of   *)
(* its entries, numbered in the order of writing, and its size.            *)
(***************************************************************************)
EXTENDS Integers, FiniteSets, Functions

CONSTANTS
  MaxSize,     \* maxSize, in units of which an entry has at most MaxEntry
  MaxEntry,
  Limits,      \* values of maxHistoricalLogs; a restart may change it
  Left,        \* ids up to which there may be rotated files at first
  MaxWritten,  \* bound: entries written, leftovers included
  MaxFaults,   \* bound: failing calls and kills; each can raise the ids
  MayClose     \* whether main closes the writer

ASSUME LogAssumption ==
  /\ MaxSize \in Nat \ {0}
  /\ MaxEntry \in Nat \ {0}
  /\ Limits \subseteq Nat /\ Limits # {}
  /\ Left \in Nat
  /\ MaxWritten \in Nat /\ MaxWritten >= 2 * Left
  /\ MaxFaults \in Nat
  /\ MayClose \in BOOLEAN

Bases == {"own", "other"}
Name(base, id) == [base |-> base, id |-> id]
Latest == Name("own", 0)

VARIABLES
  disk,       \* the files: a function from their names
  handle,     \* lw.file: "open", "closed" or "nil"
  closed,     \* lw.closed
  pc,         \* where Write is; "down" and "panicked" without a process
  pending,    \* size of the entry being written
  doomed,     \* files that this rotation has yet to delete
  shifting,   \* files that this rotation has yet to renumber
  limit,      \* lw.maxHistoricalLogs
  written,    \* the number of the entry written last
  closer,     \* where main's call of Close is
  faults      \* failing calls and kills so far

fileVars == <<disk, handle>>
rotationVars == <<pending, doomed, shifting>>
vars == <<fileVars, closed, pc, rotationVars, limit, written, closer,
          faults>>

Rotated == {f \in DOMAIN disk : f.id > 0}
Entries == UNION {disk[f].entries : f \in DOMAIN disk}
Empty == [entries |-> {}, size |-> 0]
With(d, f, content) ==
  [g \in DOMAIN d \cup {f} |-> IF g = f THEN content ELSE d[g]]
Without(d, f) == Restrict(d, DOMAIN d \ {f})
Renamed(d, f, g) == With(Without(d, f), g, d[f])

TypeOK ==
  /\ \A f \in DOMAIN disk :
       /\ f \in [base : Bases, id : Nat]
       /\ disk[f] \in [entries : SUBSET (1..MaxWritten), size : Nat]
  /\ handle \in {"open", "closed", "nil"}
  /\ closed \in BOOLEAN
  /\ pc \in {"idle", "closing", "scanning", "moving", "opening", "appending",
             "down", "panicked"}
  /\ pending \in 0..MaxEntry
  /\ doomed \subseteq Rotated /\ shifting \subseteq Rotated
  /\ limit \in Limits
  /\ written \in 0..MaxWritten
  /\ closer \in {"idle", "closing", "done"}
  /\ faults \in 0..MaxFaults

(* Leftovers of the own base are entries 1..Left, oldest first. *)
Leftover(f) ==
  [entries |-> {(IF f.base = "own" THEN Left ELSE 2 * Left) + 1 - f.id},
   size |-> 1]

(* After NewLogWriter. *)
Init ==
  /\ \E S \in SUBSET [base : Bases, id : 1..Left] :
       disk = With([f \in S |-> Leftover(f)], Latest, Empty)
  /\ handle = "open"
  /\ closed = FALSE
  /\ pc = "idle"
  /\ pending = 0
  /\ doomed = {} /\ shifting = {}
  /\ limit \in Limits
  /\ written = 2 * Left
  /\ closer = "idle"
  /\ faults = 0
-----------------------------------------------------------------------------
(***************************************************************************)
(* Write.                                                                  *)
(***************************************************************************)
TooLarge(n) == disk[Latest].size + n > MaxSize

(* With the writer closed, or the file closed or nil, Write returns an      *)
(* error and changes nothing.                                               *)
Write(n) ==
  /\ pc = "idle"
  /\ ~closed /\ handle = "open"
  /\ written < MaxWritten
  /\ pc' = IF TooLarge(n) THEN "closing" ELSE "appending"
  /\ pending' = n
  /\ UNCHANGED <<fileVars, closed, doomed, shifting, limit, written, closer,
                 faults>>

(* An error of this close is ignored. *)
CloseOld ==
  /\ pc = "closing"
  /\ handle' = "closed"
  /\ pc' = "scanning"
  /\ UNCHANGED <<disk, closed, rotationVars, limit, written, closer, faults>>

(* Mutant: the file that is about to be rotated is not counted. *)
OverflowWithoutCurrent(n) == n - limit

Overflow(n) == n + 1 - limit

Kept(D) == Rotated \ D

(* ReadDir, and what it means for each file: the listing is sorted by id,   *)
(* in any order where ids are equal, and cut.  With a limit of 0 the cut    *)
(* would be one file too far, and the index -1 panics.                      *)
Scan ==
  /\ pc = "scanning"
  /\ LET n == Cardinality(Rotated) IN
     IF n >= limit /\ Overflow(n) > n
     THEN /\ pc' = "panicked"
          /\ UNCHANGED <<doomed, shifting, faults>>
     ELSE /\ pc' = "moving"
          /\ \E D \in SUBSET Rotated :
               /\ Cardinality(D) = IF n >= limit THEN Overflow(n) ELSE 0
               /\ \A f \in D, g \in Rotated \ D : g.id <= f.id
               /\ doomed' = D
               /\ shifting' = Kept(D)
  /\ UNCHANGED <<fileVars, closed, pending, limit, written, closer, faults>>

(* In ascending order of the ids. *)
DeleteOne ==
  /\ pc = "moving"
  /\ \E f \in doomed :
       /\ \A g \in doomed : f.id <= g.id
       /\ disk' = Without(disk, f)
       /\ doomed' = doomed \ {f}
  /\ UNCHANGED <<handle, closed, pc, pending, shifting, limit, written, closer,
                 faults>>

(* Mutant: in ascending order. *)
FirstToShift(f) == \A g \in shifting : f.id <= g.id

LastToShift(f) == \A g \in shifting : f.id >= g.id

(* In descending order. *)
ShiftOne ==
  /\ pc = "moving"
  /\ doomed = {}
  /\ \E f \in shifting :
       /\ LastToShift(f)
       /\ disk' = Renamed(disk, f, Name(f.base, f.id + 1))
       /\ shifting' = shifting \ {f}
  /\ UNCHANGED <<handle, closed, pc, pending, doomed, limit, written, closer,
                 faults>>

(* Mutant: numbers grow with time. *)
RotatedNameNext == Name("own", Cardinality(Rotated) + 1)

RotatedName == Name("own", 1)

MoveLatest ==
  /\ pc = "moving"
  /\ doomed = {} /\ shifting = {}
  /\ disk' = Renamed(disk, Latest, RotatedName)
  /\ pc' = "opening"
  /\ UNCHANGED <<handle, closed, rotationVars, limit, written, closer, faults>>

Reopen ==
  /\ pc = "opening"
  /\ handle' = "open"
  /\ disk' = With(disk, Latest, Empty)
  /\ pc' = "appending"
  /\ UNCHANGED <<closed, rotationVars, limit, written, closer, faults>>

(* On a file that main has closed the write fails. *)
Append ==
  /\ pc = "appending"
  /\ pc' = "idle"
  /\ IF handle = "open"
     THEN /\ written' = written + 1
          /\ disk' = With(disk, Latest,
                          [entries |-> disk[Latest].entries \cup {written + 1},
                           size |-> disk[Latest].size + pending])
     ELSE UNCHANGED <<disk, written, faults>>
  /\ UNCHANGED <<handle, closed, rotationVars, limit, closer, faults>>

(* Any call fails: Write returns, with the file closed, or nil if it could  *)
(* not be opened again.                                                     *)
Fail ==
  /\ pc \in {"scanning", "moving", "opening"}
  /\ pc' = "idle"
  /\ handle' = IF pc = "opening" THEN "nil" ELSE handle
  /\ doomed' = {} /\ shifting' = {}
  /\ faults < MaxFaults
  /\ faults' = faults + 1
  /\ UNCHANGED <<disk, closed, pending, limit, written, closer>>
-----------------------------------------------------------------------------
(***************************************************************************)
(* Close, in main, and the end and the start of the process.               *)
(***************************************************************************)
(* Closing a file twice is an error, with which Close returns. *)
CloseFile ==
  /\ MayClose
  /\ closer = "idle"
  /\ pc \notin {"down", "panicked"}
  /\ closer' = IF handle = "open" THEN "closing" ELSE "done"
  /\ handle' = IF handle = "open" THEN "closed" ELSE handle
  /\ UNCHANGED <<disk, closed, pc, rotationVars, limit, written, faults>>

SetClosed ==
  /\ closer = "closing"
  /\ pc \notin {"down", "panicked"}
  /\ closer' = "done"
  /\ closed' = TRUE
  /\ UNCHANGED <<fileVars, pc, rotationVars, limit, written, faults>>

Crash ==
  /\ pc # "down"
  /\ pc' = "down"
  /\ doomed' = {} /\ shifting' = {}
  /\ faults < MaxFaults
  /\ faults' = faults + 1
  /\ UNCHANGED <<fileVars, closed, pending, limit, written, closer>>

(* NewLogWriter opens the current file, or creates it. *)
Restart ==
  /\ pc = "down"
  /\ pc' = "idle"
  /\ handle' = "open"
  /\ disk' = IF Latest \in DOMAIN disk THEN disk ELSE With(disk, Latest, Empty)
  /\ closed' = FALSE
  /\ closer' = "idle"
  /\ limit' \in Limits
  /\ UNCHANGED <<rotationVars, written, faults>>

Next ==
  \/ \E n \in 1..MaxEntry : Write(n)
  \/ CloseOld \/ Scan \/ DeleteOne \/ ShiftOne \/ MoveLatest \/ Reopen
  \/ Append \/ Fail
  \/ CloseFile \/ SetClosed \/ Crash \/ Restart

Spec == Init /\ [][Next]_vars
-----------------------------------------------------------------------------
(***************************************************************************)
(* Properties                                                              *)
(***************************************************************************)
(* An entry on disk stays there, whatever fails and wherever the process is *)
(* killed, until its file goes because the history is full: besides the     *)
(* current file, limit - 1 rotated files that are not older must remain.    *)
Disposable(f) ==
  /\ f.id > 0
  /\ Cardinality({g \in Rotated \ {f} : g.id <= f.id}) >= limit - 1

LosesOnlyOldest ==
  [][\A f \in DOMAIN disk :
        disk[f].entries \subseteq Entries' \/ Disposable(f)]_vars

(* README.md:179: the file with number 1 was rotated last, the one with the *)
(* highest number is the oldest.  An interrupted rotation leaves gaps in    *)
(* the numbers but never breaks their order.                                *)
NewerHasSmallerId ==
  \A f, g \in {h \in DOMAIN disk : h.base = "own"} :
    f.id < g.id =>
      \A a \in disk[f].entries, b \in disk[g].entries : a > b

(* README.md:92: the number of rotated files to keep.  A rotation that gets *)
(* through leaves no more than that, whatever it found.                     *)
HistoryBounded == pc = "opening" => Cardinality(Rotated) <= limit

(* main.go:115: any non-negative number of historical files is accepted.    *)
NeverPanics == pc # "panicked"

(* log.go:155: Close closes the writer and its file.                        *)
ClosedMeansClosed == closed => handle # "open"
=============================================================================
