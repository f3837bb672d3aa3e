------------------------- MODULE LogRotationProofs -------------------------
(***************************************************************************)
(* Proofs about LogRotation, for every limit, every set of leftover files, *)
(* and any number of failures, kills and restarts.                         *)
(***************************************************************************)
EXTENDS LogRotation, FiniteSetTheorems, TLAPS

Files == [base : Bases, id : Nat]

-----------------------------------------------------------------------------
(* Names of files. *)
LEMMA SameName ==
  ASSUME NEW f \in Files, NEW g \in Files, f.base = g.base, f.id = g.id
  PROVE  f = g
BY DEF Files

LEMMA NameIsFile ==
  ASSUME NEW b \in Bases, NEW i \in Nat
  PROVE  Name(b, i) \in Files /\ Name(b, i).base = b /\ Name(b, i).id = i
BY DEF Name, Files

-----------------------------------------------------------------------------
(***************************************************************************)
(* The inductive invariant.                                                *)
(*                                                                         *)
(* While files are deleted, those to keep are one less than the limit, and *)
(* none of them is older.  Files are renumbered from the highest number    *)
(* down, so that the renumbered ones keep clear of those still to come.    *)
(***************************************************************************)
Busy == {"closing", "scanning", "moving", "opening", "appending"}

EntriesKnown ==
  /\ written \in 0..MaxWritten /\ (pc \in Busy => written < MaxWritten)
  /\ \A f \in DOMAIN disk : disk[f].entries \subseteq 1..written

LatestThere ==
  /\ Latest \in DOMAIN disk \/ pc \in {"opening", "down"} \/ handle = "nil"
  /\ pc = "opening" => Latest \notin DOMAIN disk
  /\ handle = "nil" => pc \in {"idle", "down"}

NoRotation == pc # "moving" => doomed = {} /\ shifting = {}

Renumbered == Rotated \ (doomed \cup shifting)

CutDone ==
  /\ doomed \cap shifting = {}
  /\ limit > 0
  /\ Cardinality(Rotated \ doomed) <= limit - 1
  /\ doomed # {} => /\ shifting = Rotated \ doomed
                    /\ Cardinality(shifting) = limit - 1
                    /\ \A f \in doomed, g \in shifting : g.id <= f.id

KeepsClear ==
  \A g \in Renumbered :
    /\ g.id >= 2
    /\ \A f \in shifting : f.base = g.base => f.id + 2 <= g.id

LogInv ==
  /\ TypeOK
  /\ IsFiniteSet(DOMAIN disk)
  /\ EntriesKnown
  /\ LatestThere
  /\ NoRotation
  /\ pc = "moving" => CutDone /\ KeepsClear
  /\ NewerHasSmallerId
  /\ HistoryBounded

Content == [entries : SUBSET (1..MaxWritten), size : Nat]

LEMMA Constants ==
  /\ MaxWritten \in Nat /\ MaxEntry \in Nat \ {0} /\ MaxFaults \in Nat
  /\ Left \in Nat /\ 2 * Left <= MaxWritten
  /\ Limits \subseteq Nat
BY LogAssumption

LEMMA LatestIsFile == Latest \in Files /\ Latest.base = "own" /\ Latest.id = 0
BY NameIsFile DEF Latest, Bases

(* The leftovers are finitely many. *)
LEMMA LeftoverNamesFinite == IsFiniteSet([base : Bases, id : 1..Left])
<1>. DEFINE T == [base : Bases, id : 1..Left]
            F == [k \in 1..(2 * Left) |->
                    IF k <= Left THEN Name("own", k) ELSE Name("other", k - Left)]
<1>1. Left \in Nat
  BY Constants
<1>2. ASSUME NEW k \in 1..(2 * Left) PROVE F[k] \in T
  BY <1>1, <1>2 DEF Name, Bases
<1>3. ASSUME NEW t \in T PROVE \E k \in 1..(2 * Left) : F[k] = t
  <2>1. CASE t.base = "own"
    <3>1. t.id \in 1..(2 * Left) /\ t.id <= Left /\ F[t.id] = Name("own", t.id)
      BY <1>1
    <3>2. Name("own", t.id) = t
      BY <2>1 DEF Name
    <3>. QED BY <3>1, <3>2
  <2>2. CASE t.base = "other"
    <3>. DEFINE k == t.id + Left
    <3>1. k \in 1..(2 * Left) /\ ~(k <= Left) /\ k - Left = t.id
      BY <1>1
    <3>2. F[k] = Name("other", t.id)
      BY <3>1
    <3>3. Name("other", t.id) = t
      BY <2>2 DEF Name
    <3>. QED BY <3>1, <3>2, <3>3
  <2>. QED BY <2>1, <2>2 DEF Bases
<1>4. F \in Surjection(1..(2 * Left), T)
  BY <1>2, <1>3 DEF Surjection
<1>5. IsFiniteSet(1..(2 * Left))
  BY <1>1, FS_Interval
<1>. QED BY <1>4, <1>5, FS_Surjection

LEMMA InitLogInv == Init => LogInv
<1>. SUFFICES ASSUME Init PROVE LogInv
  OBVIOUS
<1>1. PICK S \in SUBSET [base : Bases, id : 1..Left] :
        disk = With([f \in S |-> Leftover(f)], Latest, Empty)
  BY DEF Init
<1>. DEFINE L == [f \in S |-> Leftover(f)]
<1>2. Left \in Nat /\ MaxWritten \in Nat /\ 2 * Left <= MaxWritten
  BY Constants
<1>3. S \subseteq Files /\ \A f \in S : f.id \in 1..Left
  BY <1>2 DEF Files
<1>4. /\ DOMAIN disk = S \cup {Latest} /\ disk[Latest] = Empty
      /\ \A f \in S : f # Latest /\ disk[f] = Leftover(f)
  <2>1. \A f \in S : f # Latest
    BY <1>3, LatestIsFile
  <2>2. DOMAIN L = S /\ \A f \in S : L[f] = Leftover(f)
    OBVIOUS
  <2>. HIDE DEF L
  <2>. QED BY <1>1, <2>1, <2>2 DEF L, With
<1>5. ASSUME NEW f \in S
      PROVE  /\ disk[f].entries \subseteq 1..(2 * Left) /\ disk[f].size = 1
             /\ f.base = "own" => disk[f].entries = {Left + 1 - f.id}
  <2>1. disk[f] = Leftover(f) /\ f.id \in 1..Left
    BY <1>3, <1>4
  <2>. QED BY <1>2, <2>1 DEF Leftover
<1>6. disk[Latest].entries = {} /\ disk[Latest].size = 0
  BY <1>4 DEF Empty
<1>7. \A f \in DOMAIN disk : f \in Files /\ disk[f] \in Content
  <2>1. disk[Latest] \in Content
    BY <1>4 DEF Empty, Content
  <2>2. ASSUME NEW f \in S PROVE disk[f] \in Content
    <3>1. disk[f] = Leftover(f) /\ f.id \in 1..Left
      BY <1>3, <1>4
    <3>2. (IF f.base = "own" THEN Left ELSE 2 * Left) + 1 - f.id \in 1..MaxWritten
      BY <1>2, <3>1
    <3>. QED BY <3>1, <3>2 DEF Leftover, Content
  <2>. QED BY <1>3, <1>4, <2>1, <2>2, LatestIsFile
<1>8. TypeOK
  <2>1. \A f \in DOMAIN disk :
          /\ f \in [base : Bases, id : Nat]
          /\ disk[f] \in [entries : SUBSET (1..MaxWritten), size : Nat]
    BY <1>7 DEF Files, Content
  <2>2. /\ handle \in {"open", "closed", "nil"} /\ closed \in BOOLEAN
        /\ pc = "idle" /\ closer \in {"idle", "closing", "done"}
        /\ limit \in Limits /\ doomed = {} /\ shifting = {}
    BY DEF Init
  <2>3. pending \in 0..MaxEntry /\ faults \in 0..MaxFaults
    BY Constants DEF Init
  <2>4. written \in 0..MaxWritten
    BY <1>2 DEF Init
  <2>. QED BY <2>1, <2>2, <2>3, <2>4 DEF TypeOK
<1>9. IsFiniteSet(DOMAIN disk)
  BY <1>4, LeftoverNamesFinite, FS_Subset, FS_AddElement
<1>10. EntriesKnown
  BY <1>2, <1>4, <1>5, <1>6 DEF Init, EntriesKnown, Busy
<1>11. NewerHasSmallerId
  <2>. SUFFICES ASSUME NEW f \in DOMAIN disk, NEW g \in DOMAIN disk,
                       f.base = "own", g.base = "own", f.id < g.id,
                       NEW a \in disk[f].entries, NEW b \in disk[g].entries
                PROVE  a > b
    BY DEF NewerHasSmallerId
  <2>1. f \in S /\ g \in S
    BY <1>4, <1>6
  <2>2. a = Left + 1 - f.id /\ b = Left + 1 - g.id
    BY <1>5, <2>1
  <2>. QED BY <1>2, <1>3, <2>1, <2>2
<1>. QED BY <1>4, <1>8, <1>9, <1>10, <1>11
         DEF Init, LogInv, LatestThere, NoRotation, HistoryBounded, Busy
-----------------------------------------------------------------------------
(***************************************************************************)
(* The invariant holds, one lemma for the steps that leave the directory   *)
(* alone and one for each of the others.                                   *)
(***************************************************************************)
(* Such a step keeps what is said of the directory; the rest is a matter of *)
(* where Write is.                                                          *)
LEMMA SameDisk ==
  ASSUME LogInv, TypeOK', UNCHANGED <<disk, written>>,
         pc' \in Busy => written < MaxWritten,
         handle' = handle \/ handle' = "closed" \/ handle' = "nil",
         handle' = "nil" => pc' \in {"idle", "down"},
         pc' = "opening" => pc = "opening" /\ limit' = limit,
         pc = "opening" => pc' = "opening" \/ pc' = "down" \/ handle' = "nil",
         pc = "down" => pc' = "down" \/ Latest \in DOMAIN disk,
         handle = "nil" => handle' = "nil",
         NoRotation',
         pc' = "moving" => CutDone' /\ KeepsClear'
  PROVE  LogInv'
<1>1. IsFiniteSet(DOMAIN disk)' /\ NewerHasSmallerId'
  BY DEF LogInv, NewerHasSmallerId
<1>2. EntriesKnown'
  BY DEF LogInv, EntriesKnown
<1>3. LatestThere'
  BY DEF LogInv, LatestThere
<1>4. HistoryBounded'
  BY DEF LogInv, HistoryBounded, Rotated
<1>. QED BY <1>1, <1>2, <1>3, <1>4 DEF LogInv

LEMMA RotatedFinite ==
  ASSUME LogInv
  PROVE  /\ IsFiniteSet(Rotated) /\ Cardinality(Rotated) \in Nat
         /\ Rotated \subseteq Files /\ Rotated \subseteq DOMAIN disk
         /\ \A f \in Rotated : f.id \in Nat \ {0}
<1>1. Rotated \in SUBSET (DOMAIN disk)
  BY DEF Rotated
<1>2. IsFiniteSet(Rotated)
  BY <1>1, FS_Subset DEF LogInv
<1>3. \A f \in DOMAIN disk : f \in Files
  BY DEF LogInv, TypeOK, Files
<1>. QED BY <1>1, <1>2, <1>3, FS_CardinalityType DEF Rotated, Files

LEMMA DiskTypes ==
  ASSUME LogInv
  PROVE  \A f \in DOMAIN disk : f \in Files /\ disk[f] \in Content
BY DEF LogInv, TypeOK, Files, Content

(***************************************************************************)
(* The steps that leave the directory alone.                               *)
(***************************************************************************)
LEMMA WriteInv == ASSUME LogInv, NEW n \in 1..MaxEntry, Write(n) PROVE LogInv'
<1>1. TypeOK'
  BY Constants DEF Write, LogInv, TypeOK, fileVars, Rotated
<1>2. NoRotation'
  BY DEF Write, LogInv, NoRotation
<1>. QED BY <1>1, <1>2, SameDisk DEF Write, fileVars, Busy, LogInv

LEMMA CloseOldInv == ASSUME LogInv, CloseOld PROVE LogInv'
<1>1. TypeOK'
  BY DEF CloseOld, LogInv, TypeOK, rotationVars, Rotated
<1>2. NoRotation'
  BY DEF CloseOld, LogInv, NoRotation, rotationVars
<1>3. written < MaxWritten /\ handle # "nil"
  BY DEF CloseOld, LogInv, EntriesKnown, LatestThere, Busy
<1>. QED BY <1>1, <1>2, <1>3, SameDisk DEF CloseOld

LEMMA ScanInv == ASSUME LogInv, Scan PROVE LogInv'
<1>1. /\ UNCHANGED <<disk, handle, closed, pending, limit, written, closer, faults>>
      /\ Rotated' = Rotated
  BY DEF Scan, fileVars, Rotated
<1>2. written < MaxWritten /\ handle # "nil"
  BY DEF Scan, LogInv, EntriesKnown, LatestThere, Busy
<1>3. CASE pc' = "panicked"
  <2>1. doomed' = {} /\ shifting' = {}
    BY <1>3 DEF Scan, LogInv, NoRotation
  <2>2. TypeOK' /\ NoRotation'
    BY <1>1, <1>3, <2>1 DEF LogInv, TypeOK, NoRotation
  <2>. QED BY <1>1, <1>2, <1>3, <2>2, SameDisk DEF Busy, Scan
<1>4. CASE pc' # "panicked"
  <2>. DEFINE n == Cardinality(Rotated)
  <2>1. n \in Nat /\ limit \in Nat /\ IsFiniteSet(Rotated)
    BY RotatedFinite, Constants DEF LogInv, TypeOK
  <2>2. PICK D \in SUBSET Rotated :
          /\ Cardinality(D) = IF n >= limit THEN Overflow(n) ELSE 0
          /\ \A f \in D, g \in Rotated \ D : g.id <= f.id
          /\ doomed' = D
          /\ shifting' = Kept(D)
    BY <1>4 DEF Scan
  <2>3. pc' = "moving" /\ ~(n >= limit /\ Overflow(n) > n)
    BY <1>4 DEF Scan
  <2>4. shifting' = Rotated \ D
    BY <2>2 DEF Kept
  <2>5. IsFiniteSet(D) /\ Cardinality(Rotated \ D) = n - Cardinality(D)
    <3>1. Rotated \cap D = D
      OBVIOUS
    <3>2. IsFiniteSet(D)
      BY <2>1, FS_Subset
    <3>3. Cardinality(Rotated \ D)
            = Cardinality(Rotated) - Cardinality(Rotated \cap D)
      BY <2>1, FS_Difference
    <3>. QED BY <3>1, <3>2, <3>3
  <2>6. limit > 0 /\ Cardinality(Rotated \ D) <= limit - 1
        /\ (n >= limit => Cardinality(Rotated \ D) = limit - 1)
    <3>. HIDE DEF n
    <3>. QED BY <2>1, <2>2, <2>3, <2>5 DEF Overflow
  <2>7. D # {} => n >= limit
    BY <2>2, <2>5, FS_EmptySet
  <2>8. CutDone'
    BY <1>1, <2>2, <2>4, <2>6, <2>7 DEF CutDone
  <2>9. KeepsClear'
    BY <1>1, <2>2, <2>4 DEF KeepsClear, Renumbered
  <2>10. TypeOK'
    BY <1>1, <2>2, <2>3, <2>4 DEF LogInv, TypeOK
  <2>11. NoRotation'
    BY <2>3 DEF NoRotation
  <2>. QED BY <1>1, <1>2, <2>3, <2>8, <2>9, <2>10, <2>11, SameDisk DEF Scan
<1>. QED BY <1>3, <1>4

LEMMA FailInv == ASSUME LogInv, Fail PROVE LogInv'
<1>1. TypeOK'
  <2>1. doomed' = {} /\ shifting' = {} /\ faults' \in 0..MaxFaults
    BY Constants DEF Fail, LogInv, TypeOK
  <2>. QED BY <2>1 DEF Fail, LogInv, TypeOK, Rotated
<1>2. NoRotation'
  BY DEF Fail, NoRotation
<1>3. handle # "nil"
  BY DEF Fail, LogInv, LatestThere
<1>. QED BY <1>1, <1>2, <1>3, SameDisk DEF Fail, Busy

LEMMA CloseFileInv == ASSUME LogInv, CloseFile PROVE LogInv'
<1>1. UNCHANGED <<disk, pc, doomed, shifting, limit, written>>
      /\ handle' \in {handle, "closed"} /\ (handle = "nil" => handle' = "nil")
  BY DEF CloseFile, rotationVars
<1>2. TypeOK' /\ NoRotation'
  BY <1>1 DEF CloseFile, LogInv, TypeOK, NoRotation, Rotated, rotationVars
<1>3. pc = "moving" => CutDone' /\ KeepsClear'
  BY <1>1 DEF LogInv, CutDone, KeepsClear, Renumbered, Rotated
<1>. QED BY <1>1, <1>2, <1>3, SameDisk
         DEF LogInv, EntriesKnown, LatestThere, Busy, CloseFile

LEMMA SetClosedInv == ASSUME LogInv, SetClosed PROVE LogInv'
<1>1. UNCHANGED <<disk, handle, pc, doomed, shifting, limit, written>>
  BY DEF SetClosed, fileVars, rotationVars
<1>2. TypeOK' /\ NoRotation'
  BY <1>1 DEF SetClosed, LogInv, TypeOK, NoRotation, Rotated, rotationVars
<1>3. pc = "moving" => CutDone' /\ KeepsClear'
  BY <1>1 DEF LogInv, CutDone, KeepsClear, Renumbered, Rotated
<1>. QED BY <1>1, <1>2, <1>3, SameDisk
         DEF LogInv, EntriesKnown, LatestThere, Busy, SetClosed

LEMMA CrashInv == ASSUME LogInv, Crash PROVE LogInv'
<1>1. /\ UNCHANGED <<disk, handle, written>> /\ pc' = "down"
      /\ doomed' = {} /\ shifting' = {}
  BY DEF Crash, fileVars
<1>2. TypeOK'
  <2>1. faults' \in 0..MaxFaults
    BY Constants DEF Crash, LogInv, TypeOK
  <2>. QED BY <1>1, <2>1 DEF Crash, LogInv, TypeOK, Rotated, fileVars
<1>3. NoRotation'
  BY <1>1 DEF NoRotation
<1>. QED BY <1>1, <1>2, <1>3, SameDisk DEF Busy

LEMMA StutterInv == ASSUME LogInv, UNCHANGED vars PROVE LogInv'
<1>1. UNCHANGED <<disk, handle, closed, pc, pending, doomed, shifting, limit,
                  written, closer, faults>>
  BY DEF vars, fileVars, rotationVars
<1>. QED BY <1>1 DEF LogInv, TypeOK, EntriesKnown, LatestThere, NoRotation,
                 CutDone, KeepsClear, Renumbered, Rotated, NewerHasSmallerId,
                 HistoryBounded
-----------------------------------------------------------------------------
(***************************************************************************)
(* The steps that change the directory: first what each does to the files, *)
(* then why the invariant holds.                                           *)
(***************************************************************************)
Moved(f, g) ==
  /\ f \in DOMAIN disk /\ g \notin DOMAIN disk
  /\ DOMAIN disk' = (DOMAIN disk \ {f}) \cup {g}
  /\ disk'[g] = disk[f]
  /\ \A h \in DOMAIN disk \ {f} : disk'[h] = disk[h]

LEMMA RenamedMoves ==
  ASSUME NEW f \in DOMAIN disk, NEW g, g \notin DOMAIN disk,
         disk' = Renamed(disk, f, g)
  PROVE  Moved(f, g)
BY DEF Moved, Renamed, With, Without, Restrict

LEMMA DeleteRemoves ==
  ASSUME LogInv, DeleteOne
  PROVE  \E f \in doomed :
           /\ f \in DOMAIN disk
           /\ DOMAIN disk' = DOMAIN disk \ {f}
           /\ \A h \in DOMAIN disk \ {f} : disk'[h] = disk[h]
           /\ doomed' = doomed \ {f}
<1>1. PICK f \in doomed : disk' = Without(disk, f) /\ doomed' = doomed \ {f}
  BY DEF DeleteOne
<1>2. f \in DOMAIN disk
  BY RotatedFinite DEF LogInv, TypeOK
<1>. QED BY <1>1, <1>2 DEF Without, Restrict

(* No file is in the way of the next one to be renumbered.                  *)
LEMMA ShiftMoves ==
  ASSUME LogInv, ShiftOne
  PROVE  \E f \in shifting, g \in Files :
           /\ g.base = f.base /\ g.id = f.id + 1 /\ f \in Files
           /\ \A h \in shifting : f.id >= h.id
           /\ Moved(f, g)
           /\ shifting' = shifting \ {f}
<1>0. CutDone /\ KeepsClear /\ shifting \subseteq Rotated /\ doomed = {}
  BY DEF ShiftOne, LogInv, TypeOK
<1>1. PICK f \in shifting :
        /\ LastToShift(f)
        /\ disk' = Renamed(disk, f, Name(f.base, f.id + 1))
        /\ shifting' = shifting \ {f}
  BY DEF ShiftOne
<1>2. f \in Files /\ f.id \in Nat \ {0} /\ f.base \in Bases /\ f \in DOMAIN disk
  BY <1>0, RotatedFinite DEF Files
<1>. DEFINE g == Name(f.base, f.id + 1)
<1>3. g \in Files /\ g.base = f.base /\ g.id = f.id + 1
  BY <1>2, NameIsFile
<1>. HIDE DEF g
<1>4. g \notin DOMAIN disk
  <2>. SUFFICES ASSUME g \in DOMAIN disk PROVE FALSE
    OBVIOUS
  <2>1. g \in Rotated
    BY <1>2, <1>3 DEF Rotated
  <2>2. CASE g \in shifting
    BY <1>1, <1>2, <1>3, <2>2 DEF LastToShift
  <2>3. CASE g \notin shifting
    <3>1. g \in Renumbered
      BY <1>0, <2>1, <2>3 DEF Renumbered
    <3>2. f.id + 2 <= g.id
      BY <1>0, <1>3, <3>1 DEF KeepsClear
    <3>. QED BY <1>2, <1>3, <3>2
  <2>. QED BY <2>2, <2>3
<1>5. Moved(f, g)
  BY <1>1, <1>2, <1>4, RenamedMoves DEF g
<1>. QED BY <1>1, <1>2, <1>3, <1>5 DEF LastToShift

(* All rotated files have been renumbered: the number 1 is free.            *)
LEMMA LatestMoves ==
  ASSUME LogInv, MoveLatest
  PROVE  Moved(Latest, RotatedName)
<1>0. CutDone /\ KeepsClear /\ doomed = {} /\ shifting = {}
  BY DEF MoveLatest, LogInv
<1>1. Latest \in DOMAIN disk
  BY DEF MoveLatest, LogInv, LatestThere
<1>2. RotatedName.id = 1
  BY NameIsFile DEF RotatedName, Bases
<1>3. RotatedName \notin DOMAIN disk
  <2>. SUFFICES ASSUME RotatedName \in DOMAIN disk PROVE FALSE
    OBVIOUS
  <2>1. RotatedName \in Renumbered
    BY <1>0, <1>2 DEF Renumbered, Rotated
  <2>. QED BY <1>0, <1>2, <2>1 DEF KeepsClear
<1>. QED BY <1>1, <1>3, RenamedMoves DEF MoveLatest

(* A new current file.                                                      *)
NewLatest ==
  /\ Latest \notin DOMAIN disk
  /\ DOMAIN disk' = DOMAIN disk \cup {Latest}
  /\ disk'[Latest] = Empty
  /\ \A h \in DOMAIN disk : disk'[h] = disk[h]

LEMMA ReopenMakes == ASSUME LogInv, Reopen PROVE NewLatest
<1>1. Latest \notin DOMAIN disk
  BY DEF Reopen, LogInv, LatestThere
<1>. QED BY <1>1 DEF Reopen, NewLatest, With

LEMMA RestartMakes ==
  ASSUME LogInv, Restart
  PROVE  NewLatest \/ (disk' = disk /\ Latest \in DOMAIN disk)
<1>1. CASE Latest \in DOMAIN disk
  BY <1>1 DEF Restart
<1>2. CASE Latest \notin DOMAIN disk
  <2>1. disk' = With(disk, Latest, Empty)
    BY <1>2 DEF Restart
  <2>. QED BY <1>2, <2>1 DEF NewLatest, With
<1>. QED BY <1>1, <1>2

LEMMA AppendGrows ==
  ASSUME LogInv, Append
  PROVE  \/ disk' = disk /\ written' = written
         \/ /\ written' = written + 1
            /\ DOMAIN disk' = DOMAIN disk
            /\ disk'[Latest] =
                 [entries |-> disk[Latest].entries \cup {written + 1},
                  size |-> disk[Latest].size + pending]
            /\ \A h \in DOMAIN disk \ {Latest} : disk'[h] = disk[h]
<1>1. Latest \in DOMAIN disk
  BY DEF Append, LogInv, LatestThere
<1>. QED BY <1>1 DEF Append, With

-----------------------------------------------------------------------------
(* A file that moves keeps its content; the types follow.                   *)
LEMMA MovedFacts ==
  ASSUME LogInv, NEW f, NEW g \in Files, Moved(f, g), written' = written
  PROVE  /\ IsFiniteSet(DOMAIN disk')
         /\ \A h \in DOMAIN disk' : h \in Files /\ disk'[h] \in Content
         /\ \A h \in DOMAIN disk' : disk'[h].entries \subseteq 1..written
<1>1. IsFiniteSet((DOMAIN disk \ {f}) \cup {g})
  BY FS_RemoveElement, FS_AddElement DEF LogInv
<1>2. \A h \in DOMAIN disk' :
        (h = g /\ disk'[h] = disk[f]) \/ (h \in DOMAIN disk /\ disk'[h] = disk[h])
  BY DEF Moved
<1>. QED BY <1>1, <1>2, DiskTypes DEF Moved, LogInv, EntriesKnown

LEMMA DeleteOneInv == ASSUME LogInv, DeleteOne PROVE LogInv'
<1>1. PICK f \in doomed :
        /\ f \in DOMAIN disk
        /\ DOMAIN disk' = DOMAIN disk \ {f}
        /\ \A h \in DOMAIN disk \ {f} : disk'[h] = disk[h]
        /\ doomed' = doomed \ {f}
  BY DeleteRemoves
<1>2. /\ UNCHANGED <<handle, closed, pc, pending, shifting, limit, written,
                    closer, faults>>
      /\ pc = "moving" /\ CutDone /\ KeepsClear
  BY DEF DeleteOne, LogInv
<1>3. /\ doomed \subseteq Rotated /\ shifting \subseteq Rotated
      /\ doomed \cap shifting = {} /\ f.id > 0
  BY <1>2 DEF LogInv, TypeOK, CutDone, Rotated
<1>4. Rotated' = Rotated \ {f} /\ Rotated' \ doomed' = Rotated \ doomed
  <2>1. Rotated' = Rotated \ {f}
    BY <1>1 DEF Rotated
  <2>. QED BY <1>1, <2>1
<1>5. Renumbered' = Renumbered
  BY <1>1, <1>2, <1>4 DEF Renumbered
<1>6. TypeOK'
  <2>1. \A h \in DOMAIN disk' : h \in Files /\ disk'[h] \in Content
    BY <1>1, DiskTypes
  <2>2. doomed' \subseteq Rotated' /\ shifting' \subseteq Rotated'
    BY <1>1, <1>2, <1>3, <1>4
  <2>. QED BY <1>2, <2>1, <2>2 DEF LogInv, TypeOK, Files, Content
<1>7. IsFiniteSet(DOMAIN disk')
  BY <1>1, FS_RemoveElement DEF LogInv
<1>8. EntriesKnown' /\ NewerHasSmallerId'
  BY <1>1, <1>2 DEF LogInv, EntriesKnown, NewerHasSmallerId
<1>9. LatestThere'
  <2>1. f # Latest
    BY <1>3, LatestIsFile
  <2>. QED BY <1>1, <1>2, <2>1 DEF LogInv, LatestThere
<1>10. CutDone' /\ KeepsClear'
  BY <1>1, <1>2, <1>4, <1>5 DEF CutDone, KeepsClear
<1>. QED BY <1>2, <1>6, <1>7, <1>8, <1>9, <1>10
         DEF LogInv, NoRotation, HistoryBounded

LEMMA ShiftOneInv == ASSUME LogInv, ShiftOne PROVE LogInv'
<1>1. PICK f \in shifting, g \in Files :
        /\ g.base = f.base /\ g.id = f.id + 1 /\ f \in Files
        /\ \A h \in shifting : f.id >= h.id
        /\ Moved(f, g)
        /\ shifting' = shifting \ {f}
  BY ShiftMoves
<1>2. /\ UNCHANGED <<handle, closed, pc, pending, doomed, limit, written,
                    closer, faults>>
      /\ pc = "moving" /\ doomed = {} /\ CutDone /\ KeepsClear
  BY DEF ShiftOne, LogInv
<1>3. /\ shifting \subseteq Rotated /\ f \in Rotated
      /\ f.id \in Nat \ {0} /\ g.id \in Nat \ {0, 1} /\ g \notin Rotated
  BY <1>1, RotatedFinite DEF LogInv, TypeOK, Rotated, Moved
<1>4. Rotated' = (Rotated \ {f}) \cup {g}
  BY <1>1, <1>3 DEF Rotated, Moved
<1>5. /\ IsFiniteSet(DOMAIN disk')
      /\ \A h \in DOMAIN disk' : h \in Files /\ disk'[h] \in Content
      /\ \A h \in DOMAIN disk' : disk'[h].entries \subseteq 1..written
  BY <1>1, <1>2, MovedFacts
<1>6. TypeOK'
  <2>1. doomed' \subseteq Rotated' /\ shifting' \subseteq Rotated'
    BY <1>1, <1>2, <1>3, <1>4
  <2>. QED BY <1>2, <1>5, <2>1 DEF LogInv, TypeOK, Files, Content
<1>7. EntriesKnown'
  BY <1>2, <1>5 DEF LogInv, EntriesKnown
<1>8. LatestThere'
  <2>1. f # Latest
    BY <1>3, LatestIsFile
  <2>. QED BY <1>1, <1>2, <2>1 DEF LogInv, LatestThere, Moved
<1>9. CutDone'
  <2>1. Cardinality((Rotated \ {f}) \cup {g}) = Cardinality(Rotated)
    <3>1. /\ IsFiniteSet(Rotated \ {f})
          /\ Cardinality(Rotated \ {f}) = Cardinality(Rotated) - 1
      BY <1>3, RotatedFinite, FS_RemoveElement
    <3>2. Cardinality((Rotated \ {f}) \cup {g}) = Cardinality(Rotated \ {f}) + 1
      BY <1>3, <3>1, FS_AddElement
    <3>. QED BY <3>1, <3>2, RotatedFinite
  <2>2. Rotated \ {} = Rotated /\ Rotated' \ {} = Rotated'
    OBVIOUS
  <2>. QED BY <1>1, <1>2, <1>4, <2>1, <2>2 DEF CutDone
<1>10. KeepsClear'
  <2>1. Renumbered' \subseteq Renumbered \cup {g}
    BY <1>1, <1>2, <1>4 DEF Renumbered
  <2>2. ASSUME NEW h \in shifting', h.base = g.base PROVE h.id + 2 <= g.id
    <3>1. h \in shifting /\ h # f /\ h \in Files /\ h.id \in Nat
      BY <1>1, <1>3, <2>2, RotatedFinite
    <3>2. h.id # f.id /\ h.id <= f.id
      BY <1>1, <2>2, <3>1, SameName
    <3>. QED BY <1>1, <1>3, <3>1, <3>2
  <2>3. g.id >= 2
    BY <1>3
  <2>4. \A k \in Renumbered :
          k.id >= 2 /\ \A h \in shifting : h.base = k.base => h.id + 2 <= k.id
    BY <1>2 DEF KeepsClear
  <2>. QED BY <1>1, <2>1, <2>2, <2>3, <2>4 DEF KeepsClear
<1>11. NewerHasSmallerId'
  <2>. SUFFICES ASSUME NEW h \in DOMAIN disk', NEW k \in DOMAIN disk',
                       h.base = "own", k.base = "own", h.id < k.id,
                       NEW a \in disk'[h].entries, NEW b \in disk'[k].entries
                PROVE  a > b
    BY DEF NewerHasSmallerId
  <2>1. h \in Files /\ k \in Files /\ h.id \in Nat /\ k.id \in Nat
    BY <1>5 DEF Files
  <2>2. CASE h # g /\ k # g
    <3>1. h \in DOMAIN disk /\ k \in DOMAIN disk
          /\ disk'[h] = disk[h] /\ disk'[k] = disk[k]
      BY <1>1, <2>2 DEF Moved
    <3>. QED BY <3>1 DEF LogInv, NewerHasSmallerId
  <2>3. CASE h = g
    <3>1. k # g /\ k \in DOMAIN disk /\ disk'[k] = disk[k] /\ disk'[h] = disk[f]
      BY <1>1, <2>1, <2>3 DEF Moved
    <3>2. f.id < k.id /\ f \in DOMAIN disk /\ f.base = "own"
      BY <1>1, <1>3, <2>1, <2>3 DEF Moved
    <3>. QED BY <3>1, <3>2 DEF LogInv, NewerHasSmallerId
  <2>4. CASE k = g
    <3>1. /\ h # g /\ h # f /\ h \in DOMAIN disk /\ disk'[h] = disk[h]
          /\ disk'[k] = disk[f]
      BY <1>1, <2>1, <2>4 DEF Moved
    <3>2. f \in DOMAIN disk /\ f.base = "own" /\ h.id # f.id
      BY <1>1, <2>1, <2>4, <3>1, SameName DEF Moved
    <3>3. h.id < f.id
      BY <1>1, <1>3, <2>1, <2>4, <3>2
    <3>. QED BY <3>1, <3>2, <3>3 DEF LogInv, NewerHasSmallerId
  <2>. QED BY <2>2, <2>3, <2>4
<1>. QED BY <1>2, <1>5, <1>6, <1>7, <1>8, <1>9, <1>10, <1>11
         DEF LogInv, NoRotation, HistoryBounded

LEMMA MoveLatestInv == ASSUME LogInv, MoveLatest PROVE LogInv'
<1>1. Moved(Latest, RotatedName)
  BY LatestMoves
<1>2. /\ UNCHANGED <<handle, closed, pending, doomed, shifting, limit, written,
                    closer, faults>>
      /\ pc = "moving" /\ pc' = "opening" /\ doomed = {} /\ shifting = {}
      /\ CutDone /\ KeepsClear
  BY DEF MoveLatest, LogInv, rotationVars
<1>. DEFINE g == RotatedName
<1>3. g \in Files /\ g.base = "own" /\ g.id = 1
  BY NameIsFile DEF RotatedName, Bases
<1>. HIDE DEF g
<1>4. Rotated' = Rotated \cup {g} /\ g \notin Rotated
  BY <1>1, <1>3, LatestIsFile DEF Rotated, Moved, g
<1>5. /\ IsFiniteSet(DOMAIN disk')
      /\ \A h \in DOMAIN disk' : h \in Files /\ disk'[h] \in Content
      /\ \A h \in DOMAIN disk' : disk'[h].entries \subseteq 1..written
  BY <1>1, <1>2, <1>3, MovedFacts DEF g
<1>6. TypeOK'
  BY <1>2, <1>5 DEF LogInv, TypeOK, Files, Content
<1>7. EntriesKnown'
  BY <1>2, <1>5 DEF LogInv, EntriesKnown, Busy
<1>8. LatestThere'
  <2>1. Latest \notin DOMAIN disk'
    BY <1>1, <1>3, LatestIsFile DEF Moved, g
  <2>. QED BY <1>2, <2>1 DEF LogInv, LatestThere
<1>9. HistoryBounded'
  <2>1. Cardinality(Rotated \cup {g}) = Cardinality(Rotated) + 1
    BY <1>4, RotatedFinite, FS_AddElement
  <2>2. Rotated \ {} = Rotated
    OBVIOUS
  <2>3. Cardinality(Rotated) <= limit - 1 /\ limit \in Nat
    BY <1>2, <2>2, Constants DEF CutDone, LogInv, TypeOK
  <2>. QED BY <1>2, <1>4, <2>1, <2>3, RotatedFinite DEF HistoryBounded
<1>10. NewerHasSmallerId'
  <2>. SUFFICES ASSUME NEW h \in DOMAIN disk', NEW k \in DOMAIN disk',
                       h.base = "own", k.base = "own", h.id < k.id,
                       NEW a \in disk'[h].entries, NEW b \in disk'[k].entries
                PROVE  a > b
    BY DEF NewerHasSmallerId
  <2>1. h \in Files /\ k \in Files /\ h.id \in Nat /\ k.id \in Nat
    BY <1>5 DEF Files
  <2>2. /\ k # g \/ h # g
        /\ \A x \in DOMAIN disk' \ {g} :
             x \in DOMAIN disk /\ x # Latest /\ disk'[x] = disk[x]
        /\ disk'[g] = disk[Latest] /\ Latest \in DOMAIN disk
    BY <1>1, <1>3, <2>1, LatestIsFile DEF Moved, g
  <2>3. CASE h # g /\ k # g
    BY <2>2, <2>3 DEF LogInv, NewerHasSmallerId
  <2>4. CASE h = g
    BY <1>3, <2>1, <2>2, <2>4, LatestIsFile DEF LogInv, NewerHasSmallerId
  <2>5. CASE k = g
    <3>1. h = Latest
      BY <1>3, <2>1, <2>5, LatestIsFile, SameName
    <3>. QED BY <1>3, <2>1, <2>2, <2>5, <3>1
  <2>. QED BY <2>3, <2>4, <2>5
<1>. QED BY <1>2, <1>5, <1>6, <1>7, <1>8, <1>9, <1>10 DEF LogInv, NoRotation

(* A new current file has no entries.                                       *)
LEMMA NewLatestFacts ==
  ASSUME LogInv, NewLatest
  PROVE  /\ IsFiniteSet(DOMAIN disk')
         /\ \A h \in DOMAIN disk' : h \in Files /\ disk'[h] \in Content
         /\ \A h \in DOMAIN disk' : disk'[h].entries \subseteq 1..written
         /\ NewerHasSmallerId'
         /\ Rotated' = Rotated
<1>1. Empty \in Content /\ Empty.entries = {}
  BY DEF Empty, Content
<1>2. Rotated' = Rotated
  BY LatestIsFile DEF NewLatest, Rotated
<1>3. NewerHasSmallerId'
  BY <1>1 DEF NewLatest, LogInv, NewerHasSmallerId
<1>. QED BY <1>1, <1>2, <1>3, DiskTypes, LatestIsFile, FS_AddElement
         DEF NewLatest, LogInv, EntriesKnown

LEMMA ReopenInv == ASSUME LogInv, Reopen PROVE LogInv'
<1>1. NewLatest
  BY ReopenMakes
<1>2. /\ UNCHANGED <<closed, pending, doomed, shifting, limit, written,
                    closer, faults>>
      /\ pc = "opening" /\ pc' = "appending" /\ handle' = "open"
      /\ doomed = {} /\ shifting = {}
  BY DEF Reopen, rotationVars, LogInv, NoRotation
<1>3. TypeOK'
  BY <1>1, <1>2, NewLatestFacts DEF LogInv, TypeOK, Files, Content
<1>4. EntriesKnown' /\ LatestThere'
  BY <1>1, <1>2, NewLatestFacts
     DEF LogInv, EntriesKnown, LatestThere, Busy, NewLatest
<1>. QED BY <1>1, <1>2, <1>3, <1>4, NewLatestFacts
         DEF LogInv, NoRotation, HistoryBounded

LEMMA RestartInv == ASSUME LogInv, Restart PROVE LogInv'
<1>1. NewLatest \/ (disk' = disk /\ Latest \in DOMAIN disk)
  BY RestartMakes
<1>2. /\ UNCHANGED <<pending, doomed, shifting, written, faults>>
      /\ pc = "down" /\ pc' = "idle" /\ handle' = "open" /\ closed' = FALSE
      /\ closer' = "idle" /\ limit' \in Limits
      /\ doomed = {} /\ shifting = {}
  BY DEF Restart, rotationVars, LogInv, NoRotation
<1>3. /\ IsFiniteSet(DOMAIN disk')
      /\ \A h \in DOMAIN disk' : h \in Files /\ disk'[h] \in Content
      /\ \A h \in DOMAIN disk' : disk'[h].entries \subseteq 1..written
      /\ NewerHasSmallerId'
      /\ Latest \in DOMAIN disk'
  <2>1. CASE NewLatest
    BY <2>1, NewLatestFacts DEF NewLatest
  <2>2. CASE disk' = disk /\ Latest \in DOMAIN disk
    BY <2>2, DiskTypes DEF LogInv, EntriesKnown, NewerHasSmallerId
  <2>. QED BY <1>1, <2>1, <2>2
<1>4. TypeOK'
  BY <1>2, <1>3 DEF LogInv, TypeOK, Files, Content
<1>5. EntriesKnown' /\ LatestThere'
  BY <1>2, <1>3 DEF LogInv, EntriesKnown, LatestThere, Busy
<1>. QED BY <1>2, <1>3, <1>4, <1>5 DEF LogInv, NoRotation, HistoryBounded

LEMMA AppendInv == ASSUME LogInv, Append PROVE LogInv'
<1>1. /\ UNCHANGED <<handle, closed, pending, doomed, shifting, limit, closer,
                    faults>>
      /\ pc = "appending" /\ pc' = "idle"
      /\ doomed = {} /\ shifting = {}
  BY DEF Append, rotationVars, LogInv, NoRotation
<1>2. /\ written \in Nat /\ written + 1 \in 1..MaxWritten
      /\ pending \in Nat /\ Latest \in DOMAIN disk /\ handle # "nil"
  BY <1>1, Constants DEF LogInv, EntriesKnown, LatestThere, TypeOK, Busy
<1>3. CASE disk' = disk /\ written' = written
  <2>1. TypeOK' /\ NoRotation'
    BY <1>1, <1>3 DEF LogInv, TypeOK, NoRotation, Rotated
  <2>. QED BY <1>1, <1>2, <1>3, <2>1, SameDisk DEF Busy
<1>4. ASSUME /\ written' = written + 1
             /\ DOMAIN disk' = DOMAIN disk
             /\ disk'[Latest] =
                  [entries |-> disk[Latest].entries \cup {written + 1},
                   size |-> disk[Latest].size + pending]
             /\ \A h \in DOMAIN disk \ {Latest} : disk'[h] = disk[h]
      PROVE  LogInv'
  <2>1. /\ disk[Latest] \in Content
        /\ disk'[Latest].entries = disk[Latest].entries \cup {written + 1}
    BY <1>2, <1>4, DiskTypes
  <2>2. disk'[Latest] \in Content
    BY <1>2, <1>4, <2>1 DEF Content
  <2>3. Rotated' = Rotated
    BY <1>4 DEF Rotated
  <2>4. TypeOK'
    <3>1. \A h \in DOMAIN disk' : h \in Files /\ disk'[h] \in Content
      BY <1>4, <2>2, DiskTypes
    <3>. QED BY <1>1, <1>2, <1>4, <2>3, <3>1 DEF LogInv, TypeOK, Files, Content
  <2>5. \A h \in DOMAIN disk : disk[h].entries \subseteq 1..written
    BY DEF LogInv, EntriesKnown
  <2>6. EntriesKnown'
    <3>1. \A h \in DOMAIN disk' : disk'[h].entries \subseteq 1..(written + 1)
      BY <1>2, <1>4, <2>1, <2>5
    <3>. QED BY <1>1, <1>2, <1>4, <3>1 DEF EntriesKnown, Busy
  <2>7. NewerHasSmallerId'
    <3>. SUFFICES ASSUME NEW h \in DOMAIN disk', NEW k \in DOMAIN disk',
                         h.base = "own", k.base = "own", h.id < k.id,
                         NEW a \in disk'[h].entries, NEW b \in disk'[k].entries
                  PROVE  a > b
      BY DEF NewerHasSmallerId
    <3>1. k # Latest /\ disk'[k] = disk[k] /\ h \in DOMAIN disk
          /\ k \in DOMAIN disk
      <4>1. h.id \in Nat
        BY <1>4, DiskTypes DEF Files
      <4>. QED BY <1>4, <4>1, LatestIsFile
    <3>2. CASE a \in disk[h].entries
      BY <3>1, <3>2 DEF LogInv, NewerHasSmallerId
    <3>3. CASE a \notin disk[h].entries
      <4>1. a = written + 1
        BY <1>4, <2>1, <3>1, <3>3
      <4>. QED BY <1>2, <2>5, <3>1, <4>1
    <3>. QED BY <3>2, <3>3
  <2>. QED BY <1>1, <1>2, <1>4, <2>3, <2>4, <2>6, <2>7
           DEF LogInv, LatestThere, NoRotation, HistoryBounded
<1>. QED BY <1>3, <1>4, AppendGrows

LEMMA NextLogInv == LogInv /\ [Next]_vars => LogInv'
BY WriteInv, CloseOldInv, ScanInv, DeleteOneInv, ShiftOneInv, MoveLatestInv,
   ReopenInv, AppendInv, FailInv, CloseFileInv, SetClosedInv, CrashInv,
   RestartInv, StutterInv DEF Next

-----------------------------------------------------------------------------
(***************************************************************************)
(* What is lost.                                                           *)
(***************************************************************************)
LEMMA Survives ==
  ASSUME NEW f \in DOMAIN disk, NEW g \in DOMAIN disk',
         disk[f].entries \subseteq disk'[g].entries
  PROVE  disk[f].entries \subseteq Entries'
BY DEF Entries

Safe(f) == disk[f].entries \subseteq Entries' \/ Disposable(f)

LEMMA SameDiskSafe ==
  ASSUME disk' = disk
  PROVE  \A f \in DOMAIN disk : Safe(f)
BY Survives DEF Safe

LEMMA MovedSafe ==
  ASSUME NEW e, NEW g, Moved(e, g)
  PROVE  \A f \in DOMAIN disk : Safe(f)
<1>. SUFFICES ASSUME NEW f \in DOMAIN disk PROVE Safe(f)
  OBVIOUS
<1>1. CASE f = e
  <2>1. g \in DOMAIN disk' /\ disk[f].entries \subseteq disk'[g].entries
    BY <1>1 DEF Moved
  <2>. QED BY <2>1, Survives DEF Safe
<1>2. CASE f # e
  <2>1. f \in DOMAIN disk' /\ disk[f].entries \subseteq disk'[f].entries
    BY <1>2 DEF Moved
  <2>. QED BY <2>1, Survives DEF Safe
<1>. QED BY <1>1, <1>2

LEMMA NewLatestSafe ==
  ASSUME NewLatest
  PROVE  \A f \in DOMAIN disk : Safe(f)
BY Survives DEF Safe, NewLatest

(* What is deleted is no younger than any of the limit - 1 files that stay. *)
LEMMA DeleteSafe ==
  ASSUME LogInv, DeleteOne
  PROVE  \A f \in DOMAIN disk : Safe(f)
<1>1. PICK e \in doomed :
        /\ e \in DOMAIN disk
        /\ DOMAIN disk' = DOMAIN disk \ {e}
        /\ \A h \in DOMAIN disk \ {e} : disk'[h] = disk[h]
        /\ doomed' = doomed \ {e}
  BY DeleteRemoves
<1>2. /\ shifting = Rotated \ doomed /\ Cardinality(shifting) = limit - 1
      /\ \A g \in shifting : g.id <= e.id
      /\ e \in Rotated
  BY <1>1 DEF DeleteOne, LogInv, TypeOK, CutDone
<1>3. Disposable(e)
  <2>. DEFINE K == {g \in Rotated \ {e} : g.id <= e.id}
  <2>1. IsFiniteSet(K)
    BY RotatedFinite, FS_Subset
  <2>2. shifting \in SUBSET K
    BY <1>1, <1>2
  <2>3. Cardinality(shifting) <= Cardinality(K)
    BY <2>1, <2>2, FS_Subset
  <2>. QED BY <1>2, <2>3, RotatedFinite DEF Disposable, Rotated
<1>4. ASSUME NEW f \in DOMAIN disk, f # e PROVE Safe(f)
  <2>1. f \in DOMAIN disk' /\ disk[f].entries \subseteq disk'[f].entries
    BY <1>1, <1>4
  <2>. QED BY <2>1, Survives DEF Safe
<1>. QED BY <1>3, <1>4 DEF Safe

LEMMA AppendSafe ==
  ASSUME LogInv, Append
  PROVE  \A f \in DOMAIN disk : Safe(f)
<1>1. CASE disk' = disk
  BY <1>1, SameDiskSafe
<1>2. CASE disk' # disk
  <2>1. \A f \in DOMAIN disk :
          f \in DOMAIN disk' /\ disk[f].entries \subseteq disk'[f].entries
    BY <1>2, AppendGrows
  <2>. QED BY <2>1, Survives DEF Safe
<1>. QED BY <1>1, <1>2

LEMMA NextSafe ==
  ASSUME LogInv, [Next]_vars
  PROVE  \A f \in DOMAIN disk : Safe(f)
<1>1. CASE \/ \E n \in 1..MaxEntry : Write(n)
           \/ CloseOld \/ Scan \/ Fail \/ CloseFile \/ SetClosed \/ Crash
           \/ UNCHANGED vars
  BY <1>1, SameDiskSafe
     DEF Write, CloseOld, Scan, Fail, CloseFile, SetClosed, Crash, vars,
         fileVars
<1>2. CASE DeleteOne
  BY <1>2, DeleteSafe
<1>3. CASE ShiftOne
  BY <1>3, ShiftMoves, MovedSafe
<1>4. CASE MoveLatest
  BY <1>4, LatestMoves, MovedSafe
<1>5. CASE Reopen
  BY <1>5, ReopenMakes, NewLatestSafe
<1>6. CASE Restart
  BY <1>6, RestartMakes, NewLatestSafe, SameDiskSafe
<1>7. CASE Append
  BY <1>7, AppendSafe
<1>. QED BY <1>1, <1>2, <1>3, <1>4, <1>5, <1>6, <1>7 DEF Next

-----------------------------------------------------------------------------
(* Every reachable state of the log and its writer satisfies the inductive *)
(* invariant (utils/log.go).                                               *)
THEOREM LogInvariant == Spec => []LogInv
BY InitLogInv, NextLogInv, PTL DEF Spec

(* Type correctness of the log writer and of its directory.                *)
THEOREM LogTypeCorrect == Spec => []TypeOK
<1>1. LogInv => TypeOK
  BY DEF LogInv
<1>. QED BY <1>1, LogInvariant, PTL

(* Of two files of this log the one with the higher number has the older   *)
(* entries, whatever rotations were cut short and at whichever call        *)
(* (utils/log.go:103-113 renumbers from the highest number down).          *)
THEOREM NewerAlwaysSmaller == Spec => []NewerHasSmallerId
<1>1. LogInv => NewerHasSmallerId
  BY DEF LogInv
<1>. QED BY <1>1, LogInvariant, PTL

(* A rotation that gets through leaves no more rotated files than the limit *)
(* of the moment, whatever it found (utils/log.go:89-104).                 *)
THEOREM HistoryAlwaysBounded == Spec => []HistoryBounded
<1>1. LogInv => HistoryBounded
  BY DEF LogInv
<1>. QED BY <1>1, LogInvariant, PTL

(* No rename or creation ever overwrites a file, and a deletion takes only *)
(* a file to which limit - 1 are left that are not older: no other entry   *)
(* is ever lost, whatever fails and wherever the process is killed.        *)
THEOREM OnlyOldestEverLost == Spec => LosesOnlyOldest
<1>1. LogInv /\ [Next]_vars =>
        [\A f \in DOMAIN disk :
           disk[f].entries \subseteq Entries' \/ Disposable(f)]_vars
  BY NextSafe DEF Safe
<1>. QED BY <1>1, LogInvariant, PTL DEF Spec, LosesOnlyOldest
=============================================================================
