-------------------------- MODULE FileCacheProofs --------------------------
(***************************************************************************)
(* Proofs about FileCache, for any users, sizes, contents and faults.  An  *)
(* entry's pins count the goroutines that work on the file, so whoever     *)
(* unpins it and finds no other pin is the last one: FileInv says so.      *)
(*                                                                         *)
(* The bytes come second.  No call writes a slot twice, and two positions  *)
(* in one slot are a whole file apart (SlotsDiffer), so an append harms no *)
(* byte that is retained; and a part it does not load it overwrites in     *)
(* every slot (CompleteIsOverwritten), so nothing it lays over the         *)
(* database hides a byte (AppendReads).                                    *)
(***************************************************************************)
EXTENDS FileCache, FiniteSetTheorems, WellFoundedInduction, TLAPS

Active == {u \in Goroutines : user[u].at # "idle"}

IsEntry(rec) ==
    /\ rec = [field \in DOMAIN rec |-> rec[field]]
    /\ DOMAIN rec = {"pins", "file", "size", "parts", "errors"}

UsersInv ==
    /\ cacheKey \in Entries \cup {0}
    /\ user \in [Goroutines -> [at : {"idle", "pinned", "worked"}, entry : Entries \cup {0}]]
    /\ IsFiniteSet(Active)

EntriesInv ==
    /\ entry = [e \in Entries |-> entry[e]]
    /\ \A e \in Entries : IsEntry(entry[e])
    /\ \A e \in Entries : e # cacheKey => entry[e] = EmptyEntry

PinsInv ==
    IF cacheKey = 0 THEN Active = {} ELSE entry[cacheKey].pins = Cardinality(Active)

FileInv == UsersInv /\ EntriesInv /\ PinsInv /\ OneEntry

-----------------------------------------------------------------------------
(* An empty cache with nobody at it.                                       *)
LEMMA FileInvInit ==
    ASSUME FileInit
    PROVE  FileInv
  <1>1. Active = {}
    BY DEF FileInit, Active, NotThere
  <1>2. IsFiniteSet(Active)
    BY <1>1, FS_EmptySet
  <1>3. UsersInv
    BY <1>2 DEF FileInit, UsersInv, NotThere
  <1>4. EntriesInv
    BY DEF FileInit, EntriesInv, IsEntry, EmptyEntry
  <1> QED
    BY <1>1, <1>3, <1>4 DEF FileInit, FileInv, PinsInv, OneEntry, NotThere

(* Pinning: the file's entry, or a free one that becomes the file's.       *)
LEMMA PinKeeps ==
    ASSUME FileInv, NEW u \in Goroutines, PinEntry(u)
    PROVE  FileInv'
  <1> DEFINE e == IF cacheKey # 0 THEN cacheKey
                  ELSE CHOOSE f \in Entries : entry[f] = EmptyEntry
  <1>1. /\ cacheKey \in Entries \cup {0}
        /\ user \in [Goroutines -> [at : {"idle", "pinned", "worked"}, entry : Entries \cup {0}]]
        /\ IsFiniteSet(Active)
        /\ entry = [f \in Entries |-> entry[f]]
        /\ \A f \in Entries : IsEntry(entry[f])
        /\ \A f \in Entries : f # cacheKey => entry[f] = EmptyEntry
        /\ PinsInv /\ OneEntry
    BY DEF FileInv, UsersInv, EntriesInv
  <1>2. e \in Entries
    <2>1. CASE cacheKey # 0
      BY <1>1, <2>1
    <2>2. CASE cacheKey = 0
      <3>1. 1 \in Entries /\ entry[1] = EmptyEntry
        BY <1>1, <2>2 DEF Entries
      <3> QED
        BY <2>2, <3>1
    <2> QED
      BY <2>1, <2>2
  <1>3. entry[e].pins = Cardinality(Active)
    <2>1. CASE cacheKey # 0
      BY <1>1, <2>1 DEF PinsInv
    <2>2. CASE cacheKey = 0
      <3>1. entry[e] = EmptyEntry /\ Active = {}
        BY <1>1, <1>2, <2>2 DEF PinsInv, Entries
      <3> QED
        BY <3>1, FS_EmptySet DEF EmptyEntry
    <2> QED
      BY <2>1, <2>2
  <1>4. /\ user[u].at = "idle"
        /\ cacheKey' = e
        /\ entry' = [entry EXCEPT ![e].pins = @ + 1]
        /\ user' = [user EXCEPT ![u] = [at |-> "pinned", entry |-> e]]
    BY DEF PinEntry
  <1> HIDE DEF e
  <1>5. Active' = Active \cup {u} /\ u \notin Active
    BY <1>1, <1>4 DEF Active
  <1>6. IsFiniteSet(Active') /\ Cardinality(Active') = Cardinality(Active) + 1
    BY <1>1, <1>5, FS_AddElement
  <1>7. UsersInv'
    BY <1>1, <1>2, <1>4, <1>6 DEF UsersInv
  <1>8. entry'[e].pins = Cardinality(Active')
    BY <1>1, <1>2, <1>3, <1>4, <1>6 DEF IsEntry
  <1>9. EntriesInv'
    <2>1. entry' = [f \in Entries |-> entry'[f]]
      BY <1>1, <1>4
    <2>2. \A f \in Entries : IsEntry(entry'[f])
      BY <1>1, <1>2, <1>4 DEF IsEntry
    <2>3. \A f \in Entries : f # e => entry'[f] = entry[f]
      BY <1>1, <1>4
    <2>4. \A f \in Entries : f # e => f # cacheKey
      BY DEF e, Entries
    <2>5. \A f \in Entries : f # e => entry'[f] = EmptyEntry
      BY <1>1, <2>3, <2>4
    <2> QED
      BY <1>4, <2>1, <2>2, <2>5 DEF EntriesInv
  <1>10. PinsInv'
    BY <1>2, <1>4, <1>8 DEF PinsInv, Entries
  <1>11. OneEntry'
    <2>1. ASSUME NEW v \in Goroutines, v # u, user[v].at # "idle"
          PROVE  user[v].entry = e
      <3>1. v \in Active
        BY <2>1 DEF Active
      <3>2. cacheKey # 0
        BY <1>1, <3>1 DEF PinsInv
      <3> QED
        BY <1>1, <2>1, <3>2 DEF OneEntry, e
    <2> QED
      BY <1>1, <1>4, <2>1 DEF OneEntry
  <1> QED
    BY <1>7, <1>9, <1>10, <1>11 DEF FileInv

(* Unpinning: who takes the last pin off an entry with nothing to flush    *)
(* drops it, and is the only one there.                                    *)
LEMMA UnpinKeeps ==
    ASSUME FileInv, NEW u \in Goroutines, UnpinEntryAndTryDelete(u)
    PROVE  FileInv'
  <1>1. /\ cacheKey \in Entries \cup {0}
        /\ user \in [Goroutines -> [at : {"idle", "pinned", "worked"}, entry : Entries \cup {0}]]
        /\ IsFiniteSet(Active)
        /\ entry = [f \in Entries |-> entry[f]]
        /\ \A f \in Entries : IsEntry(entry[f])
        /\ \A f \in Entries : f # cacheKey => entry[f] = EmptyEntry
        /\ PinsInv /\ OneEntry
    BY DEF FileInv, UsersInv, EntriesInv
  <1>2. u \in Active /\ user' = [user EXCEPT ![u] = NotThere]
    BY DEF UnpinEntryAndTryDelete, Active
  <1>3. cacheKey \in Entries /\ cacheKey # 0 /\ entry[cacheKey].pins = Cardinality(Active)
    BY <1>1, <1>2 DEF PinsInv
  <1>4. Active' = Active \ {u}
    BY <1>1, <1>2 DEF Active, NotThere
  <1>5. IsFiniteSet(Active') /\ Cardinality(Active') = Cardinality(Active) - 1
    BY <1>1, <1>2, <1>4, FS_RemoveElement
  <1>6. OneEntry' \/ cacheKey' = 0
    BY <1>1, <1>2 DEF OneEntry, UnpinEntryAndTryDelete, NotThere
  <1>7. CASE TryDelete(cacheKey)
    <2>1. cacheKey' = 0 /\ entry' = [entry EXCEPT ![cacheKey] = EmptyEntry]
      BY <1>3, <1>7 DEF UnpinEntryAndTryDelete
    <2>2. Cardinality(Active') \in Nat /\ Cardinality(Active) \in Nat
      BY <1>1, <1>5, FS_CardinalityType
    <2>3. Cardinality(Active') = 0
      BY <1>3, <1>5, <1>7, <2>2 DEF TryDelete
    <2>4. Active' = {}
      BY <1>5, <2>3, FS_EmptySet
    <2>5. UsersInv'
      BY <1>1, <1>2, <1>5, <2>1 DEF UsersInv, NotThere
    <2>6. EntriesInv'
      BY <1>1, <1>3, <2>1 DEF EntriesInv, IsEntry, EmptyEntry
    <2>7. PinsInv' /\ OneEntry'
      BY <1>1, <1>2, <2>1, <2>4 DEF PinsInv, OneEntry, Active
    <2> QED
      BY <2>5, <2>6, <2>7 DEF FileInv
  <1>8. CASE ~TryDelete(cacheKey)
    <2>1. cacheKey' = cacheKey /\ entry' = [entry EXCEPT ![cacheKey].pins = @ - 1]
      BY <1>3, <1>8 DEF UnpinEntryAndTryDelete
    <2>2. UsersInv'
      BY <1>1, <1>2, <1>5, <2>1 DEF UsersInv, NotThere
    <2>3. EntriesInv'
      BY <1>1, <1>3, <2>1 DEF EntriesInv, IsEntry
    <2>4. PinsInv'
      BY <1>1, <1>3, <1>5, <2>1 DEF PinsInv, IsEntry
    <2>5. OneEntry'
      BY <1>1, <1>2, <2>1 DEF OneEntry, NotThere
    <2> QED
      BY <2>2, <2>3, <2>4, <2>5 DEF FileInv
  <1> QED
    BY <1>7, <1>8

(* What the operations make of an entry.                                   *)
LEMMA EntriesMade ==
    ASSUME NEW rec, IsEntry(rec)
    PROVE  /\ IsEntry(Cleared(rec)) /\ Cleared(rec).pins = rec.pins
           /\ \A size : LET new == [rec EXCEPT !.file = TRUE, !.size = size]
                        IN  IsEntry(new) /\ new.pins = rec.pins
           /\ LET new == [rec EXCEPT !.errors = @ + 1]
              IN  IsEntry(new) /\ new.pins = rec.pins
  <1>1. IsEntry(EmptyEntry)
    BY DEF IsEntry, EmptyEntry
  <1>2. IsEntry(Cleared(rec)) /\ Cleared(rec).pins = rec.pins
    BY <1>1 DEF IsEntry, Cleared
  <1>3. ASSUME NEW size
        PROVE  LET new == [rec EXCEPT !.file = TRUE, !.size = size]
               IN  IsEntry(new) /\ new.pins = rec.pins
    BY DEF IsEntry
  <1>4. LET new == [rec EXCEPT !.errors = @ + 1]
        IN  IsEntry(new) /\ new.pins = rec.pins
    BY DEF IsEntry
  <1> QED
    BY <1>2, <1>3, <1>4

(* And what a write makes of it.                                           *)
LEMMA EntryWritten ==
    ASSUME NEW rec, IsEntry(rec), NEW size, NEW parts
    PROVE  LET new == [rec EXCEPT !.file = TRUE, !.size = size, !.parts = parts]
           IN  IsEntry(new) /\ new.pins = rec.pins
  BY DEF IsEntry

(* Work on a pinned entry: it may change, but for its pins.                *)
LEMMA WorkKeeps ==
    ASSUME FileInv, NEW u \in Goroutines, Pinned(u), Worked(u), UNCHANGED cacheKey,
           NEW rec, IsEntry(rec), rec.pins = Mine(u).pins, SetMine(u, rec)
    PROVE  FileInv'
  <1>1. /\ cacheKey \in Entries \cup {0}
        /\ user \in [Goroutines -> [at : {"idle", "pinned", "worked"}, entry : Entries \cup {0}]]
        /\ IsFiniteSet(Active)
        /\ entry = [f \in Entries |-> entry[f]]
        /\ \A f \in Entries : IsEntry(entry[f])
        /\ \A f \in Entries : f # cacheKey => entry[f] = EmptyEntry
        /\ PinsInv /\ OneEntry
    BY DEF FileInv, UsersInv, EntriesInv
  <1>2. u \in Active /\ user' = [user EXCEPT ![u].at = "worked"]
    BY DEF Pinned, Worked, Active
  <1>3. cacheKey \in Entries /\ cacheKey # 0 /\ user[u].entry = cacheKey
    BY <1>1, <1>2 DEF PinsInv, OneEntry, Active
  <1>4. entry' = [entry EXCEPT ![cacheKey] = rec] /\ rec.pins = entry[cacheKey].pins
    BY <1>3 DEF SetMine, Mine
  <1>5. Active' = Active
    BY <1>1, <1>2 DEF Active
  <1>6. UsersInv'
    BY <1>1, <1>2, <1>5 DEF UsersInv
  <1>7. EntriesInv'
    BY <1>1, <1>3, <1>4 DEF EntriesInv
  <1>8. PinsInv'
    BY <1>1, <1>3, <1>4, <1>5 DEF PinsInv
  <1>9. OneEntry'
    BY <1>1, <1>2 DEF OneEntry, Active
  <1> QED
    BY <1>6, <1>7, <1>8, <1>9 DEF FileInv

(* The entry of whoever has pinned it is an entry.                         *)
LEMMA MineIsEntry ==
    ASSUME FileInv, NEW u \in Goroutines, Pinned(u)
    PROVE  /\ IsEntry(Mine(u)) /\ IsEntry(Cleared(Mine(u)))
           /\ Cleared(Mine(u)).pins = Mine(u).pins
           /\ entry = [entry EXCEPT ![user[u].entry] = Mine(u)]
  <1>1. u \in Active
    BY DEF Pinned, Active
  <1>2. user[u].entry = cacheKey /\ cacheKey \in Entries
    BY <1>1 DEF FileInv, UsersInv, PinsInv, OneEntry, Active
  <1>3. IsEntry(Mine(u)) /\ entry = [f \in Entries |-> entry[f]]
    BY <1>2 DEF FileInv, EntriesInv, Mine
  <1>4. IsEntry(Cleared(Mine(u))) /\ Cleared(Mine(u)).pins = Mine(u).pins
    BY <1>3, EntriesMade
  <1>5. entry = [entry EXCEPT ![user[u].entry] = Mine(u)]
    BY <1>2, <1>3 DEF Mine
  <1> QED
    BY <1>3, <1>4, <1>5

(* A flush, by whom and of what ever: cleared, left, or one more error.    *)
LEMMA FlushKeeps ==
    ASSUME FileInv, NEW u \in Goroutines, Pinned(u), Worked(u), UNCHANGED cacheKey,
           NEW rec, IsEntry(rec), rec.pins = Mine(u).pins, NEW replace, NEW held,
           Flush(u, rec, replace, held)
    PROVE  FileInv'
  <1>1. IsEntry(Cleared(rec)) /\ Cleared(rec).pins = Mine(u).pins
    BY EntriesMade
  <1>2. CASE SetMine(u, Cleared(rec))
    BY <1>1, <1>2, WorkKeeps
  <1>3. CASE SetMine(u, [rec EXCEPT !.errors = @ + 1])
    <2>1. /\ IsEntry([rec EXCEPT !.errors = @ + 1])
          /\ [rec EXCEPT !.errors = @ + 1].pins = Mine(u).pins
      BY EntriesMade
    <2> QED
      BY <1>3, <2>1, WorkKeeps
  <1>4. CASE SetMine(u, rec)
    BY <1>4, WorkKeeps
  <1> QED
    BY <1>2, <1>3, <1>4 DEF Flush, FlushSucceeds, FlushFails, FlushCutShort

-----------------------------------------------------------------------------
(* Every operation of a user that has pinned the entry.                    *)
LEMMA OperationKeeps ==
    ASSUME FileInv, NEW u \in Goroutines,
           \/ MakeFile(u) \/ DeleteFile(u) \/ AppendData(u) \/ AppendFails(u)
           \/ WriteFile(u) \/ CompactIJson(u)
    PROVE  FileInv'
  <1>1. Pinned(u) /\ Worked(u) /\ UNCHANGED cacheKey
    BY DEF MakeFile, DeleteFile, AppendData, AppendFails, WriteFile, CompactIJson
  <1>2. /\ IsEntry(Mine(u)) /\ IsEntry(Cleared(Mine(u)))
        /\ Cleared(Mine(u)).pins = Mine(u).pins
        /\ entry = [entry EXCEPT ![user[u].entry] = Mine(u)]
    BY <1>1, MineIsEntry
  <1>3. CASE MakeFile(u)
    <2>1. SetMine(u, Mine(u))
      BY <1>2, <1>3 DEF MakeFile, SetMine
    <2> QED
      BY <1>1, <1>2, <2>1, WorkKeeps
  <1>4. CASE DeleteFile(u)
    <2>1. SetMine(u, Cleared(Mine(u)))
      BY <1>4 DEF DeleteFile
    <2> QED
      BY <1>1, <1>2, <2>1, WorkKeeps
  <1>5. ASSUME NEW size, NEW parts,
               SetMine(u, [Mine(u) EXCEPT !.file = TRUE, !.size = size, !.parts = parts])
        PROVE  FileInv'
    <2> DEFINE rec == [Mine(u) EXCEPT !.file = TRUE, !.size = size, !.parts = parts]
    <2>1. IsEntry(rec) /\ rec.pins = Mine(u).pins
      BY <1>2, EntryWritten
    <2>2. SetMine(u, rec)
      BY <1>5
    <2> HIDE DEF rec
    <2> QED
      BY <1>1, <2>1, <2>2, WorkKeeps
  <1>6. CASE AppendData(u)
    <2>1. \E size, parts :
             SetMine(u, [Mine(u) EXCEPT !.file = TRUE, !.size = size, !.parts = parts])
      BY <1>6, Zenon DEF AppendData
    <2> QED
      BY <1>5, <2>1
  <1>7. CASE AppendFails(u)
    <2> DEFINE rec == [Mine(u) EXCEPT !.file = TRUE, !.size = FileSize(Mine(u))]
    <2>1. SetMine(u, rec)
      BY <1>7 DEF AppendFails
    <2>2. IsEntry(rec) /\ rec.pins = Mine(u).pins
      BY <1>2, EntriesMade
    <2> HIDE DEF rec
    <2> QED
      BY <1>1, <2>1, <2>2, WorkKeeps
  <1>8. ASSUME NEW rec, NEW gen, NEW n, IsEntry(rec)
        PROVE  IsEntry(Rewritten(rec, gen, n)) /\ Rewritten(rec, gen, n).pins = rec.pins
    <2> DEFINE parts == WriteParts(<< >>, gen, 0, n)
    <2>1. Rewritten(rec, gen, n) = [rec EXCEPT !.file = TRUE, !.size = n, !.parts = parts]
      BY DEF Rewritten
    <2> HIDE DEF parts
    <2> DEFINE new == [rec EXCEPT !.file = TRUE, !.size = n, !.parts = parts]
    <2>2. IsEntry(new) /\ new.pins = rec.pins
      BY <1>8, EntryWritten
    <2> QED
      BY <2>1, <2>2
  <1>9. CASE WriteFile(u)
    <2>1. PICK n \in 0 .. MaxFileSize :
            LET held == [content EXCEPT !.gen = nContents + 1, !.size = n]
                rec == Rewritten(Mine(u), held.gen, n)
            IN  Flush(u, rec, TRUE, held)
      BY <1>9 DEF WriteFile
    <2> DEFINE held == [content EXCEPT !.gen = nContents + 1, !.size = n]
               rec == Rewritten(Mine(u), held.gen, n)
    <2>2. Flush(u, rec, TRUE, held)
      BY <2>1
    <2>3. IsEntry(rec) /\ rec.pins = Mine(u).pins
      BY <1>2, <1>8
    <2> HIDE DEF rec, held
    <2> QED
      BY <1>1, <2>2, <2>3, FlushKeeps
  <1>10. CASE CompactIJson(u)
    <2>1. PICK n \in 0 .. FileSize(Mine(u)) : SetMine(u, Rewritten(Mine(u), nContents + 1, n))
      BY <1>10 DEF CompactIJson
    <2>2. /\ IsEntry(Rewritten(Mine(u), nContents + 1, n))
          /\ Rewritten(Mine(u), nContents + 1, n).pins = Mine(u).pins
      BY <1>2, <1>8
    <2> QED
      BY <1>1, <2>1, <2>2, WorkKeeps
  <1> QED
    BY <1>3, <1>4, <1>6, <1>7, <1>9, <1>10

(* The flusher's operation.                                                *)
LEMMA FlushToDBKeeps ==
    ASSUME FileInv, FlushToDB
    PROVE  FileInv'
  <1>1. /\ Flusher \in Goroutines /\ Pinned(Flusher) /\ Worked(Flusher)
        /\ UNCHANGED cacheKey
    BY DEF FlushToDB, Goroutines
  <1>2. /\ IsEntry(Mine(Flusher))
        /\ entry = [entry EXCEPT ![user[Flusher].entry] = Mine(Flusher)]
    BY <1>1, MineIsEntry
  <1>3. CASE UNCHANGED entry
    <2>1. SetMine(Flusher, Mine(Flusher))
      BY <1>2, <1>3 DEF SetMine
    <2> QED
      BY <1>1, <1>2, <2>1, WorkKeeps
  <1>4. CASE Flush(Flusher, Mine(Flusher), FALSE, content)
    BY <1>1, <1>2, <1>4, FlushKeeps
  <1> QED
    BY <1>3, <1>4 DEF FlushToDB

(* Every step keeps the invariant.                                         *)
LEMMA FileInvNext ==
    ASSUME FileInv, [FileNext]_fileVars
    PROVE  FileInv'
  <1>1. CASE FlusherPins
    BY <1>1, PinKeeps DEF FlusherPins, Goroutines
  <1>2. CASE FlushToDB
    BY <1>2, FlushToDBKeeps
  <1>3. CASE FileCrash
    <2>1. /\ cacheKey' = 0 /\ entry' = [e \in Entries |-> EmptyEntry]
          /\ user' = [u \in Goroutines |-> NotThere]
      BY <1>3 DEF FileCrash
    <2>2. Active' = {}
      BY <2>1 DEF Active, NotThere
    <2>3. IsFiniteSet(Active')
      BY <2>2, FS_EmptySet
    <2>4. UsersInv'
      BY <2>1, <2>3 DEF UsersInv, NotThere
    <2>5. EntriesInv'
      BY <2>1 DEF EntriesInv, IsEntry, EmptyEntry
    <2> QED
      BY <2>1, <2>2, <2>4, <2>5 DEF FileInv, PinsInv, OneEntry, NotThere
  <1>4. ASSUME NEW u \in Goroutines, GetEntryAndPin(u)
        PROVE  FileInv'
    BY <1>4, PinKeeps DEF GetEntryAndPin
  <1>5. ASSUME NEW u \in Goroutines, UnpinEntryAndTryDelete(u)
        PROVE  FileInv'
    BY <1>5, UnpinKeeps
  <1>6. ASSUME NEW u \in Goroutines,
               \/ MakeFile(u) \/ DeleteFile(u) \/ AppendData(u) \/ AppendFails(u)
               \/ WriteFile(u) \/ CompactIJson(u)
        PROVE  FileInv'
    BY <1>6, OperationKeeps
  <1>7. CASE UNCHANGED fileVars
    BY <1>7 DEF fileVars, FileInv, UsersInv, EntriesInv, PinsInv, OneEntry, Active
  <1> QED
    BY <1>1, <1>2, <1>3, <1>4, <1>5, <1>6, <1>7 DEF FileNext

(* An entry's pins count those who work on the file, and no other entry    *)
(* holds anything: getEntryAndPin and unpinEntryAndTryDelete agree however *)
(* their callers interleave, fail and die.                                 *)
THEOREM PinsCountUsers == FileSpec => []FileInv
  <1>1. FileInit => FileInv
    BY FileInvInit
  <1> QED
    BY <1>1, FileInvNext, PTL DEF FileSpec

(* Nobody is left working on an entry the cache has dropped.               *)
THEOREM NobodyIsLeftBehind == FileSpec => []OneEntry
  <1>1. FileInv => OneEntry
    BY DEF FileInv
  <1> QED
    BY <1>1, PinsCountUsers, PTL

-----------------------------------------------------------------------------
(* Numbers.                                                                *)
LEMMA LeastNumber ==
    ASSUME NEW T \in SUBSET Nat, T # {}
    PROVE  \E x \in T : \A y \in T : x <= y
  <1>1. PICK x \in T : \A y \in T : ~(<<y, x>> \in OpToRel(<, Nat))
    BY NatLessThanWellFounded, WFMin
  <1>2. \A y \in T : ~(y < x)
    BY <1>1 DEF OpToRel
  <1> QED
    BY <1>2

(* The greatest of a nonempty, bounded set of numbers.                     *)
LEMMA MaxIsGreatest ==
    ASSUME NEW T \in SUBSET Nat, T # {}, NEW b \in Nat, \A x \in T : x <= b
    PROVE  Max(T) \in T /\ \A y \in T : y <= Max(T)
  <1> DEFINE U == {b - x : x \in T}
  <1>1. U \in SUBSET Nat /\ U # {}
    OBVIOUS
  <1> HIDE DEF U
  <1>2. PICK u \in U : \A v \in U : u <= v
    BY <1>1, LeastNumber
  <1>3. PICK x \in T : u = b - x
    BY DEF U
  <1>4. ASSUME NEW y \in T PROVE x >= y
    <2>1. b - y \in U
      BY DEF U
    <2>2. b - x <= b - y
      BY <1>2, <1>3, <2>1
    <2> QED
      BY <2>2
  <1>5. \E z \in T : \A y \in T : z >= y
    BY <1>4
  <1>6. Max(T) \in T /\ \A y \in T : Max(T) >= y
    BY <1>5 DEF Max
  <1> QED
    BY <1>6

-----------------------------------------------------------------------------
(* Positions and slots.                                                    *)
LEMMA Division ==
    ASSUME NEW a \in Nat, NEW b \in Nat \ {0}
    PROVE  a = (b * (a \div b)) + (a % b) /\ a % b \in 0 .. b - 1 /\ a \div b \in Nat
  OBVIOUS

LEMMA DivisionOf ==
    ASSUME NEW a \in Nat, NEW b \in Nat \ {0}, NEW r \in 0 .. b - 1
    PROVE  ((b * a) + r) \div b = a /\ ((b * a) + r) % b = r
  OBVIOUS

LEMMA Multiples ==
    ASSUME NEW a \in Nat, NEW c \in Nat, NEW b \in Nat \ {0}
    PROVE  /\ a < c => (b * a) + b <= b * c
           /\ b * a = a * b /\ b * a \in Nat
           /\ b * (a + c) = (b * a) + (b * c)
  OBVIOUS

SameSlot(p, q) ==
    PartIdxAtOffset(p) = PartIdxAtOffset(q) /\ p % PartSize = q % PartSize

(* Two positions share a slot only in a circular file, a whole file apart. *)
LEMMA SlotsDiffer ==
    ASSUME NEW p \in Nat, NEW q \in Nat, p < q, SameSlot(p, q)
    PROVE  db.circular /\ p + MaxParts * PartSize <= q
  <1> DEFINE a == p \div PartSize
             b == q \div PartSize
             r == p % PartSize
             c == a \div MaxParts
             d == b \div MaxParts
  <1>0. PartSize \in Nat \ {0} /\ MaxParts \in Nat \ {0}
    BY FileCacheAssumption
  <1>1. /\ p = (PartSize * a) + r /\ q = (PartSize * b) + r
        /\ a \in Nat /\ b \in Nat /\ r \in Nat
    <2>1. p = (PartSize * (p \div PartSize)) + (p % PartSize)
          /\ p \div PartSize \in Nat /\ p % PartSize \in 0 .. PartSize - 1
      BY <1>0, Division
    <2>2. q = (PartSize * (q \div PartSize)) + (q % PartSize)
          /\ q \div PartSize \in Nat /\ q % PartSize \in 0 .. PartSize - 1
      BY <1>0, Division
    <2>3. p % PartSize = q % PartSize
      BY DEF SameSlot
    <2> QED
      BY <1>0, <2>1, <2>2, <2>3
  <1> HIDE DEF a, b, r
  <1>2. /\ a = (MaxParts * c) + (a % MaxParts) /\ b = (MaxParts * d) + (b % MaxParts)
        /\ c \in Nat /\ d \in Nat /\ a % MaxParts \in Nat /\ b % MaxParts \in Nat
    <2>1. a = (MaxParts * c) + (a % MaxParts) /\ a % MaxParts \in 0 .. MaxParts - 1 /\ c \in Nat
      BY <1>0, <1>1, Division
    <2>2. b = (MaxParts * d) + (b % MaxParts) /\ b % MaxParts \in 0 .. MaxParts - 1 /\ d \in Nat
      BY <1>0, <1>1, Division
    <2> QED
      BY <1>0, <2>1, <2>2
  <1>3. (db.circular /\ a % MaxParts = b % MaxParts) \/ a = b
    BY DEF SameSlot, PartIdxAtOffset, a, b
  <1> DEFINE s == a % MaxParts
             t == b % MaxParts
  <1> HIDE DEF c, d, s, t
  <1>4. a < b
    BY <1>0, <1>1, Multiples
  <1>5. db.circular /\ s = t
    BY <1>3, <1>4, <1>1 DEF s, t
  <1>6. a = (MaxParts * c) + s /\ b = (MaxParts * d) + s /\ s \in Nat
    BY <1>2, <1>5 DEF s, t
  <1>7. c < d
    BY <1>0, <1>2, <1>4, <1>6, Multiples
  <1>8. a + MaxParts <= b
    <2>1. (MaxParts * c) + MaxParts <= MaxParts * d
      BY <1>0, <1>2, <1>7, Multiples
    <2>2. MaxParts * c \in Nat /\ MaxParts * d \in Nat
      BY <1>0, <1>2, Multiples
    <2> QED
      BY <1>0, <1>6, <2>1, <2>2
  <1>9. (PartSize * a) + (PartSize * MaxParts) <= PartSize * b
    <2>1. PartSize * (a + MaxParts) = (PartSize * a) + (PartSize * MaxParts)
      BY <1>0, <1>1, Multiples
    <2>2. PartSize * (a + MaxParts) <= PartSize * b
      BY <1>0, <1>1, <1>8, Multiples
    <2> QED
      BY <2>1, <2>2
  <1> QED
    BY <1>0, <1>1, <1>5, <1>9, Multiples

(* All positions of a block are in the part of its first.                  *)
LEMMA BlockOfPosition ==
    ASSUME NEW q \in Nat
    PROVE  /\ PartIdxAtOffset((q \div PartSize) * PartSize) = PartIdxAtOffset(q)
           /\ q \div PartSize \in Nat /\ (q \div PartSize) * PartSize <= q
           /\ q < ((q \div PartSize) + 1) * PartSize
           /\ PartIdxAtOffset(q) \in Nat /\ q % PartSize \in 0 .. PartSize - 1
  <1>0. PartSize \in Nat \ {0} /\ MaxParts \in Nat \ {0}
    BY FileCacheAssumption
  <1> DEFINE a == q \div PartSize
             r == q % PartSize
  <1>1. q = (PartSize * a) + r /\ a \in Nat /\ r \in 0 .. PartSize - 1
    BY <1>0, Division
  <1>2. ((PartSize * a) + 0) \div PartSize = a
    BY <1>0, <1>1, DivisionOf
  <1>3. PartSize * a = a * PartSize /\ PartSize * a \in Nat
        /\ (a + 1) * PartSize = (PartSize * a) + PartSize
    BY <1>0, <1>1
  <1>4. (a * PartSize) \div PartSize = a
    BY <1>2, <1>3
  <1>5. a % MaxParts \in Nat
    BY <1>0, <1>1, Division
  <1> HIDE DEF r
  <1>6. PartIdxAtOffset(a * PartSize) = PartIdxAtOffset(q) /\ PartIdxAtOffset(q) \in Nat
    BY <1>1, <1>4, <1>5 DEF PartIdxAtOffset
  <1> HIDE DEF a
  <1> QED
    BY <1>0, <1>1, <1>3, <1>6 DEF a, r

-----------------------------------------------------------------------------
(* The parts of WriteParts by name: where it writes, which parts that      *)
(* touches, and what becomes of one.                                       *)
FirstOf(off, n) ==
    IF db.circular /\ n > MaxParts * PartSize THEN off + n - MaxParts * PartSize ELSE off

WrittenTo(off, n) == FirstOf(off, n) .. (off + n - 1)

InSlots(off, n, i) == {q \in WrittenTo(off, n) : PartIdxAtOffset(q) = i}

Touched(off, n) == {PartIdxAtOffset(q) : q \in WrittenTo(off, n)}

OldPart(parts, i) == IF i \in DOMAIN parts THEN parts[i] ELSE << >>

NewLength(parts, off, n, i) ==
    Max({Len(OldPart(parts, i))} \cup {(q % PartSize) + 1 : q \in InSlots(off, n, i)})

NewByte(parts, gen, off, n, i, k) ==
    IF \E q \in InSlots(off, n, i) : q % PartSize = k - 1
    THEN Byte(gen, CHOOSE q \in InSlots(off, n, i) : q % PartSize = k - 1)
    ELSE IF k <= Len(OldPart(parts, i)) THEN OldPart(parts, i)[k] ELSE 0

NewPart(parts, gen, off, n, i) ==
    [k \in 1 .. NewLength(parts, off, n, i) |-> NewByte(parts, gen, off, n, i, k)]

LEMMA WritePartsIs ==
    ASSUME NEW parts, NEW gen, NEW off, NEW n
    PROVE  WriteParts(parts, gen, off, n) =
             Over([i \in Touched(off, n) |-> NewPart(parts, gen, off, n, i)], parts)
  BY DEF WriteParts, FirstOf, WrittenTo, InSlots, Touched, OldPart, NewLength, NewByte, NewPart

(* Parts laid over others.                                                 *)
LEMMA OverParts ==
    ASSUME NEW upper, NEW lower
    PROVE  /\ DOMAIN Over(upper, lower) = DOMAIN upper \cup DOMAIN lower
           /\ \A i \in DOMAIN upper : Over(upper, lower)[i] = upper[i]
           /\ \A i \in DOMAIN lower \ DOMAIN upper : Over(upper, lower)[i] = lower[i]
  BY DEF Over

PartsOK(parts) == \A i \in DOMAIN parts : parts[i] \in Seq(Nat)

LEMMA OverOK ==
    ASSUME NEW upper, NEW lower, PartsOK(upper), PartsOK(lower)
    PROVE  PartsOK(Over(upper, lower))
  BY DEF Over, PartsOK

LEMMA OldPartOK ==
    ASSUME NEW parts, PartsOK(parts), NEW i
    PROVE  OldPart(parts, i) \in Seq(Nat) /\ Len(OldPart(parts, i)) \in Nat
  BY DEF OldPart, PartsOK

LEMMA WrittenPositions ==
    ASSUME NEW off \in Nat, NEW n \in Nat
    PROVE  /\ WrittenTo(off, n) \subseteq Nat
           /\ \A q \in WrittenTo(off, n) : off <= q /\ q < off + n
           /\ db.circular => \A q \in WrittenTo(off, n) : off + n <= q + MaxParts * PartSize
           /\ \A q \in Nat : /\ off <= q /\ q < off + n
                             /\ db.circular => off + n <= q + MaxParts * PartSize
                             => q \in WrittenTo(off, n)
  <1>1. MaxParts * PartSize \in Nat
    BY FileCacheAssumption
  <1> QED
    BY <1>1 DEF WrittenTo, FirstOf

(* One call writes each slot once.                                         *)
LEMMA WrittenOnce ==
    ASSUME NEW off \in Nat, NEW n \in Nat, NEW p \in WrittenTo(off, n),
           NEW q \in WrittenTo(off, n), SameSlot(p, q)
    PROVE  p = q
  <1>1. /\ p \in Nat /\ off <= p /\ p < off + n /\ q \in Nat /\ off <= q /\ q < off + n
        /\ db.circular => off + n <= p + MaxParts * PartSize
        /\ db.circular => off + n <= q + MaxParts * PartSize
    BY WrittenPositions
  <1>2. MaxParts * PartSize \in Nat
    BY FileCacheAssumption
  <1>3. ~(p < q)
    BY <1>1, <1>2, SlotsDiffer
  <1>4. ~(q < p)
    <2>1. SameSlot(q, p)
      BY DEF SameSlot
    <2> QED
      BY <1>1, <1>2, <2>1, SlotsDiffer
  <1> QED
    BY <1>1, <1>3, <1>4

LEMMA NewLengthIs ==
    ASSUME NEW parts, PartsOK(parts), NEW off \in Nat, NEW n \in Nat, NEW i
    PROVE  /\ NewLength(parts, off, n, i) \in Nat
           /\ NewLength(parts, off, n, i) >= Len(OldPart(parts, i))
           /\ \A q \in InSlots(off, n, i) : NewLength(parts, off, n, i) >= (q % PartSize) + 1
           /\ \/ NewLength(parts, off, n, i) = Len(OldPart(parts, i))
              \/ \E q \in InSlots(off, n, i) : NewLength(parts, off, n, i) = (q % PartSize) + 1
  <1> DEFINE l == Len(OldPart(parts, i))
             T == {l} \cup {(q % PartSize) + 1 : q \in InSlots(off, n, i)}
  <1>1. l \in Nat /\ PartSize \in Nat \ {0}
    BY OldPartOK, FileCacheAssumption
  <1> HIDE DEF l
  <1>2. \A q \in InSlots(off, n, i) : q \in Nat /\ q % PartSize \in 0 .. PartSize - 1
    <2>1. \A q \in InSlots(off, n, i) : q \in Nat
      BY WrittenPositions DEF InSlots
    <2> QED
      BY <2>1, BlockOfPosition
  <1>3. T \in SUBSET Nat /\ T # {} /\ l + PartSize \in Nat /\ \A x \in T : x <= l + PartSize
    BY <1>1, <1>2
  <1>4. Max(T) \in T /\ \A y \in T : y <= Max(T)
    BY <1>3, MaxIsGreatest
  <1>5. NewLength(parts, off, n, i) = Max(T)
    BY DEF NewLength, l
  <1> DEFINE m == Max(T)
  <1>6. m \in Nat /\ l <= m /\ \A q \in InSlots(off, n, i) : (q % PartSize) + 1 <= m
    BY <1>1, <1>3, <1>4
  <1>7. m = l \/ \E q \in InSlots(off, n, i) : m = (q % PartSize) + 1
    BY <1>4
  <1> HIDE DEF m
  <1> QED
    BY <1>1, <1>2, <1>5, <1>6, <1>7 DEF l, m

LEMMA NewPartOK ==
    ASSUME NEW parts, PartsOK(parts), NEW gen \in Nat, NEW off \in Nat, NEW n \in Nat, NEW i
    PROVE  /\ NewPart(parts, gen, off, n, i) \in Seq(Nat)
           /\ Len(NewPart(parts, gen, off, n, i)) = NewLength(parts, off, n, i)
           /\ \A k \in 1 .. NewLength(parts, off, n, i) :
                NewPart(parts, gen, off, n, i)[k] = NewByte(parts, gen, off, n, i, k)
  <1> DEFINE m == NewLength(parts, off, n, i)
             B(k) == NewByte(parts, gen, off, n, i, k)
             s == [k \in 1 .. m |-> B(k)]
  <1>1. m \in Nat
    BY NewLengthIs
  <1>2. \A k \in 1 .. m : B(k) \in Nat
    <2> SUFFICES ASSUME NEW k \in 1 .. m PROVE B(k) \in Nat
      OBVIOUS
    <2> DEFINE old == OldPart(parts, i)
               Q == {q \in InSlots(off, n, i) : q % PartSize = k - 1}
               p == CHOOSE q \in InSlots(off, n, i) : q % PartSize = k - 1
    <2>1. old \in Seq(Nat)
      BY OldPartOK
    <2>2. \A q \in InSlots(off, n, i) : q \in Nat
      BY WrittenPositions DEF InSlots
    <2>3. ASSUME \E q \in InSlots(off, n, i) : q % PartSize = k - 1
          PROVE  p \in Nat
      BY <2>2, <2>3
    <2>4. ASSUME \E q \in InSlots(off, n, i) : q % PartSize = k - 1
          PROVE  B(k) \in Nat
      <3>1. B(k) = Byte(gen, p)
        BY <2>4 DEF NewByte
      <3>2. p \in Nat
        BY <2>3, <2>4
      <3> HIDE DEF p, B
      <3> QED
        BY <3>1, <3>2 DEF Byte
    <2>5. ASSUME ~ \E q \in InSlots(off, n, i) : q % PartSize = k - 1
          PROVE  B(k) \in Nat
      <3>1. B(k) = IF k <= Len(old) THEN old[k] ELSE 0
        BY <2>5 DEF NewByte
      <3> HIDE DEF B, old, m
      <3>2. k \in Nat /\ k >= 1
        BY <1>1
      <3> QED
        BY <2>1, <3>1, <3>2
    <2> QED
      BY <2>4, <2>5
  <1>3. NewPart(parts, gen, off, n, i) = s
    BY DEF NewPart
  <1> HIDE DEF m, B
  <1>4. s \in Seq(Nat) /\ Len(s) = m /\ \A k \in 1 .. m : s[k] = B(k)
    BY <1>1, <1>2
  <1> HIDE DEF s
  <1> QED
    BY <1>3, <1>4 DEF m, B

(* What writing leaves: of a part it touches, the new one.                 *)
LEMMA WriteLeavesParts ==
    ASSUME NEW parts, PartsOK(parts), NEW gen \in Nat, NEW off \in Nat, NEW n \in Nat
    PROVE  PartsOK(WriteParts(parts, gen, off, n))
  <1> DEFINE new == [i \in Touched(off, n) |-> NewPart(parts, gen, off, n, i)]
  <1>1. PartsOK(new)
    BY NewPartOK DEF PartsOK
  <1> HIDE DEF new
  <1>2. PartsOK(Over(new, parts))
    BY <1>1, OverOK
  <1> QED
    BY <1>2, WritePartsIs DEF new

LEMMA PartWritten ==
    ASSUME NEW parts, NEW gen, NEW off, NEW n, NEW i
    PROVE  /\ i \in DOMAIN WriteParts(parts, gen, off, n) <=>
                i \in Touched(off, n) \/ i \in DOMAIN parts
           /\ i \in Touched(off, n) =>
                WriteParts(parts, gen, off, n)[i] = NewPart(parts, gen, off, n, i)
           /\ i \in DOMAIN parts /\ i \notin Touched(off, n) =>
                WriteParts(parts, gen, off, n)[i] = parts[i]
  <1> DEFINE new == [j \in Touched(off, n) |-> NewPart(parts, gen, off, n, j)]
  <1>1. WriteParts(parts, gen, off, n) = Over(new, parts)
    BY WritePartsIs
  <1>2. /\ DOMAIN new = Touched(off, n)
        /\ i \in Touched(off, n) => new[i] = NewPart(parts, gen, off, n, i)
    OBVIOUS
  <1> HIDE DEF new
  <1> QED
    BY <1>1, <1>2 DEF Over

(* The bytes written are read back, ...                                    *)
LEMMA WrittenIsRead ==
    ASSUME NEW parts, PartsOK(parts), NEW gen \in Nat, NEW off \in Nat, NEW n \in Nat,
           NEW q \in WrittenTo(off, n)
    PROVE  PartByte(WriteParts(parts, gen, off, n), q) = Byte(gen, q)
  <1> DEFINE w == WriteParts(parts, gen, off, n)
             i == PartIdxAtOffset(q)
             m == NewLength(parts, off, n, i)
             k == (q % PartSize) + 1
  <1>1. q \in Nat /\ q \in InSlots(off, n, i) /\ i \in Touched(off, n)
    BY WrittenPositions DEF InSlots, Touched
  <1>2. q % PartSize \in 0 .. PartSize - 1 /\ PartSize \in Nat
    BY <1>1, BlockOfPosition, FileCacheAssumption
  <1>3. m \in Nat /\ k <= m
    BY <1>1, NewLengthIs
  <1>4. k \in 1 .. m /\ k - 1 = q % PartSize
    BY <1>2, <1>3
  <1>5. w[i] = NewPart(parts, gen, off, n, i) /\ i \in DOMAIN w
    BY <1>1, PartWritten
  <1> HIDE DEF w
  <1>6. Len(w[i]) = m /\ w[i][k] = NewByte(parts, gen, off, n, i, k)
    <2>1. /\ Len(NewPart(parts, gen, off, n, i)) = m
          /\ \A j \in 1 .. m : NewPart(parts, gen, off, n, i)[j] = NewByte(parts, gen, off, n, i, j)
      BY NewPartOK
    <2> QED
      BY <1>4, <1>5, <2>1
  <1>7. NewByte(parts, gen, off, n, i, k) = Byte(gen, q)
    <2> DEFINE p == CHOOSE x \in InSlots(off, n, i) : x % PartSize = k - 1
    <2>1. p \in InSlots(off, n, i) /\ p % PartSize = k - 1
      BY <1>1, <1>4
    <2>2. NewByte(parts, gen, off, n, i, k) = Byte(gen, p)
      BY <1>1, <1>4 DEF NewByte
    <2> HIDE DEF p
    <2>3. p \in WrittenTo(off, n) /\ SameSlot(p, q)
      BY <1>4, <2>1 DEF InSlots, SameSlot
    <2>4. p = q
      BY <2>3, WrittenOnce
    <2> QED
      BY <2>2, <2>4
  <1>8. q % PartSize < m
    BY <1>2, <1>3
  <1> HIDE DEF w, m
  <1> QED
    BY <1>5, <1>6, <1>7, <1>8 DEF PartByte, w

(* ... and in slots that were not written what was there before.           *)
LEMMA OthersStay ==
    ASSUME NEW parts, PartsOK(parts), NEW gen \in Nat, NEW off \in Nat, NEW n \in Nat,
           NEW q \in Nat, \A p \in WrittenTo(off, n) : ~SameSlot(p, q)
    PROVE  PartByte(WriteParts(parts, gen, off, n), q) = PartByte(parts, q)
  <1> DEFINE w == WriteParts(parts, gen, off, n)
             i == PartIdxAtOffset(q)
             m == NewLength(parts, off, n, i)
             k == (q % PartSize) + 1
             old == OldPart(parts, i)
             l == Len(old)
  <1>1. CASE i \notin Touched(off, n)
    <2>1. i \in DOMAIN w <=> i \in DOMAIN parts
      BY <1>1, PartWritten
    <2>2. i \in DOMAIN parts => w[i] = parts[i]
      BY <1>1, PartWritten
    <2> HIDE DEF w
    <2> QED
      BY <2>1, <2>2 DEF PartByte, w
  <1>2. CASE i \in Touched(off, n)
    <2>1. w[i] = NewPart(parts, gen, off, n, i) /\ i \in DOMAIN w
      BY <1>2, PartWritten
    <2>a. /\ Len(NewPart(parts, gen, off, n, i)) = m
          /\ \A j \in 1 .. m : NewPart(parts, gen, off, n, i)[j] = NewByte(parts, gen, off, n, i, j)
      BY NewPartOK
    <2>b. m \in Nat /\ l \in Nat /\ m >= l
      BY NewLengthIs, OldPartOK
    <2>c. q % PartSize \in 0 .. PartSize - 1 /\ PartSize \in Nat
      BY BlockOfPosition, FileCacheAssumption
    <2> HIDE DEF w, m, l
    <2>2. /\ q % PartSize \in Nat /\ m \in Nat /\ l \in Nat /\ m >= l
          /\ Len(w[i]) = m
      BY <2>1, <2>a, <2>b, <2>c
    <2>3. \A p \in InSlots(off, n, i) : p % PartSize # k - 1
      BY <2>2 DEF InSlots, SameSlot
    <2>4. NewByte(parts, gen, off, n, i, k) = IF k <= l THEN old[k] ELSE 0
      BY <2>3 DEF NewByte, l
    <2>5. k \in 1 .. m => w[i][k] = IF k <= l THEN old[k] ELSE 0
      BY <2>1, <2>4, <2>a
    <2>6. PartByte(parts, q) = IF k <= l THEN old[k] ELSE 0
      <3>1. CASE i \in DOMAIN parts
        <4>1. old = parts[i]
          BY <3>1 DEF OldPart
        <4>2. q % PartSize < l <=> k <= l
          BY <2>2
        <4> HIDE DEF l, old
        <4> QED
          BY <3>1, <4>1, <4>2 DEF PartByte, l
      <3>2. CASE i \notin DOMAIN parts
        <4>1. old = << >>
          BY <3>2 DEF OldPart
        <4>2. l = 0
          BY <4>1 DEF l
        <4>3. ~(k <= l)
          BY <2>2, <4>2
        <4> HIDE DEF l
        <4> QED
          BY <3>2, <4>3 DEF PartByte
      <3> QED
        BY <3>1, <3>2
    <2> HIDE DEF m, old, l, w
    <2>7. PartByte(w, q) = IF q % PartSize < m THEN w[i][k] ELSE 0
      BY <2>1, <2>2 DEF PartByte
    <2> QED
      BY <2>2, <2>5, <2>6, <2>7 DEF w
  <1> QED
    BY <1>1, <1>2

-----------------------------------------------------------------------------
(* What a read sees, and which of the parts it has to load an append finds. *)
Holds(parts, gen, size) ==
    \A q \in DataStartIdx(size) .. size - 1 : PartByte(parts, q) = Byte(gen, q)

LEMMA PartByteOver ==
    ASSUME NEW upper, NEW lower, NEW q
    PROVE  PartByte(Over(upper, lower), q) =
             IF PartIdxAtOffset(q) \in DOMAIN upper
             THEN PartByte(upper, q) ELSE PartByte(lower, q)
  BY DEF PartByte, Over

LEMMA SmallerAndGreater ==
    ASSUME NEW a \in Nat, NEW b \in Nat
    PROVE  /\ Min({a, b}) = IF a <= b THEN a ELSE b
           /\ Max({a, b}) = IF a <= b THEN b ELSE a
  <1>1. \E x \in {a, b} : \A y \in {a, b} : x =< y
    OBVIOUS
  <1>2. Min({a, b}) \in {a, b} /\ \A y \in {a, b} : Min({a, b}) =< y
    BY <1>1 DEF Min
  <1>3. \E x \in {a, b} : \A y \in {a, b} : x >= y
    OBVIOUS
  <1>4. Max({a, b}) \in {a, b} /\ \A y \in {a, b} : Max({a, b}) >= y
    BY <1>3 DEF Max
  <1> QED
    BY <1>2, <1>4

LEMMA DivisionMonotone ==
    ASSUME NEW a \in Nat, NEW c \in Nat, NEW b \in Nat \ {0}, a <= c
    PROVE  a \div b <= c \div b
  <1>1. /\ a = (b * (a \div b)) + (a % b) /\ a % b \in 0 .. b - 1 /\ a \div b \in Nat
    BY Division
  <1>2. /\ c = (b * (c \div b)) + (c % b) /\ c % b \in 0 .. b - 1 /\ c \div b \in Nat
    BY Division
  <1> DEFINE x == a \div b
             y == c \div b
             r == a % b
             s == c % b
  <1> HIDE DEF x, y, r, s
  <1>3. /\ a = (b * x) + r /\ r \in 0 .. b - 1 /\ x \in Nat
        /\ c = (b * y) + s /\ s \in 0 .. b - 1 /\ y \in Nat
    BY <1>1, <1>2 DEF x, y, r, s
  <1>4. y < x => (b * y) + b <= b * x
    BY <1>3, Multiples
  <1>5. b * x \in Nat /\ b * y \in Nat
    BY <1>3, Multiples
  <1>6. ~(y < x)
    BY <1>3, <1>4, <1>5
  <1> QED
    BY <1>3, <1>6 DEF x, y

(* A part the append need not load is overwritten in every slot.           *)
LEMMA CompleteIsOverwritten ==
    ASSUME NEW off \in Nat, NEW n \in Nat \ {0}, NEW q \in Nat,
           PartIdxAtOffset(q) \in Touched(off, n),
           PartIdxAtOffset(q) \notin IncompleteParts(off, n)
    PROVE  \E p \in WrittenTo(off, n) : SameSlot(p, q)
  <1> DEFINE i == PartIdxAtOffset(q)
             blocks == (off \div PartSize) .. ((off + n - 1) \div PartSize)
             Amount(b) == Min({off + n, (b + 1) * PartSize}) - Max({off, b * PartSize})
             T == {d \in blocks : PartIdxAtOffset(d * PartSize) = i}
             d == Max(T)
             r == q % PartSize
             p == (PartSize * d) + r
  <1>0. PartSize \in Nat \ {0} /\ MaxParts \in Nat \ {0} /\ MaxParts * PartSize \in Nat
    BY FileCacheAssumption
  <1>1. off + n - 1 \in Nat /\ off + n \in Nat
    OBVIOUS
  <1>2. off \div PartSize \in Nat /\ (off + n - 1) \div PartSize \in Nat
    BY <1>0, <1>1, Division
  <1>3. \A x \in Nat : off <= x /\ x < off + n => x \div PartSize \in blocks
    <2> SUFFICES ASSUME NEW x \in Nat, off <= x, x < off + n
                 PROVE  x \div PartSize \in blocks
      OBVIOUS
    <2>1. off \div PartSize <= x \div PartSize
      BY <1>0, DivisionMonotone
    <2>2. x <= off + n - 1
      OBVIOUS
    <2>3. x \div PartSize <= (off + n - 1) \div PartSize
      BY <1>0, <1>1, <2>2, DivisionMonotone
    <2>4. x \div PartSize \in Nat
      BY <1>0, Division
    <2> QED
      BY <1>2, <2>1, <2>3, <2>4
  <1>4. PICK b \in blocks : PartIdxAtOffset(b * PartSize) = i
    <2>1. PICK x \in WrittenTo(off, n) : PartIdxAtOffset(x) = i
      BY DEF Touched
    <2>2. x \in Nat /\ off <= x /\ x < off + n
      BY WrittenPositions
    <2>3. PartIdxAtOffset((x \div PartSize) * PartSize) = i
      BY <2>1, <2>2, BlockOfPosition
    <2> HIDE DEF blocks
    <2> QED
      BY <1>3, <2>2, <2>3
  <1>5. T \in SUBSET Nat /\ T # {} /\ \A x \in T : x <= (off + n - 1) \div PartSize
    BY <1>2, <1>4
  <1>6. d \in T /\ \A x \in T : x <= d
    BY <1>2, <1>5, MaxIsGreatest
  <1>7. Amount(d) = PartSize
    <2>1. IncompleteParts(off, n) =
            {PartIdxAtOffset(x * PartSize) : x \in {y \in blocks :
                Amount(Max({z \in blocks : PartIdxAtOffset(z * PartSize) =
                                           PartIdxAtOffset(y * PartSize)})) # PartSize}}
      BY DEF IncompleteParts
    <2>2. ~(Amount(Max({z \in blocks : PartIdxAtOffset(z * PartSize) =
                                       PartIdxAtOffset(b * PartSize)})) # PartSize)
      <3> HIDE DEF blocks, Amount
      <3> QED
        BY <1>4, <2>1
    <2>3. {z \in blocks : PartIdxAtOffset(z * PartSize) = PartIdxAtOffset(b * PartSize)} = T
      BY <1>4
    <2> HIDE DEF T, Amount
    <2> QED
      BY <2>2, <2>3
  <1>8. d \in blocks /\ d \in Nat /\ PartIdxAtOffset(d * PartSize) = i
    BY <1>2, <1>6
  <1>9. \A x \in blocks : PartIdxAtOffset(x * PartSize) = i => x <= d
    BY <1>6
  <1>10. r \in 0 .. PartSize - 1
    BY BlockOfPosition
  <1> HIDE DEF d, T, r, blocks
  <1>11. off <= PartSize * d /\ (PartSize * d) + PartSize <= off + n
    <2>1. /\ (d + 1) * PartSize = (PartSize * d) + PartSize
          /\ d * PartSize = PartSize * d /\ PartSize * d \in Nat
      BY <1>0, <1>8
    <2> DEFINE m == PartSize * d
    <2>2. m \in Nat /\ m + PartSize \in Nat
      BY <1>0, <2>1
    <2>3. Min({off + n, m + PartSize}) - Max({off, m}) = PartSize
      BY <1>7, <2>1
    <2> HIDE DEF m
    <2>4. /\ Min({off + n, m + PartSize}) = IF off + n <= m + PartSize THEN off + n ELSE m + PartSize
          /\ Max({off, m}) = IF off <= m THEN m ELSE off
      BY <1>1, <2>2, SmallerAndGreater
    <2>5. off <= m /\ m + PartSize <= off + n
      BY <1>0, <1>1, <2>2, <2>3, <2>4
    <2> QED
      BY <2>5 DEF m
  <1>12. p \in Nat /\ p \div PartSize = d /\ p % PartSize = r
    <2>1. PartSize * d \in Nat
      BY <1>0, <1>8, Multiples
    <2>2. ((PartSize * d) + r) \div PartSize = d /\ ((PartSize * d) + r) % PartSize = r
      BY <1>0, <1>8, <1>10, DivisionOf
    <2> QED
      BY <1>0, <1>10, <2>1, <2>2
  <1>13. off <= p /\ p < off + n
    <2>1. PartSize * d \in Nat
      BY <1>0, <1>8, Multiples
    <2> QED
      BY <1>0, <1>10, <1>11, <2>1
  <1> HIDE DEF p
  <1>14. PartIdxAtOffset(p) = i
    BY <1>8, <1>12, BlockOfPosition
  <1>15. db.circular => off + n <= p + MaxParts * PartSize
    <2> SUFFICES ASSUME db.circular, p + MaxParts * PartSize < off + n PROVE FALSE
      BY <1>0, <1>12
    <2> DEFINE e == d + MaxParts
    <2>1. p + MaxParts * PartSize = (PartSize * e) + r /\ e \in Nat
      <3>1. PartSize * (d + MaxParts) = (PartSize * d) + (PartSize * MaxParts)
        BY <1>0, <1>8, Multiples
      <3>2. PartSize * MaxParts = MaxParts * PartSize /\ PartSize * d \in Nat
        BY <1>0, <1>8, Multiples
      <3> QED
        BY <1>0, <1>8, <1>10, <3>1, <3>2 DEF p
    <2>2. ((PartSize * e) + r) \div PartSize = e
      BY <1>0, <1>10, <2>1, DivisionOf
    <2>3. e \in blocks
      <3>1. p + MaxParts * PartSize \in Nat /\ off <= p + MaxParts * PartSize
        BY <1>0, <1>12, <1>13
      <3> QED
        BY <1>3, <2>1, <2>2, <3>1
    <2>4. PartIdxAtOffset(e * PartSize) = PartIdxAtOffset(d * PartSize)
      <3>1. (e * PartSize) \div PartSize = e /\ (d * PartSize) \div PartSize = d
        <4>1. ((PartSize * e) + 0) \div PartSize = e /\ ((PartSize * d) + 0) \div PartSize = d
          BY <1>0, <1>8, <2>1, DivisionOf
        <4>2. PartSize * e = e * PartSize /\ PartSize * e \in Nat
              /\ PartSize * d = d * PartSize /\ PartSize * d \in Nat
          BY <1>0, <1>8, <2>1, Multiples
        <4> QED
          BY <4>1, <4>2
      <3>2. e % MaxParts = d % MaxParts
        <4>1. /\ d = (MaxParts * (d \div MaxParts)) + (d % MaxParts)
              /\ d % MaxParts \in 0 .. MaxParts - 1 /\ d \div MaxParts \in Nat
          BY <1>0, <1>8, Division
        <4> DEFINE c == d \div MaxParts
                   s == d % MaxParts
        <4> HIDE DEF c, s
        <4>2. d = (MaxParts * c) + s /\ s \in 0 .. MaxParts - 1 /\ c \in Nat
          BY <4>1 DEF c, s
        <4>3. MaxParts * (c + 1) = (MaxParts * c) + MaxParts /\ MaxParts * c \in Nat
          BY <1>0, <4>2
        <4>4. e = (MaxParts * (c + 1)) + s
          BY <1>0, <4>2, <4>3
        <4>5. c + 1 \in Nat
          BY <4>2
        <4>6. ((MaxParts * (c + 1)) + s) % MaxParts = s
          BY <1>0, <4>2, <4>5, DivisionOf
        <4> QED
          BY <4>4, <4>6 DEF s
      <3> QED
        BY <3>1, <3>2 DEF PartIdxAtOffset
    <2>5. e <= d
      BY <1>8, <1>9, <2>3, <2>4
    <2> QED
      BY <1>0, <1>8, <2>5
  <1>16. p \in WrittenTo(off, n)
    BY <1>12, <1>13, <1>15, WrittenPositions
  <1> QED
    BY <1>12, <1>14, <1>16 DEF SameSlot, r

LEMMA KeptFrom ==
    ASSUME NEW size \in Nat
    PROVE  /\ DataStartIdx(size) \in Nat /\ DataStartIdx(size) <= size
           /\ \A n \in Nat : DataStartIdx(size) <= DataStartIdx(size + n)
           /\ db.circular => \A q \in Nat : q >= DataStartIdx(size) =>
                                size <= q + MaxParts * PartSize
           /\ DataStartIdx(0) = 0
  <1>1. MaxParts * PartSize \in Nat
    BY FileCacheAssumption
  <1> QED
    BY <1>1 DEF DataStartIdx

LEMMA ByteIsSome ==
    ASSUME NEW gen \in Nat, NEW q \in Nat
    PROVE  Byte(gen, q) # 0 /\ Byte(gen, q) \in Nat
  BY DEF Byte

(* An append, after loading what it needs, leaves a file that reads back.  *)
LEMMA AppendReads ==
    ASSUME NEW rec, PartsOK(rec.parts), PartsOK(db.parts), NEW gen \in Nat,
           NEW off \in Nat, NEW n \in Nat \ {0},
           Holds(Over(rec.parts, db.parts), gen, off)
    PROVE  LET loaded == LoadDataPartsIntoCache(rec, IncompleteParts(off, n))
               new == WriteParts(loaded, gen, off, n)
           IN  PartsOK(new) /\ Holds(Over(new, db.parts), gen, off + n)
  <1> DEFINE wanted == IncompleteParts(off, n)
             loaded == LoadDataPartsIntoCache(rec, wanted)
             new == WriteParts(loaded, gen, off, n)
             both == Over(rec.parts, db.parts)
  <1>0. MaxParts * PartSize \in Nat
    BY FileCacheAssumption
  <1>1. /\ PartsOK(loaded)
        /\ DOMAIN loaded = DOMAIN rec.parts \cup (wanted \cap DOMAIN db.parts)
        /\ \A i \in DOMAIN rec.parts : loaded[i] = rec.parts[i]
        /\ \A i \in (wanted \cap DOMAIN db.parts) \ DOMAIN rec.parts : loaded[i] = db.parts[i]
    <2> DEFINE part == [i \in wanted \cap DOMAIN db.parts |-> db.parts[i]]
    <2>1. PartsOK(part) /\ DOMAIN part = wanted \cap DOMAIN db.parts
          /\ \A i \in DOMAIN part : part[i] = db.parts[i]
      BY DEF PartsOK
    <2>2. loaded = Over(rec.parts, part)
      BY DEF LoadDataPartsIntoCache
    <2> HIDE DEF part, wanted, loaded
    <2>3. PartsOK(loaded)
      BY <2>1, <2>2, OverOK
    <2> QED
      BY <2>1, <2>2, <2>3 DEF Over
  <1> HIDE DEF loaded, wanted
  <1>2. PartsOK(new)
    BY <1>1, WriteLeavesParts
  <1>3. ASSUME NEW q \in DataStartIdx(off + n) .. off + n - 1
        PROVE  PartByte(Over(new, db.parts), q) = Byte(gen, q)
    <2> DEFINE i == PartIdxAtOffset(q)
    <2>1. /\ q \in Nat /\ q < off + n /\ DataStartIdx(off) <= q
          /\ db.circular => off + n <= q + MaxParts * PartSize
      <3>1. DataStartIdx(off + n) \in Nat /\ DataStartIdx(off) <= DataStartIdx(off + n)
            /\ DataStartIdx(off) \in Nat
        BY KeptFrom
      <3>2. q \in Nat /\ q >= DataStartIdx(off + n) /\ q < off + n /\ DataStartIdx(off) <= q
        BY <3>1
      <3>3. db.circular => off + n <= q + MaxParts * PartSize
        BY <3>2, KeptFrom
      <3> QED
        BY <3>2, <3>3
    <2>2. i \in DOMAIN new <=> i \in Touched(off, n) \/ i \in DOMAIN loaded
      BY PartWritten
    <2>3. PartByte(Over(new, db.parts), q) =
            IF i \in DOMAIN new THEN PartByte(new, q) ELSE PartByte(db.parts, q)
      BY PartByteOver
    <2>4. CASE q \in WrittenTo(off, n)
      <3>1. i \in Touched(off, n)
        BY <2>4 DEF Touched
      <3>2. PartByte(new, q) = Byte(gen, q)
        BY <1>1, <2>4, WrittenIsRead
      <3> QED
        BY <2>2, <2>3, <3>1, <3>2
    <2>5. CASE q \notin WrittenTo(off, n)
      <3>1. q < off
        BY <2>1, <2>5, WrittenPositions
      <3>2. ASSUME NEW p \in WrittenTo(off, n), SameSlot(p, q)
            PROVE  FALSE
        <4>1. p \in Nat /\ off <= p /\ p < off + n
          BY WrittenPositions
        <4>2. q < p /\ SameSlot(q, p)
          BY <2>1, <3>1, <3>2, <4>1 DEF SameSlot
        <4>3. db.circular /\ q + MaxParts * PartSize <= p
          BY <2>1, <4>1, <4>2, SlotsDiffer
        <4> QED
          BY <1>0, <2>1, <4>1, <4>3
      <3>3. PartByte(new, q) = PartByte(loaded, q)
        BY <1>1, <2>1, <3>2, OthersStay
      <3>4. PartByte(both, q) = Byte(gen, q)
        <4>1. q \in DataStartIdx(off) .. off - 1
          BY <2>1, <3>1, KeptFrom
        <4> QED
          BY <4>1 DEF Holds
      <3>5. Byte(gen, q) # 0
        BY <2>1, ByteIsSome
      <3> HIDE DEF new, both
      <3>6. CASE i \in DOMAIN rec.parts
        <4>1. PartByte(loaded, q) = PartByte(rec.parts, q) /\ i \in DOMAIN new
          BY <1>1, <2>2, <3>6 DEF PartByte
        <4>2. PartByte(both, q) = PartByte(rec.parts, q)
          BY <3>6, PartByteOver DEF both
        <4> QED
          BY <2>3, <3>3, <3>4, <4>1, <4>2
      <3>7. CASE i \notin DOMAIN rec.parts
        <4>1. PartByte(db.parts, q) = Byte(gen, q)
          BY <3>4, <3>7, PartByteOver DEF both
        <4>2. i \in DOMAIN db.parts
          BY <3>5, <4>1 DEF PartByte
        <4>3. CASE i \in wanted
          <5>1. PartByte(loaded, q) = PartByte(db.parts, q) /\ i \in DOMAIN new
            BY <1>1, <2>2, <3>7, <4>2, <4>3 DEF PartByte
          <5> QED
            BY <2>3, <3>3, <4>1, <5>1
        <4>4. CASE i \notin wanted
          <5>1. i \notin Touched(off, n)
            BY <2>1, <3>2, <4>4, CompleteIsOverwritten DEF wanted
          <5>2. i \notin DOMAIN new
            BY <1>1, <2>2, <3>7, <4>4, <5>1
          <5> QED
            BY <2>3, <4>1, <5>2
        <4> QED
          BY <4>3, <4>4
      <3> QED
        BY <3>6, <3>7
    <2> QED
      BY <2>4, <2>5
  <1>4. Holds(Over(new, db.parts), gen, off + n)
    BY <1>3 DEF Holds
  <1> QED
    BY <1>2, <1>4 DEF loaded, wanted

(* A file rewritten from the start needs nothing of what was there.        *)
LEMMA RewriteReads ==
    ASSUME NEW gen \in Nat, NEW n \in Nat, NEW lower
    PROVE  /\ PartsOK(WriteParts(<< >>, gen, 0, n))
           /\ Holds(WriteParts(<< >>, gen, 0, n), gen, n)
           /\ Holds(Over(WriteParts(<< >>, gen, 0, n), lower), gen, n)
  <1> DEFINE new == WriteParts(<< >>, gen, 0, n)
  <1>0. MaxParts * PartSize \in Nat /\ PartsOK(<< >>)
    BY FileCacheAssumption DEF PartsOK
  <1>1. PartsOK(new)
    BY <1>0, WriteLeavesParts
  <1>2. ASSUME NEW q \in DataStartIdx(n) .. n - 1
        PROVE  PartByte(new, q) = Byte(gen, q) /\ PartIdxAtOffset(q) \in DOMAIN new
    <2>1. q \in Nat /\ q < n /\ (db.circular => n <= q + MaxParts * PartSize)
      <3>1. DataStartIdx(n) \in Nat
        BY KeptFrom
      <3>2. q \in Nat /\ q < n /\ q >= DataStartIdx(n)
        BY <3>1
      <3> QED
        BY <3>2, KeptFrom
    <2>2. 0 \in Nat /\ 0 <= q /\ q < 0 + n /\ (db.circular => 0 + n <= q + MaxParts * PartSize)
      BY <2>1
    <2>3. q \in WrittenTo(0, n)
      BY <2>1, <2>2, WrittenPositions
    <2>4. PartByte(new, q) = Byte(gen, q)
      BY <1>0, <2>3, WrittenIsRead
    <2>5. PartIdxAtOffset(q) \in Touched(0, n)
      BY <2>3 DEF Touched
    <2> QED
      BY <2>4, <2>5, PartWritten
  <1> HIDE DEF new
  <1>3. Holds(new, gen, n)
    BY <1>2 DEF Holds
  <1>4. Holds(Over(new, lower), gen, n)
    BY <1>2, PartByteOver DEF Holds
  <1> QED
    BY <1>1, <1>3, <1>4 DEF new

-----------------------------------------------------------------------------
(* The bytes of a file, with its row d, its entry rec, and the contents c  *)
(* and s that it and the database alone should have.                       *)
ReadAt(circular, parts, q) ==
    LET i == IF circular THEN (q \div PartSize) % MaxParts ELSE q \div PartSize
    IN  IF i \in DOMAIN parts /\ q % PartSize < Len(parts[i])
        THEN parts[i][(q % PartSize) + 1] ELSE 0

StartOf(circular, size) ==
    IF circular /\ size > MaxParts * PartSize THEN size - MaxParts * PartSize ELSE 0

FileIs(circular, parts, gen, size) ==
    \A q \in StartOf(circular, size) .. size - 1 : ReadAt(circular, parts, q) = Byte(gen, q)

IsRow(d) ==
    /\ d = [field \in DOMAIN d |-> d[field]]
    /\ DOMAIN d = {"exists", "circular", "size", "parts"}
    /\ d.exists \in BOOLEAN /\ d.circular \in BOOLEAN /\ d.size \in Nat /\ PartsOK(d.parts)

Contents == [exists : BOOLEAN, gen : Nat, size : Nat]

EntryOK(d, rec) ==
    /\ rec.file \in BOOLEAN /\ rec.size \in Nat /\ PartsOK(rec.parts)
    /\ rec.file => d.exists
    /\ ~rec.file => rec.parts = << >>

BytesOK(d, rec, c, s) ==
    /\ IsRow(d) /\ c \in Contents /\ s \in Contents
    /\ c.exists = d.exists /\ s.exists = d.exists
    /\ EntryOK(d, rec)
    /\ c.exists => /\ (IF rec.file THEN rec.size ELSE d.size) = c.size
                   /\ FileIs(d.circular, Over(rec.parts, d.parts), c.gen, c.size)
    /\ s.exists => d.size = s.size /\ FileIs(d.circular, d.parts, s.gen, s.size)

BytesInv == BytesOK(db, Current, content, saved) /\ nContents \in Nat

LEMMA HoldsIs ==
    ASSUME NEW parts, NEW gen, NEW size
    PROVE  Holds(parts, gen, size) <=> FileIs(db.circular, parts, gen, size)
  BY DEF Holds, FileIs, PartByte, PartIdxAtOffset, DataStartIdx, ReadAt, StartOf

LEMMA BytesInvShows == BytesInv => ReadsBack /\ DiskHoldsSaved
  <1> SUFFICES ASSUME BytesInv PROVE ReadsBack /\ DiskHoldsSaved
    OBVIOUS
  <1>1. content.exists => /\ FileSize(Current) = content.size
                          /\ Holds(Over(Current.parts, db.parts), content.gen, content.size)
    BY HoldsIs DEF BytesInv, BytesOK, FileSize
  <1>2. /\ db.exists = saved.exists
        /\ saved.exists => db.size = saved.size /\ Holds(db.parts, saved.gen, saved.size)
    BY HoldsIs DEF BytesInv, BytesOK
  <1> QED
    BY <1>1, <1>2 DEF ReadsBack, DiskHoldsSaved, Holds

(* An entry that holds nothing leaves the database to be read.             *)
LEMMA NothingOver ==
    ASSUME NEW circular, NEW parts, NEW gen, NEW size
    PROVE  FileIs(circular, Over(<< >>, parts), gen, size) <=> FileIs(circular, parts, gen, size)
  <1>1. DOMAIN << >> = {}
    OBVIOUS
  <1>2. /\ DOMAIN Over(<< >>, parts) = DOMAIN parts
        /\ \A i \in DOMAIN parts : Over(<< >>, parts)[i] = parts[i]
    BY <1>1 DEF Over
  <1>3. \A q : ReadAt(circular, Over(<< >>, parts), q) = ReadAt(circular, parts, q)
    BY <1>2 DEF ReadAt
  <1> QED
    BY <1>3 DEF FileIs

LEMMA SameBytes ==
    ASSUME NEW d, NEW rec, NEW c, NEW s, BytesOK(d, rec, c, s), NEW new,
           new.file = rec.file, new.size = rec.size, new.parts = rec.parts
    PROVE  BytesOK(d, new, c, s)
  BY DEF BytesOK, EntryOK

IsClear(rec) == rec.file = FALSE /\ rec.size = 0 /\ rec.parts = << >>

LEMMA NoPartsOK == PartsOK(<< >>)
  BY DEF PartsOK

LEMMA ClearIsOK ==
    ASSUME NEW new, IsClear(new), NEW d
    PROVE  EntryOK(d, new)
  <1>1. PartsOK(new.parts)
    BY NoPartsOK DEF IsClear
  <1>2. new.file = FALSE /\ new.size \in Nat /\ new.parts = << >>
    BY DEF IsClear
  <1> QED
    BY <1>1, <1>2, Zenon DEF EntryOK

(* Parts laid over themselves read as they did, and laid twice as once.    *)
LEMMA SameIsTransparent ==
    ASSUME NEW upper, NEW lower, NEW circular, NEW gen, NEW size
    PROVE  /\ FileIs(circular, upper, gen, size) =>
                 FileIs(circular, Over(upper, upper), gen, size)
           /\ FileIs(circular, Over(upper, lower), gen, size) =>
                 FileIs(circular, Over(upper, Over(upper, lower)), gen, size)
  <1>1. ASSUME NEW under, NEW q,
               \A i : i \in DOMAIN under /\ i \in DOMAIN upper => under[i] = upper[i],
               DOMAIN upper \subseteq DOMAIN under
        PROVE  ReadAt(circular, Over(upper, under), q) = ReadAt(circular, under, q)
    <2> DEFINE over == Over(upper, under)
    <2>1. /\ DOMAIN over = DOMAIN upper \cup DOMAIN under
          /\ \A i \in DOMAIN upper : over[i] = upper[i]
          /\ \A i \in DOMAIN under \ DOMAIN upper : over[i] = under[i]
      BY OverParts, Zenon
    <2> HIDE DEF over
    <2>2. /\ DOMAIN over = DOMAIN under
          /\ \A i \in DOMAIN under : over[i] = under[i]
      BY <1>1, <2>1
    <2>3. ReadAt(circular, over, q) = ReadAt(circular, under, q)
      BY <2>2 DEF ReadAt
    <2> QED
      BY <2>3 DEF over
  <1>2. \A q : ReadAt(circular, Over(upper, upper), q) = ReadAt(circular, upper, q)
    BY <1>1
  <1>3. \A q : ReadAt(circular, Over(upper, Over(upper, lower)), q) =
              ReadAt(circular, Over(upper, lower), q)
    BY <1>1, OverParts
  <1> QED
    BY <1>2, <1>3 DEF FileIs

(* Any contents that the row alone has it has under a cleared entry.       *)
LEMMA ClearIsTransparent ==
    ASSUME NEW new, IsClear(new), NEW circular, NEW parts, NEW gen, NEW size,
           FileIs(circular, parts, gen, size)
    PROVE  FileIs(circular, Over(new.parts, parts), gen, size)
  <1>1. new.parts = << >>
    BY DEF IsClear
  <1> QED
    BY <1>1, NothingOver

LEMMA ClearedIsClear ==
    /\ IsClear(EmptyEntry)
    /\ \A rec : IsClear(Cleared(rec))
  BY DEF IsClear, EmptyEntry, Cleared

(* An entry without a file is as good as none.                             *)
LEMMA DroppedBytes ==
    ASSUME NEW d, NEW rec, NEW c, NEW s, BytesOK(d, rec, c, s), NEW new, IsClear(new),
           ~rec.file
    PROVE  BytesOK(d, new, c, s)
  <1>1. EntryOK(d, new)
    BY ClearIsOK
  <1>2. rec.parts = new.parts /\ ~new.file
    BY DEF BytesOK, EntryOK, IsClear
  <1> QED
    BY <1>1, <1>2 DEF BytesOK

(* What only the cache held is lost: the file is what was saved.           *)
LEMMA LostBytes ==
    ASSUME NEW d, NEW rec, NEW c, NEW s, BytesOK(d, rec, c, s), NEW new, IsClear(new)
    PROVE  BytesOK(d, new, s, s)
  <1>1. s.exists => FileIs(d.circular, Over(new.parts, d.parts), s.gen, s.size)
    BY ClearIsTransparent DEF BytesOK
  <1>2. EntryOK(d, new) /\ ~new.file
    BY ClearIsOK DEF IsClear
  <1> QED
    BY <1>1, <1>2 DEF BytesOK

(* What is flushed is saved: the parts of the entry over the others, or,   *)
(* when it replaces them, alone.                                           *)
LEMMA WrittenBytes ==
    ASSUME NEW d, NEW rec, NEW c, NEW s, BytesOK(d, rec, c, s), rec.file,
           NEW replace \in BOOLEAN,
           replace => FileIs(d.circular, rec.parts, c.gen, c.size)
    PROVE  BytesOK([d EXCEPT !.size = rec.size,
                             !.parts = IF replace THEN rec.parts ELSE Over(rec.parts, @)],
                   rec, c, c)
  <1> DEFINE parts == IF replace THEN rec.parts ELSE Over(rec.parts, d.parts)
             e == [d EXCEPT !.size = rec.size, !.parts = parts]
  <1>1. /\ IsRow(d) /\ c \in Contents /\ c.exists = d.exists /\ d.exists = TRUE
        /\ rec.size \in Nat /\ PartsOK(rec.parts) /\ PartsOK(d.parts)
        /\ rec.size = c.size /\ rec.file = TRUE
        /\ FileIs(d.circular, Over(rec.parts, d.parts), c.gen, c.size)
    BY DEF BytesOK, EntryOK, IsRow
  <1>2. PartsOK(parts) /\ FileIs(d.circular, parts, c.gen, c.size)
    BY <1>1, OverOK
  <1>3. FileIs(d.circular, Over(rec.parts, parts), c.gen, c.size)
    <2>1. CASE replace
      BY <1>1, <2>1, SameIsTransparent
    <2>2. CASE ~replace
      BY <1>1, <2>2, SameIsTransparent
    <2> QED
      BY <2>1, <2>2
  <1>4. e = [d EXCEPT !.size = rec.size,
                      !.parts = IF replace THEN rec.parts ELSE Over(rec.parts, @)]
    OBVIOUS
  <1> HIDE DEF parts
  <1>5. IsRow(e) /\ e.exists = d.exists /\ e.circular = d.circular /\ e.size = rec.size
        /\ e.parts = parts
    <2>1. /\ e = [field \in DOMAIN e |-> e[field]]
          /\ DOMAIN e = {"exists", "circular", "size", "parts"}
          /\ e.exists = d.exists /\ e.circular = d.circular /\ e.size = rec.size
          /\ e.parts = parts
      BY <1>1 DEF IsRow
    <2> HIDE DEF e
    <2> QED
      BY <1>1, <1>2, <2>1 DEF IsRow
  <1> HIDE DEF e
  <1>6. FileIs(e.circular, Over(rec.parts, e.parts), c.gen, c.size)
        /\ FileIs(e.circular, e.parts, c.gen, c.size)
    BY <1>2, <1>3, <1>5
  <1>7. EntryOK(e, rec)
    BY <1>1, <1>5 DEF EntryOK
  <1>8. BytesOK(e, rec, c, c)
    BY <1>1, <1>5, <1>6, <1>7 DEF BytesOK
  <1> QED
    BY <1>4, <1>8

(* And then the entry may be cleared.                                      *)
LEMMA FlushedBytes ==
    ASSUME NEW d, NEW rec, NEW c, BytesOK(d, rec, c, c), rec.file,
           NEW new, IsClear(new)
    PROVE  BytesOK(d, new, c, c)
  <1>1. /\ IsRow(d) /\ c \in Contents /\ c.exists = d.exists /\ d.exists = TRUE
        /\ d.size = c.size /\ FileIs(d.circular, d.parts, c.gen, c.size)
    BY DEF BytesOK, EntryOK, IsRow
  <1>2. FileIs(d.circular, Over(new.parts, d.parts), c.gen, c.size)
    BY <1>1, ClearIsTransparent
  <1>3. EntryOK(d, new) /\ ~new.file
    BY ClearIsOK DEF IsClear
  <1> QED
    BY <1>1, <1>2, <1>3 DEF BytesOK

-----------------------------------------------------------------------------
(* The entry of whoever has pinned it is the file's.                       *)
LEMMA MineIsCurrent ==
    ASSUME FileInv, NEW u \in Goroutines, Pinned(u), UNCHANGED cacheKey
    PROVE  /\ Mine(u) = Current
           /\ \A rec : SetMine(u, rec) => Current' = rec
           /\ UNCHANGED entry => Current' = Current
  <1>1. u \in Active
    BY DEF Pinned, Active
  <1>2. user[u].entry = cacheKey /\ cacheKey \in Entries /\ cacheKey # 0
    BY <1>1 DEF FileInv, UsersInv, PinsInv, OneEntry, Active
  <1>3. entry = [f \in Entries |-> entry[f]]
    BY DEF FileInv, EntriesInv
  <1>4. \A rec : SetMine(u, rec) => entry'[cacheKey'] = rec
    BY <1>2, <1>3 DEF SetMine
  <1> QED
    BY <1>2, <1>4 DEF Mine, Current

(* Pins are not bytes.                                                     *)
LEMMA PinKeepsBytes ==
    ASSUME FileInv, BytesInv, NEW u \in Goroutines, PinEntry(u)
    PROVE  BytesInv'
  <1> DEFINE e == IF cacheKey # 0 THEN cacheKey
                  ELSE CHOOSE f \in Entries : entry[f] = EmptyEntry
  <1>1. /\ cacheKey' = e /\ entry' = [entry EXCEPT ![e].pins = @ + 1]
        /\ UNCHANGED <<db, content, saved, nContents>>
    BY DEF PinEntry
  <1>2. /\ cacheKey \in Entries \cup {0} /\ entry = [f \in Entries |-> entry[f]]
        /\ \A f \in Entries : IsEntry(entry[f])
        /\ \A f \in Entries : f # cacheKey => entry[f] = EmptyEntry
    BY DEF FileInv, UsersInv, EntriesInv
  <1>3. e \in Entries /\ e # 0 /\ entry[e] = Current
    <2>1. CASE cacheKey # 0
      BY <1>2, <2>1 DEF Current, Entries
    <2>2. CASE cacheKey = 0
      <3>1. 1 \in Entries /\ entry[1] = EmptyEntry
        BY <1>2, <2>2 DEF Entries
      <3>2. e \in Entries /\ entry[e] = EmptyEntry
        BY <2>2, <3>1
      <3> HIDE DEF e
      <3> QED
        BY <2>2, <3>2 DEF Current, Entries
    <2> QED
      BY <2>1, <2>2
  <1> HIDE DEF e
  <1>4. Current' = [entry[e] EXCEPT !.pins = @ + 1]
    BY <1>1, <1>2, <1>3 DEF Current
  <1>5. Current'.file = Current.file /\ Current'.size = Current.size
        /\ Current'.parts = Current.parts
    BY <1>2, <1>3, <1>4 DEF IsEntry
  <1>6. BytesOK(db, Current', content, saved)
    BY <1>5, SameBytes DEF BytesInv
  <1> QED
    BY <1>1, <1>6 DEF BytesInv

(* Unpinning drops the entry only when it holds nothing.                   *)
LEMMA UnpinKeepsBytes ==
    ASSUME FileInv, BytesInv, NEW u \in Goroutines, UnpinEntryAndTryDelete(u)
    PROVE  BytesInv'
  <1>1. UNCHANGED <<db, content, saved, nContents>>
    BY DEF UnpinEntryAndTryDelete
  <1>2. /\ cacheKey \in Entries \cup {0} /\ entry = [f \in Entries |-> entry[f]]
        /\ \A f \in Entries : IsEntry(entry[f])
    BY DEF FileInv, UsersInv, EntriesInv
  <1>3. CASE UNCHANGED <<cacheKey, entry>>
    <2>1. Current' = Current
      BY <1>3 DEF Current
    <2> QED
      BY <1>1, <2>1 DEF BytesInv
  <1>4. CASE cacheKey # 0 /\ TryDelete(cacheKey) /\ cacheKey' = 0
    <2>1. ~Current.file
      BY <1>4 DEF Current, TryDelete
    <2>2. Current' = EmptyEntry
      BY <1>4 DEF Current
    <2>3. BytesOK(db, EmptyEntry, content, saved)
      BY <2>1, ClearedIsClear, DroppedBytes DEF BytesInv
    <2> QED
      BY <1>1, <2>2, <2>3 DEF BytesInv
  <1>5. CASE /\ cacheKey # 0 /\ entry' = [entry EXCEPT ![cacheKey].pins = @ - 1]
             /\ UNCHANGED cacheKey
    <2>1. cacheKey \in Entries /\ Current = entry[cacheKey]
      BY <1>2, <1>5 DEF Current
    <2>2. Current' = [entry[cacheKey] EXCEPT !.pins = @ - 1]
      BY <1>2, <1>5, <2>1 DEF Current
    <2>3. Current'.file = Current.file /\ Current'.size = Current.size
          /\ Current'.parts = Current.parts
      BY <1>2, <2>1, <2>2 DEF IsEntry
    <2>4. BytesOK(db, Current', content, saved)
      BY <2>3, SameBytes DEF BytesInv
    <2> QED
      BY <1>1, <2>4 DEF BytesInv
  <1> QED
    BY <1>3, <1>4, <1>5 DEF UnpinEntryAndTryDelete

(* A flush of an entry that holds held, however it ends.                   *)
LEMMA FlushKeepsBytes ==
    ASSUME FileInv, NEW u \in Goroutines, Pinned(u), UNCHANGED cacheKey,
           NEW rec, IsEntry(rec), rec.file, NEW held, BytesOK(db, rec, held, saved),
           \/ FlushSucceeds(u, rec, FALSE, held)
           \/ /\ FlushSucceeds(u, rec, TRUE, held)
              /\ FileIs(db.circular, rec.parts, held.gen, held.size)
           \/ FlushFails(u, rec, held)
           \/ FlushCutShort(u, rec, FALSE, held)
           \/ /\ FlushCutShort(u, rec, TRUE, held)
              /\ FileIs(db.circular, rec.parts, held.gen, held.size)
    PROVE  BytesOK(db', Current', content', saved')
  <1>1. IsClear(Cleared(rec))
    BY ClearedIsClear
  <1>2. \A new : SetMine(u, new) => Current' = new
    BY MineIsCurrent
  <1>3. ASSUME NEW replace \in BOOLEAN, db' = DbAfter(rec, replace),
               content' = held, saved' = held,
               SetMine(u, Cleared(rec)) \/ SetMine(u, rec),
               replace => FileIs(db.circular, rec.parts, held.gen, held.size)
        PROVE  BytesOK(db', Current', content', saved')
    <2>1. Current' = Cleared(rec) \/ Current' = rec
      BY <1>2, <1>3
    <2>2. db' = [db EXCEPT !.size = rec.size,
                           !.parts = IF replace THEN rec.parts ELSE Over(rec.parts, @)]
      BY <1>3 DEF DbAfter
    <2>3. BytesOK([db EXCEPT !.size = rec.size,
                             !.parts = IF replace THEN rec.parts ELSE Over(rec.parts, @)],
                  rec, held, held)
      BY <1>3, WrittenBytes
    <2>4. BytesOK(db', rec, held, held)
      BY <2>2, <2>3
    <2>5. BytesOK(db', Cleared(rec), held, held)
      BY <1>1, <2>4, FlushedBytes
    <2> QED
      BY <1>3, <2>1, <2>4, <2>5
  <1>4. CASE SetMine(u, Cleared(rec)) /\ content' = saved /\ UNCHANGED <<db, saved>>
    <2>1. Current' = Cleared(rec)
      BY <1>2, <1>4
    <2>2. BytesOK(db, Cleared(rec), saved, saved)
      BY <1>1, LostBytes
    <2> QED
      BY <1>4, <2>1, <2>2
  <1>5. CASE /\ SetMine(u, [rec EXCEPT !.errors = @ + 1]) /\ content' = held
             /\ UNCHANGED <<db, saved>>
    <2> DEFINE new == [rec EXCEPT !.errors = @ + 1]
    <2>1. Current' = new
      BY <1>2, <1>5
    <2>2. new.file = rec.file /\ new.size = rec.size /\ new.parts = rec.parts
      BY DEF IsEntry
    <2> HIDE DEF new
    <2>3. BytesOK(db, new, held, saved)
      BY <2>2, SameBytes
    <2> QED
      BY <1>5, <2>1, <2>3
  <1>6. CASE SetMine(u, rec) /\ content' = held /\ UNCHANGED <<db, saved>>
    <2>1. Current' = rec
      BY <1>2, <1>6
    <2> QED
      BY <1>6, <2>1
  <1>7. CASE FlushSucceeds(u, rec, FALSE, held)
    BY <1>3, <1>7 DEF FlushSucceeds
  <1>8. CASE /\ FlushSucceeds(u, rec, TRUE, held)
             /\ FileIs(db.circular, rec.parts, held.gen, held.size)
    BY <1>3, <1>8 DEF FlushSucceeds
  <1>9. CASE FlushCutShort(u, rec, FALSE, held)
    BY <1>3, <1>6, <1>9 DEF FlushCutShort
  <1>10. CASE /\ FlushCutShort(u, rec, TRUE, held)
              /\ FileIs(db.circular, rec.parts, held.gen, held.size)
    BY <1>3, <1>6, <1>10 DEF FlushCutShort
  <1> QED
    BY <1>4, <1>5, <1>7, <1>8, <1>9, <1>10 DEF FlushFails

LEMMA MakeFileKeepsBytes ==
    ASSUME FileInv, BytesInv, NEW u \in Goroutines, MakeFile(u)
    PROVE  BytesInv'
  <1>1. /\ Pinned(u) /\ UNCHANGED <<cacheKey, entry>> /\ ~Mine(u).file
        /\ nContents' = nContents + 1
        /\ content' = [exists |-> TRUE, gen |-> nContents', size |-> 0] /\ saved' = content'
    BY DEF MakeFile, NewContent
  <1>2. PICK circular \in BOOLEAN : db' = [NoFile EXCEPT !.exists = TRUE, !.circular = circular]
    BY DEF MakeFile
  <1>3. Current' = Current /\ Mine(u) = Current
    BY <1>1, MineIsCurrent
  <1>4. ~Current.file /\ Current.size \in Nat /\ Current.parts = << >> /\ PartsOK(Current.parts)
        /\ Current.file \in BOOLEAN
    BY <1>1, <1>3 DEF BytesInv, BytesOK, EntryOK
  <1>5. nContents' \in Nat /\ content' \in Contents
    BY <1>1 DEF BytesInv, Contents
  <1>6. /\ IsRow(db') /\ db'.exists = TRUE /\ db'.size = 0 /\ db'.parts = << >>
    BY <1>2, NoPartsOK DEF NoFile, IsRow
  <1>7. EntryOK(db', Current)
    BY <1>4, <1>6 DEF EntryOK
  <1>8. \A c, parts, gen : FileIs(c, parts, gen, 0)
    <2>1. MaxParts * PartSize \in Nat
      BY FileCacheAssumption
    <2>2. \A c : StartOf(c, 0) = 0
      BY <2>1 DEF StartOf
    <2>3. \A q : ~(q \in 0 .. 0 - 1)
      OBVIOUS
    <2> QED
      BY <2>2, <2>3 DEF FileIs
  <1>9. content'.exists = TRUE /\ content'.size = 0 /\ saved'.exists = TRUE /\ saved'.size = 0
        /\ saved' \in Contents
    BY <1>1, <1>5
  <1>10. BytesOK(db', Current, content', saved')
    BY <1>4, <1>5, <1>6, <1>7, <1>8, <1>9 DEF BytesOK
  <1> QED
    BY <1>3, <1>5, <1>10 DEF BytesInv

LEMMA DeleteFileKeepsBytes ==
    ASSUME FileInv, BytesInv, NEW u \in Goroutines, DeleteFile(u)
    PROVE  BytesInv'
  <1>1. /\ Pinned(u) /\ UNCHANGED <<cacheKey, nContents>> /\ SetMine(u, Cleared(Mine(u)))
        /\ db' = NoFile /\ content' = NoContent /\ saved' = NoContent
    BY DEF DeleteFile
  <1>2. Current' = Cleared(Mine(u)) /\ IsClear(Cleared(Mine(u)))
    BY <1>1, MineIsCurrent, ClearedIsClear
  <1>3. EntryOK(NoFile, Cleared(Mine(u)))
    BY <1>2, ClearIsOK
  <1>4. IsRow(NoFile) /\ NoFile.exists = FALSE
    BY NoPartsOK DEF NoFile, IsRow
  <1>5. NoContent \in Contents /\ NoContent.exists = FALSE
    BY DEF NoContent, Contents
  <1>6. BytesOK(NoFile, Cleared(Mine(u)), NoContent, NoContent)
    BY <1>3, <1>4, <1>5 DEF BytesOK
  <1> QED
    BY <1>1, <1>2, <1>6 DEF BytesInv

LEMMA AppendKeepsBytes ==
    ASSUME FileInv, BytesInv, NEW u \in Goroutines, AppendData(u)
    PROVE  BytesInv'
  <1> DEFINE rec == Mine(u)
             size == FileSize(rec)
  <1>1. /\ Pinned(u) /\ UNCHANGED <<cacheKey, db, saved, nContents>>
        /\ rec.file \/ db.exists
    BY DEF AppendData
  <1>2. PICK n \in 1 .. MaxFileSize :
          LET loaded == LoadDataPartsIntoCache(rec, IncompleteParts(size, n))
          IN  /\ SetMine(u, [rec EXCEPT !.file = TRUE, !.size = size + n,
                               !.parts = WriteParts(loaded, content.gen, size, n)])
              /\ content' = [content EXCEPT !.size = size + n]
    BY DEF AppendData
  <1> DEFINE loaded == LoadDataPartsIntoCache(rec, IncompleteParts(size, n))
             parts == WriteParts(loaded, content.gen, size, n)
             new == [rec EXCEPT !.file = TRUE, !.size = size + n, !.parts = parts]
  <1>3. SetMine(u, new) /\ content' = [content EXCEPT !.size = size + n]
    BY <1>2
  <1>4. rec = Current /\ Current' = new /\ IsEntry(rec)
    BY <1>1, <1>3, MineIsCurrent, MineIsEntry
  <1>5. /\ IsRow(db) /\ content \in Contents /\ saved \in Contents
        /\ content.exists = db.exists /\ saved.exists = db.exists
        /\ EntryOK(db, rec) /\ db.exists = TRUE
        /\ size = content.size
        /\ FileIs(db.circular, Over(rec.parts, db.parts), content.gen, content.size)
        /\ saved.exists => db.size = saved.size /\ FileIs(db.circular, db.parts, saved.gen, saved.size)
    <2>1. BytesOK(db, rec, content, saved)
      BY <1>4 DEF BytesInv
    <2>2. db.exists = TRUE
      BY <1>1, <2>1 DEF BytesOK, EntryOK, IsRow
    <2> HIDE DEF rec
    <2> QED
      BY <2>1, <2>2 DEF BytesOK, FileSize
  <1> HIDE DEF size
  <1>6. n \in Nat \ {0} /\ content.gen \in Nat /\ size \in Nat /\ size + n \in Nat
    BY <1>5, FileCacheAssumption DEF Contents
  <1>7. PartsOK(rec.parts) /\ PartsOK(db.parts)
    BY <1>5 DEF EntryOK, IsRow
  <1>8. Holds(Over(rec.parts, db.parts), content.gen, size)
    BY <1>5, HoldsIs
  <1>9. PartsOK(parts) /\ Holds(Over(parts, db.parts), content.gen, size + n)
    <2> HIDE DEF rec
    <2> QED
      BY <1>6, <1>7, <1>8, AppendReads
  <1> HIDE DEF parts, rec
  <1>10. new.file = TRUE /\ new.size = size + n /\ new.parts = parts
    BY <1>4 DEF IsEntry
  <1> HIDE DEF new
  <1>11. /\ content' \in Contents /\ content'.exists = content.exists
         /\ content'.gen = content.gen /\ content'.size = size + n
    BY <1>3, <1>5, <1>6 DEF Contents
  <1>12. FileIs(db.circular, Over(new.parts, db.parts), content'.gen, content'.size)
    BY <1>9, <1>10, <1>11, HoldsIs
  <1>13. EntryOK(db, new)
    BY <1>5, <1>6, <1>9, <1>10 DEF EntryOK
  <1>14. BytesOK(db, new, content', saved)
    BY <1>5, <1>10, <1>11, <1>12, <1>13 DEF BytesOK
  <1> QED
    BY <1>1, <1>4, <1>14 DEF BytesInv

LEMMA AppendFailsKeepsBytes ==
    ASSUME FileInv, BytesInv, NEW u \in Goroutines, AppendFails(u)
    PROVE  BytesInv'
  <1> DEFINE rec == Mine(u)
             new == [rec EXCEPT !.file = TRUE, !.size = FileSize(rec)]
  <1>1. /\ Pinned(u) /\ UNCHANGED <<cacheKey, db, content, saved, nContents>>
        /\ rec.file \/ db.exists
        /\ SetMine(u, new)
    BY DEF AppendFails
  <1>2. rec = Current /\ Current' = new /\ IsEntry(rec)
    BY <1>1, MineIsCurrent, MineIsEntry
  <1>3. BytesOK(db, rec, content, saved)
    BY <1>2 DEF BytesInv
  <1> HIDE DEF rec
  <1>4. new.file = TRUE /\ new.size = FileSize(rec) /\ new.parts = rec.parts
    BY <1>2 DEF IsEntry
  <1> HIDE DEF new
  <1>5. FileSize(rec) \in Nat /\ db.exists = TRUE
    BY <1>1, <1>3 DEF BytesOK, EntryOK, IsRow, FileSize
  <1>6. EntryOK(db, new)
    BY <1>3, <1>4, <1>5 DEF BytesOK, EntryOK
  <1>7. BytesOK(db, new, content, saved)
    BY <1>3, <1>4, <1>6 DEF BytesOK, FileSize
  <1> QED
    BY <1>1, <1>2, <1>7 DEF BytesInv

(* A rewritten entry holds the new content, over any other.                *)
LEMMA RewrittenBytes ==
    ASSUME NEW rec, IsEntry(rec), NEW n \in Nat, NEW c \in Contents, BytesInv, db.exists = TRUE,
           NEW held, held = [c EXCEPT !.size = n], c.exists = db.exists
    PROVE  LET new == Rewritten(rec, c.gen, n)
           IN  /\ IsEntry(new) /\ new.file = TRUE
               /\ FileIs(db.circular, new.parts, held.gen, held.size)
               /\ BytesOK(db, new, held, saved)
  <1> DEFINE parts == WriteParts(<< >>, c.gen, 0, n)
             new == Rewritten(rec, c.gen, n)
  <1>1. c.gen \in Nat
    BY DEF Contents
  <1>2. PartsOK(parts) /\ Holds(parts, c.gen, n) /\ Holds(Over(parts, db.parts), c.gen, n)
    BY <1>1, RewriteReads
  <1>3. FileIs(db.circular, parts, c.gen, n) /\ FileIs(db.circular, Over(parts, db.parts), c.gen, n)
    BY <1>2, HoldsIs
  <1>4. new = [rec EXCEPT !.file = TRUE, !.size = n, !.parts = parts]
    BY DEF Rewritten
  <1> HIDE DEF parts, new
  <1>5. IsEntry(new) /\ new.file = TRUE /\ new.size = n /\ new.parts = parts
    BY <1>4 DEF IsEntry
  <1>6. held \in Contents /\ held.exists = db.exists /\ held.gen = c.gen /\ held.size = n
    BY DEF Contents
  <1>7. EntryOK(db, new)
    BY <1>2, <1>5 DEF EntryOK
  <1>8. BytesOK(db, new, held, saved)
    BY <1>3, <1>5, <1>6, <1>7 DEF BytesInv, BytesOK
  <1> QED
    BY <1>3, <1>5, <1>6, <1>8 DEF new

LEMMA WriteFileKeepsBytes ==
    ASSUME FileInv, BytesInv, NEW u \in Goroutines, WriteFile(u)
    PROVE  BytesInv'
  <1>1. /\ Pinned(u) /\ UNCHANGED cacheKey
        /\ Mine(u).file \/ db.exists
        /\ nContents' = nContents + 1
    BY DEF WriteFile, NewContent
  <1>2. PICK n \in 0 .. MaxFileSize :
          LET held == [content EXCEPT !.gen = nContents + 1, !.size = n]
              rec == Rewritten(Mine(u), held.gen, n)
          IN  Flush(u, rec, TRUE, held)
    BY DEF WriteFile
  <1> DEFINE c == [content EXCEPT !.gen = nContents + 1]
             held == [content EXCEPT !.gen = nContents + 1, !.size = n]
             rec == Rewritten(Mine(u), c.gen, n)
  <1>3. /\ Mine(u) = Current /\ IsEntry(Mine(u))
    <2> HIDE DEF c, held, rec
    <2> QED
      BY <1>1, MineIsCurrent, MineIsEntry
  <1>4. db.exists = TRUE /\ content \in Contents /\ content.exists = db.exists
    BY <1>1, <1>3 DEF BytesInv, BytesOK, EntryOK, IsRow
  <1>5. /\ c \in Contents /\ c.exists = db.exists /\ held = [c EXCEPT !.size = n]
        /\ held.gen = c.gen /\ nContents + 1 \in Nat
    BY <1>4 DEF BytesInv, Contents
  <1>6. n \in Nat
    BY FileCacheAssumption
  <1>7. Flush(u, rec, TRUE, held)
    BY <1>2, <1>5
  <1> HIDE DEF c, held
  <1>8. /\ IsEntry(rec) /\ rec.file = TRUE
        /\ FileIs(db.circular, rec.parts, held.gen, held.size)
        /\ BytesOK(db, rec, held, saved)
    BY <1>3, <1>4, <1>5, <1>6, RewrittenBytes
  <1> HIDE DEF rec
  <1>9. BytesOK(db', Current', content', saved')
    BY <1>1, <1>7, <1>8, FlushKeepsBytes DEF Flush
  <1> QED
    BY <1>1, <1>5, <1>9 DEF BytesInv

LEMMA CompactIJsonKeepsBytes ==
    ASSUME FileInv, BytesInv, NEW u \in Goroutines, CompactIJson(u)
    PROVE  BytesInv'
  <1>1. /\ Pinned(u) /\ UNCHANGED <<cacheKey, db, saved>>
        /\ Mine(u).file \/ db.exists
        /\ nContents' = nContents + 1
    BY DEF CompactIJson, NewContent
  <1>2. PICK n \in 0 .. FileSize(Mine(u)) :
          /\ content' = [content EXCEPT !.gen = nContents + 1, !.size = n]
          /\ SetMine(u, Rewritten(Mine(u), nContents + 1, n))
    BY DEF CompactIJson
  <1> DEFINE c == [content EXCEPT !.gen = nContents + 1]
             rec == Rewritten(Mine(u), nContents + 1, n)
  <1>3. /\ Mine(u) = Current /\ IsEntry(Mine(u)) /\ Current' = rec
    <2>1. SetMine(u, rec)
      BY <1>2
    <2> HIDE DEF c, rec
    <2> QED
      BY <1>1, <2>1, MineIsCurrent, MineIsEntry
  <1>4. /\ db.exists = TRUE /\ content \in Contents /\ content.exists = db.exists
        /\ FileSize(Mine(u)) \in Nat
    BY <1>1, <1>3 DEF BytesInv, BytesOK, EntryOK, IsRow, FileSize
  <1>5. /\ c \in Contents /\ c.exists = db.exists /\ content' = [c EXCEPT !.size = n]
        /\ c.gen = nContents + 1 /\ nContents + 1 \in Nat
    BY <1>2, <1>4 DEF BytesInv, Contents
  <1>6. n \in Nat
    BY <1>4
  <1> HIDE DEF c
  <1>7. BytesOK(db, rec, content', saved)
    BY <1>3, <1>4, <1>5, <1>6, RewrittenBytes
  <1> HIDE DEF rec
  <1> QED
    BY <1>1, <1>3, <1>5, <1>7 DEF BytesInv

LEMMA FlusherKeepsBytes ==
    ASSUME FileInv, BytesInv, FlushToDB
    PROVE  BytesInv'
  <1>1. /\ Flusher \in Goroutines /\ Pinned(Flusher) /\ UNCHANGED <<cacheKey, nContents>>
    BY DEF FlushToDB, Goroutines
  <1>2. /\ Mine(Flusher) = Current /\ IsEntry(Mine(Flusher))
        /\ UNCHANGED entry => Current' = Current
    BY <1>1, MineIsCurrent, MineIsEntry
  <1>3. CASE UNCHANGED <<entry, db, content, saved>>
    BY <1>1, <1>2, <1>3 DEF BytesInv
  <1>4. CASE /\ Mine(Flusher).file
             /\ Flush(Flusher, Mine(Flusher), FALSE, content)
    <2> DEFINE rec == Mine(Flusher)
    <2>1. BytesOK(db, rec, content, saved) /\ IsEntry(rec) /\ rec.file
      BY <1>2, <1>4 DEF BytesInv
    <2>2. Flush(Flusher, rec, FALSE, content)
      BY <1>4
    <2> HIDE DEF rec
    <2>3. BytesOK(db', Current', content', saved')
      BY <1>1, <2>1, <2>2, FlushKeepsBytes DEF Flush
    <2> QED
      BY <1>1, <2>3 DEF BytesInv
  <1> QED
    BY <1>3, <1>4 DEF FlushToDB

LEMMA CrashKeepsBytes ==
    ASSUME BytesInv, FileCrash
    PROVE  BytesInv'
  <1>1. /\ Current' = EmptyEntry /\ content' = saved /\ UNCHANGED <<db, saved, nContents>>
    BY DEF FileCrash, Current
  <1>2. BytesOK(db, EmptyEntry, saved, saved)
    BY ClearedIsClear, LostBytes DEF BytesInv
  <1> QED
    BY <1>1, <1>2 DEF BytesInv

LEMMA BytesInvInit ==
    ASSUME FileInit
    PROVE  BytesInv
  <1>1. Current = EmptyEntry /\ db = NoFile /\ content = NoContent /\ saved = NoContent
        /\ nContents = 0
    BY DEF FileInit, Current
  <1>2. EntryOK(NoFile, EmptyEntry)
    BY ClearedIsClear, ClearIsOK
  <1>3. IsRow(NoFile) /\ NoFile.exists = FALSE
    BY NoPartsOK DEF NoFile, IsRow
  <1>4. NoContent \in Contents /\ NoContent.exists = FALSE
    BY DEF NoContent, Contents
  <1> QED
    BY <1>1, <1>2, <1>3, <1>4 DEF BytesInv, BytesOK

LEMMA BytesInvNext ==
    ASSUME FileInv, BytesInv, [FileNext]_fileVars
    PROVE  BytesInv'
  <1>1. CASE FlusherPins
    BY <1>1, PinKeepsBytes DEF FlusherPins, Goroutines
  <1>2. CASE FlushToDB
    BY <1>2, FlusherKeepsBytes
  <1>3. CASE FileCrash
    BY <1>3, CrashKeepsBytes
  <1>4. ASSUME NEW u \in Goroutines, GetEntryAndPin(u)
        PROVE  BytesInv'
    BY <1>4, PinKeepsBytes DEF GetEntryAndPin
  <1>5. ASSUME NEW u \in Goroutines,
               \/ UnpinEntryAndTryDelete(u)
               \/ MakeFile(u) \/ DeleteFile(u) \/ AppendData(u) \/ AppendFails(u)
               \/ WriteFile(u) \/ CompactIJson(u)
        PROVE  BytesInv'
    BY <1>5, UnpinKeepsBytes, MakeFileKeepsBytes, DeleteFileKeepsBytes, AppendKeepsBytes,
       AppendFailsKeepsBytes, WriteFileKeepsBytes, CompactIJsonKeepsBytes
  <1>6. CASE UNCHANGED fileVars
    BY <1>6 DEF fileVars, BytesInv, Current
  <1> QED
    BY <1>1, <1>2, <1>3, <1>4, <1>5, <1>6 DEF FileNext

(* Cache and database together, and the database by itself, are what they  *)
(* should be.                                                              *)
THEOREM FileBytesInvariant == FileSpec => []BytesInv
  <1>1. FileInit => BytesInv
    BY BytesInvInit
  <1>2. FileInv /\ BytesInv /\ [FileNext]_fileVars => BytesInv'
    BY BytesInvNext
  <1> QED
    BY <1>1, <1>2, PinsCountUsers, PTL DEF FileSpec

(* A reader sees the bytes that were written, each at its place, however   *)
(* appends, rewrites, failed flushes and deaths of the server have left    *)
(* the parts spread over cache and database, for any sizes.                *)
THEOREM FileReadsBack == FileSpec => []ReadsBack
  <1>1. BytesInv => ReadsBack
    BY BytesInvShows
  <1> QED
    BY <1>1, FileBytesInvariant, PTL

(* The database by itself holds what was flushed last, whole.              *)
THEOREM DatabaseHoldsSaved == FileSpec => []DiskHoldsSaved
  <1>1. BytesInv => DiskHoldsSaved
    BY BytesInvShows
  <1> QED
    BY <1>1, FileBytesInvariant, PTL
=============================================================================
