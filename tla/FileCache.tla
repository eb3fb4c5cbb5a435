----------------------------- MODULE FileCache -----------------------------
(***************************************************************************)
(* One file of the block store (pkg/filestore): a write-back cache entry   *)
(* over the database.  Operations pin the entry, work on it under its      *)
(* lock, and unpin it; the flusher is one more of them.  A file is a size  *)
(* and parts of equal length; a circular file reuses its parts and keeps   *)
(* its newest bytes.  The main server may die and lose what only the cache *)
(* holds.                                                                  *)
(*                                                                         *)
(* A byte is named by the generation of the content it belongs to (a file  *)
(* made or rewritten starts a new one) and its position, so one that is    *)
(* stale or out of place shows.  FileStore.WriteAt, which no caller uses,  *)
(* is left out, and so is the file's metadata.                             *)
(***************************************************************************)
EXTENDS Naturals, Sequences, FiniteSetsExt

CONSTANTS
    Users,        \* goroutines that use the file
    PartSize,     \* partDataSize
    MaxParts,     \* parts of a circular file (Opts.MaxSize / partDataSize)
    FlushErrors,  \* failed flushes an entry survives (3 in the code)
    MaxFileSize,  \* bound on the file's size
    Generations,  \* bound on contents
    FileFaults    \* bound on failed writes to the database and on crashes

ASSUME FileCacheAssumption ==
    /\ PartSize \in Nat \ {0} /\ MaxParts \in Nat \ {0}
    /\ FlushErrors \in Nat /\ MaxFileSize \in Nat /\ Generations \in Nat
    /\ FileFaults \in Nat

VARIABLES
    cacheKey,     \* FileStore.Cache of the file's key: an entry, 0 for none
    entry,        \* of each entry: its pins, whether File is set, its size and
                  \* parts, failed flushes
    db,           \* the file's row and parts
    user,         \* where each user is, on which entry
    content,      \* history: what the file holds: generation, size
    saved,        \* history: what it held when last written to the database
    nContents,    \* contents so far
    nFaults       \* faults so far

fileVars == <<cacheKey, entry, db, user, content, saved, nContents, nFaults>>

Flusher == "flusher"
Goroutines == Users \cup {Flusher}
Entries == 1 .. 2
Byte(gen, pos) == gen * 100 + pos + 1   \* 0 is the filling of a gap
EmptyEntry == [pins |-> 0, file |-> FALSE, size |-> 0, parts |-> << >>, errors |-> 0]
NoFile == [exists |-> FALSE, circular |-> FALSE, size |-> 0, parts |-> << >>]
NoContent == [exists |-> FALSE, gen |-> 0, size |-> 0]
NotThere == [at |-> "idle", entry |-> 0]

FileInit ==
    /\ cacheKey = 0 /\ entry = [e \in Entries |-> EmptyEntry]
    /\ db = NoFile
    /\ user = [u \in Goroutines |-> NotThere]
    /\ content = NoContent
    /\ saved = content
    /\ nContents = 0 /\ nFaults = 0

NewContent == nContents < Generations /\ nContents' = nContents + 1
Fault == nFaults < FileFaults /\ nFaults' = nFaults + 1

-----------------------------------------------------------------------------
(* Parts.                                                                  *)

(* Parts laid over others: the first of those that have a part counts.     *)
Over(upper, lower) ==
    [i \in DOMAIN upper \cup DOMAIN lower |->
        IF i \in DOMAIN upper THEN upper[i] ELSE lower[i]]

PartIdxAtOffset(off) ==
    IF db.circular THEN (off \div PartSize) % MaxParts ELSE off \div PartSize

(* computePartMap and incompletePartsFromMap: a part that is written twice *)
(* by one call counts with its last writing.                               *)
IncompleteParts(off, n) ==
    LET blocks == (off \div PartSize) .. ((off + n - 1) \div PartSize)
        Amount(b) == Min({off + n, (b + 1) * PartSize}) - Max({off, b * PartSize})
        LastOf(b) == Max({d \in blocks : PartIdxAtOffset(d * PartSize) =
                                         PartIdxAtOffset(b * PartSize)})
    IN  {PartIdxAtOffset(b * PartSize) : b \in {d \in blocks : Amount(LastOf(d)) # PartSize}}

(* writeAt on parts: the data of n bytes at off, of which a circular file  *)
(* takes the last.                                                         *)
WriteParts(parts, gen, off, n) ==
    LET room == MaxParts * PartSize
        first == IF db.circular /\ n > room THEN off + n - room ELSE off
        written == first .. (off + n - 1)
        Slots(i) == {q \in written : PartIdxAtOffset(q) = i}
        Old(i) == IF i \in DOMAIN parts THEN parts[i] ELSE << >>
        Part(i) ==
            [k \in 1 .. Max({Len(Old(i))} \cup {(q % PartSize) + 1 : q \in Slots(i)}) |->
               IF \E q \in Slots(i) : q % PartSize = k - 1
               THEN Byte(gen, CHOOSE q \in Slots(i) : q % PartSize = k - 1)
               ELSE IF k <= Len(Old(i)) THEN Old(i)[k] ELSE 0]
        touched == {PartIdxAtOffset(q) : q \in written}
    IN  Over([i \in touched |-> Part(i)], parts)

(* readAt: a byte of the file, from the cache where it has the part, from  *)
(* the database otherwise.                                                 *)
PartByte(parts, q) ==
    LET i == PartIdxAtOffset(q)
    IN  IF i \in DOMAIN parts /\ q % PartSize < Len(parts[i])
        THEN parts[i][(q % PartSize) + 1] ELSE 0

DataStartIdx(size) ==
    IF db.circular /\ size > MaxParts * PartSize THEN size - MaxParts * PartSize ELSE 0

-----------------------------------------------------------------------------
(* getEntryAndPin and unpinEntryAndTryDelete, under the store's lock.      *)

PinEntry(u) ==
    LET e == IF cacheKey # 0 THEN cacheKey
             ELSE CHOOSE f \in Entries : entry[f] = EmptyEntry
    IN  /\ user[u].at = "idle"
        /\ cacheKey' = e
        /\ entry' = [entry EXCEPT ![e].pins = @ + 1]
        /\ user' = [user EXCEPT ![u] = [at |-> "pinned", entry |-> e]]
        /\ UNCHANGED <<db, content, saved, nContents, nFaults>>

GetEntryAndPin(u) == u # Flusher /\ PinEntry(u)

(* FlushCache, for an entry that its scan found dirty.                     *)
FlusherPins == cacheKey # 0 /\ entry[cacheKey].file /\ PinEntry(Flusher)

NothingDirty(e) == ~entry[e].file

TryDelete(e) == entry[e].pins <= 1 /\ ~entry[e].file

UnpinEntryAndTryDelete(u) ==
    /\ user[u].at = "worked"
    /\ user' = [user EXCEPT ![u] = NotThere]
    /\ IF cacheKey = 0 THEN UNCHANGED <<cacheKey, entry>>
       ELSE IF TryDelete(cacheKey)
       THEN cacheKey' = 0 /\ entry' = [entry EXCEPT ![cacheKey] = EmptyEntry]
       ELSE entry' = [entry EXCEPT ![cacheKey].pins = @ - 1] /\ UNCHANGED cacheKey
    /\ UNCHANGED <<db, content, saved, nContents, nFaults>>

-----------------------------------------------------------------------------
(* What a user does under the entry's lock.                                *)

Pinned(u) == user[u].at = "pinned"
Worked(u) == user' = [user EXCEPT ![u].at = "worked"]
Mine(u) == entry[user[u].entry]
SetMine(u, rec) == entry' = [entry EXCEPT ![user[u].entry] = rec]
Cleared(rec) == [EmptyEntry EXCEPT !.pins = rec.pins]
FileSize(rec) == IF rec.file THEN rec.size ELSE db.size

MakeFile(u) ==
    /\ Pinned(u) /\ u # Flusher
    /\ ~Mine(u).file /\ ~db.exists
    /\ NewContent
    /\ \E circular \in BOOLEAN : db' = [NoFile EXCEPT !.exists = TRUE, !.circular = circular]
    /\ content' = [exists |-> TRUE, gen |-> nContents', size |-> 0]
    /\ saved' = content'
    /\ Worked(u)
    /\ UNCHANGED <<cacheKey, entry, nFaults>>

DeleteFile(u) ==
    /\ Pinned(u) /\ u # Flusher
    /\ db' = NoFile
    /\ SetMine(u, Cleared(Mine(u)))
    /\ content' = NoContent /\ saved' = NoContent
    /\ Worked(u)
    /\ UNCHANGED <<cacheKey, nContents, nFaults>>

LoadNothing(rec, wanted) == rec.parts

LoadDataPartsIntoCache(rec, wanted) ==
    Over(rec.parts, [i \in wanted \cap DOMAIN db.parts |-> db.parts[i]])

AppendData(u) ==
    /\ Pinned(u) /\ u # Flusher
    /\ Mine(u).file \/ db.exists
    /\ \E n \in 1 .. MaxFileSize :
         LET size == FileSize(Mine(u))
             loaded == LoadDataPartsIntoCache(Mine(u), IncompleteParts(size, n))
         IN  /\ size + n <= MaxFileSize
             /\ SetMine(u, [Mine(u) EXCEPT
                              !.file = TRUE, !.size = size + n,
                              !.parts = WriteParts(loaded, content.gen, size, n)])
             /\ content' = [content EXCEPT !.size = size + n]
    /\ Worked(u)
    /\ UNCHANGED <<cacheKey, db, saved, nContents, nFaults>>

(* A part cannot be read: the file stays in the cache, unchanged.          *)
AppendFails(u) ==
    /\ Pinned(u) /\ u # Flusher
    /\ Mine(u).file \/ db.exists
    /\ Fault
    /\ SetMine(u, [Mine(u) EXCEPT !.file = TRUE, !.size = FileSize(Mine(u))])
    /\ Worked(u)
    /\ UNCHANGED <<cacheKey, db, content, saved, nContents>>

(* writeAt with replace, of content rec.                                   *)
Rewritten(rec, gen, n) ==
    [rec EXCEPT !.file = TRUE, !.size = n, !.parts = WriteParts(<< >>, gen, 0, n)]

DbReplaced(rec, replace) == [db EXCEPT !.size = rec.size, !.parts = rec.parts]

(* flushToDB.                                                              *)
DbAfter(rec, replace) ==
    [db EXCEPT !.size = rec.size, !.parts = IF replace THEN rec.parts ELSE Over(rec.parts, @)]

FlushSucceeds(u, rec, replace, held) ==
    /\ db' = DbAfter(rec, replace)
    /\ SetMine(u, Cleared(rec))
    /\ content' = held /\ saved' = held
    /\ UNCHANGED nFaults

FlushFails(u, rec, held) ==
    /\ Fault
    /\ IF rec.errors + 1 > FlushErrors
       THEN SetMine(u, Cleared(rec)) /\ content' = saved
       ELSE SetMine(u, [rec EXCEPT !.errors = @ + 1]) /\ content' = held
    /\ UNCHANGED <<db, saved>>

(* The context ended, before the transaction did or after: no error is     *)
(* counted and the entry stays.                                            *)
FlushCutShort(u, rec, replace, held) ==
    /\ Fault
    /\ SetMine(u, rec) /\ content' = held
    /\ \/ db' = DbAfter(rec, replace) /\ saved' = held
       \/ UNCHANGED <<db, saved>>

Flush(u, rec, replace, held) ==
    \/ FlushSucceeds(u, rec, replace, held)
    \/ FlushFails(u, rec, held)
    \/ FlushCutShort(u, rec, replace, held)

(* WriteFile, which flushes at once.                                       *)
WriteFile(u) ==
    /\ Pinned(u) /\ u # Flusher
    /\ Mine(u).file \/ db.exists
    /\ NewContent
    /\ \E n \in 0 .. MaxFileSize :
         LET held == [content EXCEPT !.gen = nContents + 1, !.size = n]
             rec == Rewritten(Mine(u), held.gen, n)
         IN  Flush(u, rec, TRUE, held)
    /\ Worked(u)
    /\ UNCHANGED cacheKey

(* CompactIJson, which does not.                                           *)
CompactIJson(u) ==
    /\ Pinned(u) /\ u # Flusher
    /\ Mine(u).file \/ db.exists
    /\ ~db.circular
    /\ NewContent
    /\ \E n \in 0 .. FileSize(Mine(u)) :
         /\ content' = [content EXCEPT !.gen = nContents + 1, !.size = n]
         /\ SetMine(u, Rewritten(Mine(u), nContents + 1, n))
    /\ Worked(u)
    /\ UNCHANGED <<cacheKey, db, saved, nFaults>>

FlushToDB ==
    /\ Pinned(Flusher)
    /\ IF ~Mine(Flusher).file THEN UNCHANGED <<entry, db, content, saved, nFaults>>
       ELSE Flush(Flusher, Mine(Flusher), FALSE, content)
    /\ Worked(Flusher)
    /\ UNCHANGED <<cacheKey, nContents>>

(* The main server dies and starts again.                                  *)
FileCrash ==
    /\ Fault
    /\ cacheKey' = 0 /\ entry' = [e \in Entries |-> EmptyEntry]
    /\ user' = [u \in Goroutines |-> NotThere]
    /\ content' = saved
    /\ UNCHANGED <<db, saved, nContents>>

FileNext ==
    \/ FlusherPins \/ FlushToDB \/ FileCrash
    \/ \E u \in Goroutines :
         \/ GetEntryAndPin(u) \/ UnpinEntryAndTryDelete(u)
         \/ MakeFile(u) \/ DeleteFile(u) \/ AppendData(u) \/ AppendFails(u)
         \/ WriteFile(u) \/ CompactIJson(u)

FileSpec == FileInit /\ [][FileNext]_fileVars

-----------------------------------------------------------------------------
(* Who has pinned the entry works on the entry of the file, and is not     *)
(* left with one the cache has dropped: two entries for one file would     *)
(* lose each other's writes.                                               *)
OneEntry ==
    \A u \in Goroutines : user[u].at # "idle" => user[u].entry = cacheKey

Current == IF cacheKey = 0 THEN EmptyEntry ELSE entry[cacheKey]

(* Through cache and database together a reader sees the bytes that were   *)
(* written, each at its place, however appends, rewrites, flushes that     *)
(* fail and deaths of the server left the parts spread over the two.       *)
ReadsBack ==
    content.exists =>
        /\ FileSize(Current) = content.size
        /\ \A q \in DataStartIdx(content.size) .. content.size - 1 :
             PartByte(Over(Current.parts, db.parts), q) = Byte(content.gen, q)

(* The database alone holds the content last flushed, whole: the file is   *)
(* not half one content and half another after a restart.                  *)
DiskHoldsSaved ==
    /\ db.exists = saved.exists
    /\ saved.exists =>
        /\ db.size = saved.size
        /\ \A q \in DataStartIdx(saved.size) .. saved.size - 1 :
             PartByte(db.parts, q) = Byte(saved.gen, q)
=============================================================================
