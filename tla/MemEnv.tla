-------------------------------- MODULE MemEnv --------------------------------
(***************************************************************************)
(* InMemoryEnv: a map from names to reference counted files, and the open   *)
(* files of the program.  A file is [size, blocks, refs]; the byte that     *)
(* belongs at offset i of a file has the value i + 1, so a byte in the      *)
(* wrong place shows, and 0 is a byte of a block that was never written.    *)
(* A name may be in the map with no file, Null.                             *)
(***************************************************************************)
EXTENDS Naturals, Sequences, FiniteSets, FiniteSetsExt, Functions

CONSTANTS Names,
          MaxFiles,     \* bound on the files ever created
          Slots,        \* the open files a program may have
          MaxSize,      \* bound on the size of a file
          BlockSize,    \* kBlockSize
          AppendNew     \* does the program create files with NewAppendableFile()?

VARIABLES map,      \* file_map_
          files,    \* the FileStates, 1 .. number created
          open,     \* what each slot holds: [kind, file, pos]
          last,     \* the last read: [off, n, size, got]
          crashed   \* a Null was used
vars == <<map, files, open, last, crashed>>

Null == 0
Nothing == [kind |-> "none", file |-> Null, pos |-> 0]
NoRead == [off |-> 0, n |-> 0, size |-> 0, got |-> <<>>]
NewFileState == [size |-> 0, blocks |-> <<>>, refs |-> 0]

-----------------------------------------------------------------------------
\* FileState

RECURSIVE AppendOf(_, _)
AppendOf(f, n) ==
    IF n = 0 THEN f
    ELSE LET offset == f.size % BlockSize
             blocks == IF offset # 0 THEN f.blocks ELSE Append(f.blocks, [i \in 1 .. BlockSize |-> 0])
             avail == Min({BlockSize - offset, n})
         IN AppendOf([f EXCEPT !.size = @ + avail,
                               !.blocks = [blocks EXCEPT ![Len(blocks)] =
                                 [i \in 1 .. BlockSize |-> IF i \in offset + 1 .. offset + avail THEN f.size + i - offset ELSE @[i]]]],
                     n - avail)

\* Mutant: what the first block holds after the offset is copied whole.
WholeBlock(offset, n) == BlockSize - offset

\* How much of n bytes lies in the block of the offset.
InBlock(offset, n) == Min({BlockSize - offset, n})

RECURSIVE CopyOut(_, _, _, _)
CopyOut(f, block, offset, n) ==
    IF n = 0 THEN <<>>
    ELSE LET avail == InBlock(offset, n)
         IN SubSeq(f.blocks[block + 1], offset + 1, offset + avail) \o CopyOut(f, block + 1, 0, n - Min({avail, n}))

\* Past the end an error, which here is an empty result too.
ReadOf(f, off, n) ==
    LET m == Min({n, f.size - off})
    IN IF off > f.size THEN <<>> ELSE CopyOut(f, off \div BlockSize, off % BlockSize, m)

Ref(fs, f) == [fs EXCEPT ![f].refs = @ + 1]
Unref(fs, f) == [fs EXCEPT ![f].refs = @ - 1]

-----------------------------------------------------------------------------
\* Opening and closing.  A file object takes a reference, and drops it when closed.

OpenAs(fs, s, kind, f) == files' = Ref(fs, f) /\ open' = [open EXCEPT ![s] = [kind |-> kind, file |-> f, pos |-> 0]]

Crash == crashed' = TRUE /\ UNCHANGED <<map, files, open, last>>
Free(s) == open[s].kind = "none" /\ ~crashed
CanCreate == Len(files) < MaxFiles

\* NewSequentialFile() and NewRandomAccessFile(); an unknown name is an error.
NewReader(s, name, kind) ==
    /\ Free(s) /\ name \in DOMAIN map
    /\ IF map[name] = Null THEN Crash ELSE OpenAs(files, s, kind, map[name]) /\ UNCHANGED <<map, last, crashed>>

Put(mp, name, f) == [n \in DOMAIN mp \cup {name} |-> IF n = name THEN f ELSE mp[n]]
DeleteFileInternal(name) ==
    [map |-> RestrictDomain(map, LAMBDA n : n # name), files |-> IF name \in DOMAIN map THEN Unref(files, map[name]) ELSE files]

NewWritableFile(s, name) ==
    /\ Free(s) /\ CanCreate
    /\ LET d == DeleteFileInternal(name)
           f == Len(files) + 1
       IN IF name \in DOMAIN map /\ map[name] = Null THEN Crash
          ELSE /\ map' = Put(d.map, name, f)
               /\ OpenAs(Append(d.files, [NewFileState EXCEPT !.refs = 1]), s, "write", f)
               /\ UNCHANGED <<last, crashed>>

\* file_map_[fname] makes an entry; a file that is made here is not stored in it.
NewAppendableFile(s, name) ==
    /\ Free(s)
    /\ LET fresh == name \notin DOMAIN map \/ map[name] = Null
           f == IF fresh THEN Len(files) + 1 ELSE map[name]
       IN /\ fresh => AppendNew /\ CanCreate
          /\ map' = IF name \in DOMAIN map THEN map ELSE Put(map, name, Null)
          /\ OpenAs(IF fresh THEN Append(files, [NewFileState EXCEPT !.refs = 1]) ELSE files, s, "write", f)
    /\ UNCHANGED <<last, crashed>>

Close(s) ==
    /\ open[s].kind # "none" /\ ~crashed
    /\ files' = Unref(files, open[s].file) /\ open' = [open EXCEPT ![s] = Nothing]
    /\ UNCHANGED <<map, last, crashed>>

-----------------------------------------------------------------------------
\* Reading and writing an open file, and the names.

AppendTo(s, n) ==
    /\ open[s].kind = "write" /\ ~crashed /\ files[open[s].file].size + n <= MaxSize
    /\ files' = [files EXCEPT ![open[s].file] = AppendOf(@, n)]
    /\ UNCHANGED <<map, open, last, crashed>>

Observed(f, off, n) == last' = [off |-> off, n |-> n, size |-> f.size, got |-> ReadOf(f, off, n)]

SequentialRead(s, n) ==
    /\ open[s].kind = "seq" /\ ~crashed
    /\ Observed(files[open[s].file], open[s].pos, n)
    /\ open' = [open EXCEPT ![s].pos = @ + Len(last'.got)]
    /\ UNCHANGED <<map, files, crashed>>
Skip(s, n) ==
    /\ open[s].kind = "seq" /\ ~crashed /\ open[s].pos <= files[open[s].file].size
    /\ open' = [open EXCEPT ![s].pos = @ + Min({n, files[open[s].file].size - @})]
    /\ UNCHANGED <<map, files, last, crashed>>
RandomRead(s, off, n) ==
    /\ open[s].kind = "rand" /\ ~crashed
    /\ Observed(files[open[s].file], off, n)
    /\ UNCHANGED <<map, files, open, crashed>>

DeleteFile(name) ==
    /\ ~crashed /\ name \in DOMAIN map
    /\ IF map[name] = Null THEN Crash
       ELSE /\ map' = DeleteFileInternal(name).map /\ files' = DeleteFileInternal(name).files
            /\ UNCHANGED <<open, last, crashed>>

\* Mutant: a file that the target named keeps its reference.
TargetStays(target) == [map |-> RestrictDomain(map, LAMBDA n : n # target), files |-> files]

TargetGone(target) == DeleteFileInternal(target)

\* Onto itself: the file is deleted first, and with the entry made anew from
\* nothing erased at the end, the name is gone.
RenameFile(src, target) ==
    /\ ~crashed /\ src \in DOMAIN map
    /\ LET d == TargetGone(target)
       IN IF target \in DOMAIN map /\ map[target] = Null THEN Crash
          ELSE /\ map' = IF src = target THEN d.map ELSE RestrictDomain(Put(d.map, target, map[src]), LAMBDA n : n # src)
               /\ files' = d.files
               /\ UNCHANGED <<open, last, crashed>>
GetFileSize(name) == ~crashed /\ name \in DOMAIN map /\ map[name] = Null /\ Crash

Init ==
    /\ map = <<>> /\ files = <<>> /\ open = [s \in Slots |-> Nothing]
    /\ last = NoRead /\ crashed = FALSE
Next ==
    \/ \E s \in Slots, name \in Names :
         (\E kind \in {"seq", "rand"} : NewReader(s, name, kind)) \/ NewWritableFile(s, name) \/ NewAppendableFile(s, name)
    \/ \E s \in Slots : Close(s)
    \/ \E s \in Slots, n \in 1 .. MaxSize : AppendTo(s, n) \/ SequentialRead(s, n) \/ Skip(s, n)
    \/ \E s \in Slots, n \in 1 .. MaxSize, off \in 0 .. MaxSize : RandomRead(s, off, n)
    \/ \E name \in Names : DeleteFile(name) \/ GetFileSize(name)
    \/ \E src, target \in Names : RenameFile(src, target)
Spec == Init /\ [][Next]_vars

-----------------------------------------------------------------------------
\* A file has exactly one reference for its name and one per open file, so it
\* lives, deleted, replaced or renamed over, as long as someone can read it and no
\* longer: nobody reads freed memory and nothing leaks.  A file that NewAppendableFile()
\* creates has a reference too many: this is claimed without AppendNew.
RefsExact ==
    \A f \in DOMAIN files :
      files[f].refs = Cardinality({n \in DOMAIN map : map[n] = f}) + Cardinality({s \in Slots : open[s].file = f})

\* A read returns the bytes that were appended at its offset, all there are up to
\* its length, across blocks, at the end of the file and past it, until a name without
\* a file is used.
ReadExact ==
    last.got = [i \in 1 .. (IF last.off > last.size THEN 0 ELSE Min({last.n, last.size - last.off})) |-> last.off + i]

\* env.h of NewAppendableFile(): "either appends to an existing file, or writes to a
\* new file", so a name that is in the map has its file.
NamesHaveFiles == \A name \in DOMAIN map : map[name] # Null
===============================================================================
