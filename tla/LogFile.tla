------------------------------- MODULE LogFile -------------------------------
(***************************************************************************)
(* The log of leveldb: log::Writer cuts records into fragments that fit     *)
(* blocks, log::Reader puts them together again from a file that a crash,   *)
(* a failed append or the disk has damaged.                                 *)
(*                                                                          *)
(* A file is a sequence of cells, one per byte.  Byte i of record r is      *)
(* Data(r, i); a header cell holds the type and, standing for length and    *)
(* checksum, the payload they were computed from.  The checksum detects     *)
(* whatever differs; a length read from cells that are no header may be     *)
(* too long for the block or not.                                           *)
(***************************************************************************)
EXTENDS Integers, Sequences, SequencesExt

CONSTANTS BlockSize, HeaderSize,   \* kBlockSize and kHeaderSize, in cells
          Lengths, MaxRecords,     \* bound: records and their lengths
          Faults                   \* what may happen to the file

VARIABLES file,
          block_offset_,   \* of the Writer
          writing,         \* there is a Writer
          fault,           \* the fault there was, or "none"
          damaged,         \* the block of a damaged cell, counted from 1, or 0
          added            \* history: the records whose AddRecord() returned OK, unless lost

vars == <<file, block_offset_, writing, fault, damaged, added>>

Cell(k, r, n, t, body) == [kind |-> k, rec |-> r, n |-> n, type |-> t, body |-> body]
Zero == Cell("zero", 0, 0, "zero", <<>>)
Flipped == Cell("flipped", 0, 0, "zero", <<>>)
Data(r, i) == Cell("data", r, i, "zero", <<>>)
Header(t, body) == [i \in 1 .. HeaderSize |-> Cell("head", 0, i, t, body)]

Init ==
    /\ file = <<>> /\ block_offset_ = 0 /\ writing = TRUE
    /\ fault = "none" /\ damaged = 0 /\ added = <<>>

-------------------------------------------------------------------------------
(* log::Writer *)

\* Mutant: the trailer of a block is not filled.
NoTrailer(w) == IF BlockSize - w.off < HeaderSize THEN [w EXCEPT !.off = 0] ELSE w

\* A header does not fit into the rest of the block: fill it, start the next.
Trailer(w) ==
    IF BlockSize - w.off < HeaderSize
      THEN [file |-> w.file \o [i \in 1 .. BlockSize - w.off |-> Zero], off |-> 0]
      ELSE w

EmitPhysicalRecord(w, t, p) ==
    [file |-> w.file \o Header(t, p) \o p, off |-> w.off + HeaderSize + Len(p)]

FragmentLength(left, avail) == IF left < avail THEN left ELSE avail

FragmentType(begin, left, n) ==
    CASE begin /\ left = n -> "full" [] begin -> "first"
      [] left = n -> "last" [] OTHER -> "middle"

\* The Writer after each fragment of AddRecord(p).
RECURSIVE Fragments(_, _, _)
Fragments(w, p, begin) ==
    LET v == Trailer(w)
        avail == BlockSize - v.off - HeaderSize
        n == FragmentLength(Len(p), avail)
        u == EmitPhysicalRecord(v, FragmentType(begin, Len(p), n), SubSeq(p, 1, n))
    IN <<u>> \o IF Len(p) = n THEN <<>> ELSE Fragments(u, SubSeq(p, n + 1, Len(p)), FALSE)

Writer == [file |-> file, off |-> block_offset_]

\* A record is named by where it begins, which no other record does.
Start == Len(Trailer(Writer).file)
Body(r, n) == [i \in 1 .. n |-> Data(r, i)]
AddRecord(n) == Fragments(Writer, Body(Start, n), TRUE)

Add(n) ==
    LET w == Last(AddRecord(n)) IN
    /\ writing /\ Len(added) < MaxRecords
    /\ file' = w.file /\ block_offset_' = w.off
    /\ added' = Append(added, [start |-> Start, length |-> n, stop |-> Len(w.file)])
    /\ UNCHANGED <<writing, fault, damaged>>

Fault(f, after) == f \in Faults /\ fault = "none" /\ fault' = f /\ file' = after

\* An Append() of fragment k fails after some of its bytes: block_offset_ moves
\* all the same, and the next AddRecord() goes on from there.
AddFails(n) ==
    LET ws == <<Writer>> \o AddRecord(n) IN
    /\ writing /\ Len(added) < MaxRecords
    /\ \E k \in 2 .. Len(ws) : \E len \in Len(ws[k - 1].file) .. Len(ws[k].file) - 1 :
          /\ Fault("fail", SubSeq(ws[k].file, 1, len))
          /\ block_offset_' = ws[k].off
    /\ UNCHANGED <<writing, damaged, added>>

\* The process ends in the middle of an AddRecord().
Tear(n) ==
    LET after == Last(AddRecord(n)).file IN
    /\ writing /\ Len(added) < MaxRecords
    /\ \E len \in Len(file) .. Len(after) - 1 : Fault("tear", SubSeq(after, 1, len))
    /\ writing' = FALSE
    /\ UNCHANGED <<block_offset_, damaged, added>>

\* The machine ends: what was not synced is gone, or reads as zeros.
Crash(len) ==
    /\ writing
    /\ \/ Fault("cut", SubSeq(file, 1, len))
       \/ Fault("zeros", SubSeq(file, 1, len) \o [i \in 1 .. Len(file) - len |-> Zero])
    /\ writing' = FALSE
    /\ added' = SelectSeq(added, LAMBDA a : a.stop <= len)
    /\ UNCHANGED <<block_offset_, damaged>>

\* The disk returns something else, or nothing.
Damage(i) ==
    /\ Fault("flip", [file EXCEPT ![i] = Flipped]) \/ Fault("unreadable", file)
    /\ damaged' = (i - 1) \div BlockSize + 1
    /\ writing' = FALSE
    /\ UNCHANGED <<block_offset_, added>>

\* Options::reuse_logs: Writer(dest, dest_length), behind a torn record or not.
Torn == Len(file) /= IF added = <<>> THEN 0 ELSE Last(added).stop
Reopen ==
    /\ ~writing /\ "reuse" \in Faults
    /\ writing' = TRUE
    /\ block_offset_' = Len(file) % BlockSize
    /\ fault' = IF Torn THEN "reuse" ELSE fault
    /\ UNCHANGED <<file, damaged, added>>

Next ==
    \/ \E n \in Lengths : Add(n) \/ AddFails(n) \/ Tear(n)
    \/ \E i \in 1 .. Len(file) : Crash(i - 1) \/ Damage(i)
    \/ Reopen

Spec == Init /\ [][Next]_vars

-------------------------------------------------------------------------------
(* log::Reader.  A reader r has the rest of its buffer, the file offset     *)
(* behind it (which is also where it reads next), and counts its reports.   *)
(* long: a length that is not a length is too long.                         *)

SkipToInitialBlock(o) ==
    LET off == o % BlockSize IN
    IF off > BlockSize - (HeaderSize - 1) THEN o - off + BlockSize ELSE o - off

NewReader(o, long) ==
    [buf |-> <<>>, end |-> SkipToInitialBlock(o), eof |-> FALSE, resync |-> o > 0,
     initial |-> o, long |-> long, reports |-> 0]

\* ReportDrop(): of unsigned numbers, so a negative difference is large.
Report(r, bytes) ==
    LET at == r.end - Len(r.buf) - bytes IN
    IF at < 0 \/ at >= r.initial THEN [r EXCEPT !.reports = @ + 1] ELSE r

Clear(r) == [r EXCEPT !.buf = <<>>]
Result(r, type, p) == [r |-> r, type |-> type, fragment |-> p]

ChecksumMatches(buf, body) == SubSeq(buf, HeaderSize + 1, HeaderSize + Len(body)) = body

\* At the end of the file the writer has died in the middle of the record.
TooLong(r) ==
    IF r.eof THEN Result(Clear(r), "eof", <<>>)
             ELSE Result(Report(Clear(r), Len(r.buf)), "bad", <<>>)

\* Mutant: nothing is read after a checksum mismatch.
MismatchEnds(r) == Result(Report([Clear(r) EXCEPT !.eof = TRUE], Len(r.buf)), "eof", <<>>)

\* The rest of the block is dropped: the length may be wrong as well.
Mismatch(r) == Result(Report(Clear(r), Len(r.buf)), "bad", <<>>)

Unreadable(o) == fault = "unreadable" /\ o \div BlockSize + 1 = damaged

RECURSIVE ReadPhysicalRecord(_)
ReadPhysicalRecord(r) ==
    LET block == SubSeq(file, r.end + 1, IF r.end + BlockSize < Len(file)
                                           THEN r.end + BlockSize ELSE Len(file))
        head == SubSeq(r.buf, 1, HeaderSize)
        body == head[1].body
        isHeader == head = Header(head[1].type, body)
        rest == [r EXCEPT !.buf = SubSeq(@, HeaderSize + Len(body) + 1, Len(@))]
    IN CASE Len(r.buf) < HeaderSize /\ r.eof -> Result(Clear(r), "eof", <<>>)
         [] Len(r.buf) < HeaderSize /\ ~r.eof /\ Unreadable(r.end) ->
              Result(Report([Clear(r) EXCEPT !.eof = TRUE], BlockSize), "eof", <<>>)
         [] Len(r.buf) < HeaderSize /\ ~r.eof /\ ~Unreadable(r.end) ->
              ReadPhysicalRecord([r EXCEPT !.buf = block, !.end = @ + Len(block),
                                           !.eof = Len(block) < BlockSize])
         [] OTHER ->
              IF \A i \in 1 .. HeaderSize : head[i] = Zero THEN Result(Clear(r), "bad", <<>>)
              ELSE IF IF isHeader THEN HeaderSize + Len(body) > Len(r.buf) ELSE r.long
                THEN TooLong(r)
              ELSE IF ~isHeader \/ ~ChecksumMatches(r.buf, body)
                THEN Mismatch(r)
              ELSE IF rest.end - Len(rest.buf) - HeaderSize - Len(body) < r.initial
                THEN Result(rest, "bad", <<>>)
              ELSE Result(rest, head[1].type, SubSeq(r.buf, HeaderSize + 1, HeaderSize + Len(body)))

\* Mutant: a bad record leaves the fragments read so far.
BadRecordKeeps(s) == IF s.in THEN [s EXCEPT !.r = Report(@, Len(s.scratch))] ELSE s

\* case kBadRecord
BadRecord(s) ==
    IF s.in THEN [s EXCEPT !.r = Report(@, Len(s.scratch)), !.scratch = <<>>, !.in = FALSE]
            ELSE s

\* The loop of ReadRecord(): a state s of it has the reader, the fragments so
\* far, the first of them at offset at, and in_fragmented_record.  Fragment() is
\* its body for one physical record res.
Fragment(s, res) ==
    LET t == res.type
        p == res.fragment
        r == [res.r EXCEPT !.resync = @ /\ t = "middle"]
        here == r.end - Len(r.buf) - HeaderSize - Len(p)
        partial == IF s.in /\ s.scratch /= <<>> THEN Report(r, Len(s.scratch)) ELSE r
        read == [s EXCEPT !.r = r]
        orphan == [s EXCEPT !.r = Report(r, Len(p))]
    IN CASE res.r.resync /\ t \in {"middle", "last"} -> read
         [] t = "full" ->
              [read EXCEPT !.is = "record", !.r = partial, !.scratch = p, !.at = here]
         [] t = "first" -> [s EXCEPT !.r = partial, !.scratch = p, !.in = TRUE, !.at = here]
         [] ~res.r.resync /\ t = "middle" ->
              IF s.in THEN [read EXCEPT !.scratch = @ \o p] ELSE orphan
         [] ~res.r.resync /\ t = "last" ->
              IF s.in THEN [read EXCEPT !.is = "record", !.scratch = @ \o p] ELSE orphan
         [] t = "bad" -> BadRecord(read)
         [] t = "eof" -> [read EXCEPT !.is = "end"]

RECURSIVE ReadRecord(_)
ReadRecord(s) == IF s.is = "more" THEN ReadRecord(Fragment(s, ReadPhysicalRecord(s.r))) ELSE s

\* All records from r on, and the number of reports.
Begin(r) == [is |-> "more", r |-> r, scratch |-> <<>>, in |-> FALSE, at |-> 0]

RECURSIVE ReadFrom(_, _)
ReadFrom(s, records) ==
    IF s.is = "end" THEN [records |-> records, reports |-> s.r.reports]
    ELSE ReadFrom(ReadRecord(Begin(s.r)),
                  IF s.is = "record"
                    THEN Append(records, [body |-> s.scratch, start |-> s.at]) ELSE records)

Read(o, long) == ReadFrom(Begin(NewReader(o, long)), <<>>)

-------------------------------------------------------------------------------
(* Properties *)

TypeOK ==
    /\ file \in Seq([kind : {"head", "data", "zero", "flipped"}, rec : Nat, n : Nat,
                     type : {"full", "first", "middle", "last", "zero"},
                     body : Seq([kind : {"data"}, rec : Nat, n : Nat, type : {"zero"},
                                 body : {<<>>}])])
    /\ block_offset_ \in 0 .. BlockSize
    /\ writing \in BOOLEAN /\ fault \in Faults \cup {"none"} /\ damaged \in Nat
    /\ added \in Seq([start : Nat, length : Lengths, stop : Nat])

Present(a) == [body |-> Body(a.start, a.length), start |-> a.start]
AllPresent(as) == [i \in 1 .. Len(as) |-> Present(as[i])]
Touches(a, block) == block - 1 \in a.start \div BlockSize .. (a.stop - 1) \div BlockSize

\* Nothing but the end of the file is lost.
EndIsLost == fault \in {"none", "cut", "zeros", "tear"}

\* After a crash that loses the end of the file, at whatever byte, and wherever
\* the reader is told to begin, ReadRecord() returns exactly the records that
\* are complete and begin there or later, each with its LastRecordOffset();
\* also when a log that ends with a whole record is reused.
ReadsBack(o, got) ==
    EndIsLost => got.records = AllPresent(SelectSeq(added, LAMBDA a : a.start >= o))

\* Whatever has happened to the file, ReadRecord() returns records that were
\* added, whole and in order: fragments of two records are never put together.
ReadsOnlyAdded(got) ==
    /\ ToSet(got.records) \subseteq ToSet(AllPresent(added))
    /\ \A i \in 1 .. Len(got.records) - 1 : got.records[i].start < got.records[i + 1].start

\* A damaged cell costs at most the records that have a fragment in its block; a
\* block that cannot be read ends the reading and costs all but those before it.
DamageIsLocal(got) ==
    \A a \in ToSet(added) :
      /\ fault = "flip" => Touches(a, damaged) \/ Present(a) \in ToSet(got.records)
      /\ fault = "unreadable" => a.stop > (damaged - 1) * BlockSize \/ Present(a) \in ToSet(got.records)

\* A torn end of the file is not reported as a corruption; damage to a block
\* that is not the last one is, if it loses a record.
ReportsWhatIsLost(got) ==
    /\ fault \in {"none", "cut", "tear"} => got.reports = 0
    /\ /\ fault \in {"flip", "unreadable"}
       /\ damaged * BlockSize <= Len(file)
       /\ got.records /= AllPresent(added)
       => got.reports > 0

\* All of it, of a reader that begins at offset o.
ReadsAs(o, got) ==
    /\ ReadsBack(o, got)
    /\ ReadsOnlyAdded(got)
    /\ o = 0 => DamageIsLocal(got) /\ ReportsWhatIsLost(got)

\* Where a file has all its cells, there is a header wherever the reader looks for one.
Intact == fault \in {"none", "cut", "unreadable"}
\* A reader begins anywhere, or at the start and around the end of the first block.
Offsets == 0 .. Len(file) \cap IF EndIsLost THEN Nat ELSE {0, BlockSize - 1, BlockSize}

\* ReadRecord() from every offset, whatever a length that is none says.
ReadsRight ==
    \A o \in Offsets, long \in BOOLEAN : (Intact => ~long) => ReadsAs(o, Read(o, long))

===============================================================================
