------------------------------ MODULE Archive ------------------------------
(***************************************************************************)
(* Packing a file or a directory and unpacking it again: package filex.    *)
(*                                                                         *)
(* The variable form says which pair of functions is in use:               *)
(*   "upload"      CompressAndUpload, DownloadAndDecompress                *)
(*   "uploadSelf"  CompressAndUploadSelf, DownloadAndDecompress            *)
(*   "zstd"        CompressZstd, DecompressZstd                            *)
(*   "tgz"         CompressFilesOrFolds, DecompressTarGz                   *)
(*   "tgzBase"     CompressFilesOrFoldsBase, DecompressTarGz               *)
(*   "tgzSplit"    CompressAndSplitFiles, DecompressTarGz on every part    *)
(*   "zip"         ZipDir, UnzipDir                                        *)
(*   "zipBase"     ZipDirBase, UnzipDir                                    *)
(*   "zipSplit"    ZipDirAndSplit, UnzipDir on every part                  *)
(*                                                                         *)
(* All of them walk the source and write a header and the data of every    *)
(* entry.  The uploads do it in a goroutine, through an encoder and a      *)
(* pipe, while PutObject reads the other end.  Contents are counted in     *)
(* blocks; a file may shrink, and any call may fail, while it is read.     *)
(* The deferred Close of a writer, an encoder or an archive fails unseen:  *)
(* what it should have passed on never reaches the file.                   *)
(*                                                                         *)
(* Assumed: the Close of an unpacked file keeps what was written to it,    *)
(* the destination is none of "." and "/" (below which the path checks     *)
(* accept nothing) and does not exist yet, the modes of directories let    *)
(* their files be created, and no single file is itself a tar archive.     *)
(***************************************************************************)
EXTENDS Integers, Sequences, FiniteSets

CONSTANTS Sources,   \* what may be packed: entries in the order of the walk
          MaxSize,   \* maxSize of a part
          Window     \* blocks that the encoder holds back

Types == {"dir", "file", "link"}
Forms == {"upload", "uploadSelf", "zstd", "tgz", "tgzBase", "tgzSplit",
          "zip", "zipBase", "zipSplit"}
Uploads == {"upload", "uploadSelf"}
Splits == {"tgzSplit", "zipSplit"}
Zips == {"zip", "zipBase", "zipSplit"}

\* A source is what a walk visits: a single file, or a directory and what is
\* in it.
ASSUME SourcesAssumption ==
  /\ Sources \subseteq Seq([type : Types, size : Nat]) /\ Sources # {}
  /\ \A s \in Sources : s # <<>> /\ (s[1].type = "file" => Len(s) = 1) /\ s[1].type # "link"
ASSUME SizeAssumption == MaxSize \in Nat \ {0} /\ Window \in Nat \ {0}

VARIABLES
  form,   \* the functions in use
  src,    \* the source
  pc,     \* packing: "idle", "start", "walk", "data", "defers", "flush" or "done"
  i,      \* the entry that the walk has reached
  n,      \* the blocks of it that were written
  parts,  \* the blocks that were written to every part of the archive
  kept,   \* how many of them the closed parts hold
  size,   \* currentSize of the part, of the splits
  res,    \* what the packing will return: "ok" or "err"
  short,  \* the tar writer misses data of a file: it has shrunk, or failed
  pipe,   \* the write end of the pipe: "open", "eof" or "err"
  sent,   \* blocks that PutObject has read
  ret,    \* the result of the packing function: "none", "ok" or "err"
  upart,  \* unpacking: the part at hand
  upos,   \* the block of it to come, 0 before unpacking is begun
  dst,    \* what was unpacked of every entry
  uret    \* the result of the unpacking function: "none", "ok" or "err"

packVars == <<pc, i, n, parts, kept, size, res, short>>
sendVars == <<pipe, sent, ret>>
unpackVars == <<upart, upos, dst, uret>>
archiveVars == <<form, src, packVars, sendVars, unpackVars>>

Header(e) == <<"head", e>>
Data(e) == <<"data", e>>
End == <<"end", 0>>

Block == {End} \cup ({"head", "data"} \X (1..Len(src)))

Nothing == [type |-> "none", size |-> 0]

ArchiveTypeOK ==
  /\ form \in Forms /\ src \in Sources
  /\ pc \in {"idle", "start", "walk", "data", "defers", "flush", "done"}
  /\ i \in 1..(Len(src) + 1)
  /\ i <= Len(src) => n \in 0..src[i].size
  /\ parts \in Seq(Seq(Block)) /\ kept \in Seq(Nat)
  /\ size \in Nat
  /\ res \in {"ok", "err"} /\ short \in BOOLEAN
  /\ pipe \in {"open", "eof", "err"} /\ sent \in Nat
  /\ ret \in {"none", "ok", "err"} /\ uret \in {"none", "ok", "err"}
  /\ upart \in Nat /\ upos \in Nat
  /\ dst \in [1..Len(src) -> [type : Types \cup {"none"}, size : Nat]]

ArchiveInit ==
  /\ form = "zstd" /\ src = (CHOOSE s \in Sources : TRUE)
  /\ pc = "idle" /\ i = 1 /\ n = 0 /\ parts = <<>> /\ kept = <<>> /\ size = 0 /\ res = "ok"
  /\ short = FALSE /\ pipe = "open" /\ sent = 0 /\ ret = "none"
  /\ upart = 1 /\ upos = 0 /\ dst = [e \in 1..Len(src) |-> Nothing] /\ uret = "none"

\* CompressZstd and the uploads copy a single file into the encoder as it is.
Raw == form \in Uploads \cup {"zstd"} /\ src[1].type = "file"
IsTar == form \notin Zips /\ ~Raw

\* An entry has data in the archive: a regular file, and in a zip archive,
\* which follows links, everything but a directory.
HasData(e) == src[e].type = "file" \/ (form \in Zips /\ src[e].type = "link")

\* Blocks written to the part at hand.
Write(blocks) == parts' = [parts EXCEPT ![Len(parts)] = @ \o blocks]

\* The encoder accepts data while it can pass older data on to the pipe; a
\* file accepts everything.
Accepts == form \in Uploads => Len(parts[1]) - sent < Window

-----------------------------------------------------------------------------
(* Packing *)

\* One of the functions is called for some source.
Call ==
  /\ pc = "idle" /\ pc' = "start"
  /\ form' \in Forms /\ src' \in Sources
  /\ dst' = [e \in 1..Len(src') |-> Nothing]
  /\ UNCHANGED <<i, n, parts, kept, size, res, short, sendVars, upart, upos, uret>>

\* Directory, output file and writer are made, and the source is looked up.
Start ==
  /\ pc = "start"
  /\ parts' = << <<>> >>
  /\ pc' = IF Raw THEN "data" ELSE "walk"
  /\ UNCHANGED <<form, src, i, n, kept, size, res, short, sendVars, unpackVars>>

\* Mutant of Fail: an error closes the pipe like the end of the data.
Fail_Close ==
  /\ pc \in {"start", "data"} \/ (pc = "walk" /\ i <= Len(src))
  /\ parts' = IF parts = <<>> THEN << <<>> >> ELSE parts
  /\ short' = (short \/ (IsTar /\ pc = "data" /\ n < src[i].size))
  /\ res' = IF form = "zipBase" /\ pc # "start" THEN "ok" ELSE "err"
  /\ pc' = "defers"
  /\ UNCHANGED <<form, src, i, n, kept, size, sendVars, unpackVars>>

\* A call fails: the walk ends.  The goroutine of an upload closes the pipe
\* with the error, the others return it, except ZipDirBase, which ignores
\* what the walk returns.  A tar writer that was in a file misses its data.
Fail ==
  /\ pc \in {"start", "data"} \/ (pc = "walk" /\ i <= Len(src))
  /\ parts' = IF parts = <<>> THEN << <<>> >> ELSE parts
  /\ short' = (short \/ (IsTar /\ pc = "data" /\ n < src[i].size))
  /\ res' = IF form = "zipBase" /\ pc # "start" THEN "ok" ELSE "err"
  /\ pipe' = IF form \in Uploads THEN "err" ELSE pipe
  /\ pc' = "defers"
  /\ UNCHANGED <<form, src, i, n, kept, size, sent, ret, unpackVars>>

\* The next entry of a tar archive: a header, and the data of a file.  The
\* writer refuses the header while it misses data.
TarEntry ==
  /\ pc = "walk" /\ i <= Len(src)
  /\ form \notin Zips
  /\ Accepts /\ ~short
  /\ Write(<<Header(i)>>)
  /\ IF HasData(i) THEN pc' = "data" /\ UNCHANGED i
                   ELSE i' = i + 1 /\ UNCHANGED pc
  /\ UNCHANGED <<form, src, n, kept, size, res, short, sendVars, unpackVars>>

\* The next entry of a zip archive, which has no directories.
ZipEntry ==
  /\ pc = "walk" /\ i <= Len(src)
  /\ form \in Zips
  /\ IF HasData(i) THEN Write(<<Header(i)>>) /\ pc' = "data" /\ UNCHANGED i
                   ELSE i' = i + 1 /\ UNCHANGED <<pc, parts>>
  /\ UNCHANGED <<form, src, n, kept, size, res, short, sendVars, unpackVars>>

\* A block of the file is copied.
Copy ==
  /\ pc = "data" /\ n < src[i].size
  /\ Accepts
  /\ Write(<<Data(i)>>)
  /\ n' = n + 1
  /\ UNCHANGED <<form, src, pc, i, kept, size, res, short, sendVars, unpackVars>>

\* The writers and the file of a part are closed.  Each Close fails unseen:
\* the file holds all that was written, or only its beginning.
Closes(part) == \E k \in 0..Len(part) : kept' = Append(kept, k)

\* The part at hand is closed, and a new one made.
NextPart ==
  LET closed == parts[Len(parts)] \o IF n < src[i].size THEN <<>> ELSE <<End>>
  IN  /\ Closes(closed)
      /\ parts' = Append([parts EXCEPT ![Len(parts)] = closed], <<>>)

\* Mutant of FileEnd: currentSize is not reset with a new part.
FileEnd_NoReset ==
  /\ pc = "data"
  /\ n = src[i].size \/ IsTar
  /\ i' = i + 1 /\ n' = 0 /\ pc' = "walk"
  /\ size' = size + n
  /\ IF form \in Splits /\ size + n >= MaxSize
     THEN NextPart /\ short' = FALSE
     ELSE short' = (n < src[i].size) /\ UNCHANGED <<parts, kept>>
  /\ UNCHANGED <<form, src, res, sendVars, unpackVars>>

\* The file ends, where its size said or, when it has shrunk, before: the
\* copy reports nothing.  A part that is full is closed, and the next begun
\* with a writer of its own.
FileEnd ==
  /\ pc = "data"
  /\ n = src[i].size \/ IsTar
  /\ i' = i + 1 /\ n' = 0 /\ pc' = "walk"
  /\ IF form \in Splits /\ size + n >= MaxSize
     THEN NextPart /\ size' = 0 /\ short' = FALSE
     ELSE size' = size + n /\ short' = (n < src[i].size) /\ UNCHANGED <<parts, kept>>
  /\ UNCHANGED <<form, src, res, sendVars, unpackVars>>

WalkEnds ==
  /\ pc = "walk" /\ i > Len(src)
  /\ pc' = "defers"
  /\ UNCHANGED <<form, src, i, n, parts, kept, size, res, short, sendVars, unpackVars>>

\* The deferred Close of the tar or zip writer, or for a single file that of
\* the encoder, writes the end of the archive, also after an error.  It fails,
\* which nobody sees, when data is missing or the pipe has gone; whether what
\* it writes reaches the file is seen in Flush.
Trailer ==
  /\ pc = "defers"
  /\ Accepts \/ pipe = "err"
  /\ IF short \/ pipe = "err" THEN UNCHANGED parts ELSE Write(<<End>>)
  /\ pc' = "flush"
  /\ UNCHANGED <<form, src, i, n, kept, size, res, short, sendVars, unpackVars>>

\* Mutant of Flush: the encoder is flushed before the pipe gets the error.
Flush_First ==
  /\ pc = "flush"
  /\ IF form \in Uploads
     THEN /\ sent = Len(parts[1])
          /\ pipe' = IF pipe = "err" THEN "err" ELSE "eof"
          /\ kept' = <<Len(parts[1])>>
          /\ UNCHANGED ret
     ELSE Closes(parts[Len(parts)]) /\ ret' = res /\ UNCHANGED pipe
  /\ pc' = "done"
  /\ UNCHANGED <<form, src, i, n, parts, size, res, short, sent, unpackVars>>

\* The deferred Close of the encoder passes on what it holds, all of it unless
\* the pipe has gone, and then the pipe is closed, unless it was closed with
\* an error.  The others close encoder and file, and return.
Flush ==
  /\ pc = "flush"
  /\ IF form \in Uploads
     THEN /\ pipe = "err" \/ sent = Len(parts[1])
          /\ pipe' = IF pipe = "err" THEN "err" ELSE "eof"
          /\ kept' = <<Len(parts[1])>>
          /\ UNCHANGED ret
     ELSE Closes(parts[Len(parts)]) /\ ret' = res /\ UNCHANGED pipe
  /\ pc' = "done"
  /\ UNCHANGED <<form, src, i, n, parts, size, res, short, sent, unpackVars>>

-----------------------------------------------------------------------------
(* PutObject *)

Uploading == form \in Uploads /\ pc \notin {"idle", "start"} /\ ret = "none"

\* PutObject reads from the pipe, whose error comes before its data.
Read ==
  /\ Uploading
  /\ pipe = "open" /\ sent < Len(parts[1])
  /\ sent' = sent + 1
  /\ UNCHANGED <<form, src, packVars, pipe, ret, unpackVars>>

\* It stores the object at the end of the data, or returns the error.
PutReturns ==
  /\ Uploading
  /\ pipe # "open"
  /\ ret' = IF pipe = "eof" THEN "ok" ELSE "err"
  /\ UNCHANGED <<form, src, packVars, pipe, sent, unpackVars>>

\* It may fail at any time; nobody closes the read end of the pipe then.
PutFails ==
  /\ Uploading
  /\ ret' = "err"
  /\ UNCHANGED <<form, src, packVars, pipe, sent, unpackVars>>

-----------------------------------------------------------------------------
(* Unpacking *)

\* There is something before the end of the archive.
HasFirst == parts[1] # <<>> /\ parts[1][1] # End

\* Mutant of Begin: DecompressZstd does not start over after its look at the
\* first header.
Begin_NoReset ==
  /\ ret = "ok" /\ upos = 0
  /\ upos' = IF form \in Uploads \cup {"zstd"} /\ HasFirst THEN 2 ELSE 1
  /\ UNCHANGED <<form, src, packVars, sendVars, upart, dst, uret>>

\* What was packed is unpacked.  DownloadAndDecompress has tried to read a
\* tar header, and goes on behind it: behind the first entry of an archive,
\* or the first block of a single file.
Begin ==
  /\ ret = "ok" /\ upos = 0
  /\ upos' = IF form \in Uploads /\ HasFirst THEN 2 ELSE 1
  /\ UNCHANGED <<form, src, packVars, sendVars, upart, dst, uret>>

\* What an entry becomes when its header is read: DownloadAndDecompress makes
\* links, DecompressZstd and DecompressTarGz skip them, and UnzipDir makes
\* files of everything in the archive.
DownloadMakes(e) == src[e].type
ZstdMakes(e) == IF src[e].type = "link" THEN "none" ELSE src[e].type
TarGzMakes(e) == IF src[e].type = "link" THEN "none" ELSE src[e].type
UnzipMakes(e) == "file"

Made(e) ==
  CASE form \in Uploads -> DownloadMakes(e)
    [] form = "zstd" -> ZstdMakes(e)
    [] form \in Zips -> UnzipMakes(e)
    [] OTHER -> TarGzMakes(e)

\* Nothing is unpacked of a zip archive without its directory, which is at the
\* end, or of a file that DecompressZstd does not read to its end first.
Readable(p) == form \in Zips \cup {"zstd"} => kept[p] = Len(parts[p])

\* One block of the archive.  A single file has no header.
Unpack ==
  /\ uret = "none" /\ upos > 0 /\ upos <= kept[upart] /\ Readable(upart)
  /\ LET b == parts[upart][upos]
         e == b[2]
     IN dst' = CASE b[1] = "head" -> [dst EXCEPT ![e] = [type |-> Made(e), size |-> 0]]
                 [] b[1] = "data" -> [dst EXCEPT ![e] = [type |-> "file", size |-> @.size + 1]]
                 [] b[1] = "end" -> dst
  /\ upos' = upos + 1
  /\ UNCHANGED <<form, src, packVars, sendVars, upart, uret>>

\* A part lost its end when it was closed, or ends in the middle of an entry.
Ended(blocks) == blocks # <<>> /\ blocks[Len(blocks)] = End
Broken(p) == kept[p] < Len(parts[p]) \/ ~Ended(parts[p])

\* Nothing at all reached the file of CompressZstd: DecompressZstd takes the
\* empty file for the compression of an empty file.
AllLost == form = "zstd" /\ kept[1] = 0

\* All that can be unpacked of a part was.
Exhausted(p) == upos > kept[p] \/ ~Readable(p)

\* A part was read to its end.  When it is broken that is an error, and so is
\* the file "." that ZipDir and ZipDirAndSplit make of a single file.  Then
\* the next part is unpacked.
PartEnds ==
  /\ uret = "none" /\ upos > 0 /\ Exhausted(upart)
  /\ upart < Len(parts) /\ ~Broken(upart)
  /\ upart' = upart + 1 /\ upos' = 1
  /\ UNCHANGED <<form, src, packVars, sendVars, dst, uret>>

\* The last part, or a broken one.  A file without blocks is made here.
Finish ==
  /\ uret = "none" /\ upos > 0 /\ Exhausted(upart)
  /\ upart = Len(parts) \/ Broken(upart)
  /\ uret' = IF (Broken(upart) /\ ~AllLost) \/ (form \in {"zip", "zipSplit"} /\ src[1].type = "file")
             THEN "err" ELSE "ok"
  /\ dst' = IF AllLost \/ (Raw /\ ~Broken(upart) /\ dst[1] = Nothing)
            THEN [dst EXCEPT ![1] = [type |-> "file", size |-> 0]] ELSE dst
  /\ UNCHANGED <<form, src, packVars, sendVars, upart, upos>>

\* Reading the archive or writing a file fails: what was unpacked stays.
UnpackFails ==
  /\ uret = "none" /\ upos > 0
  /\ uret' = "err"
  /\ UNCHANGED <<form, src, packVars, sendVars, upart, upos, dst>>

-----------------------------------------------------------------------------
Pack ==
  \/ Start \/ Fail \/ TarEntry \/ ZipEntry \/ Copy \/ FileEnd \/ WalkEnds
  \/ Trailer \/ Flush
Put == Read \/ PutReturns \/ PutFails

ArchiveNext == Call \/ Pack \/ Put \/ Begin \/ Unpack \/ PartEnds \/ Finish \/ UnpackFails

\* The goroutine and PutObject run; nothing promises that PutObject fails.
ArchiveFairness == WF_archiveVars(Pack) /\ WF_archiveVars(Read \/ PutReturns)

ArchiveSpec == ArchiveInit /\ [][ArchiveNext]_archiveVars /\ ArchiveFairness

-----------------------------------------------------------------------------
(* Properties *)

\* Where an archive has a block, and how often.
Positions(archive) == UNION {{p} \X (1..Len(archive[p])) : p \in 1..Len(archive)}
Places(archive, b) == {x \in Positions(archive) : archive[x[1]][x[2]] = b}
Count(b) == Cardinality(Places(parts, b))

\* The entries that a form archives.
Archived == {e \in 1..Len(src) : form \in Zips => src[e].type # "dir"}

\* A packing that returned no error has archived every entry once and with all
\* its data, although errors occur in another goroutine and while the encoder
\* holds data back.  The code has three exceptions, in which it returns no
\* error: ZipDirBase ignores that of its walk; a file that shrinks while it is
\* read leaves a tar archive that ends in it; and a deferred Close that fails
\* leaves a file without its end.  The last two are a broken part.
Complete ==
  ret = "ok" /\ form # "zipBase" =>
    \/ \A e \in Archived :
         /\ Count(Header(e)) = IF Raw THEN 0 ELSE 1
         /\ HasData(e) => Count(Data(e)) = src[e].size
    \/ \E p \in 1..Len(parts) : Broken(p)

\* The blocks that a part has of some files.
DataOf(blocks, files) == {q \in 1..Len(blocks) : \E e \in files : blocks[q] = Data(e)}

\* A part is closed with the first file that fills it: it has at least maxSize
\* of data, and less without its last file.
SplitSizes ==
  form \in Splits =>
    \A p \in 1..(Len(parts) - 1) :
      /\ Cardinality(DataOf(parts[p], 1..Len(src))) >= MaxSize
      /\ \E last \in 1..Len(src) :
           /\ DataOf(parts[p], (last + 1)..Len(src)) = {}
           /\ Cardinality(DataOf(parts[p], 1..(last - 1))) < MaxSize

\* What comes back of an entry: files whole; directories from a tar archive,
\* except the root of an upload; links only from an upload, and as files from
\* a zip archive.
Restored(e) ==
  IF HasData(e) THEN [type |-> "file", size |-> src[e].size]
  ELSE IF src[e].type = "dir" /\ form \notin Zips /\ ~(form \in Uploads /\ e = 1)
       THEN [type |-> "dir", size |-> 0]
  ELSE IF src[e].type = "link" /\ form \in Uploads
       THEN [type |-> "link", size |-> 0]
  ELSE Nothing

\* When packing and unpacking both returned no error, the destination holds
\* the source: what a failed Close or a shrunken file has left of an archive
\* does not unpack.  (ZipDirBase, a single file that was uploaded, and a
\* CompressZstd of which nothing reached the file are left out: see Complete,
\* FileRestored and AllLost.)
RoundTrip ==
  uret = "ok" /\ form # "zipBase" /\ ~(form \in Uploads /\ Raw) /\ ~AllLost
    => \A e \in 1..Len(src) : dst[e] = Restored(e)

\* Packing returns, and the goroutine of an upload ends: the two ends of the
\* pipe never wait for each other.  Unless PutObject fails by itself: then
\* nobody reads the pipe (CompressAndUpload does not close its read end).
UploadEnds ==
  pc = "start" ~>
    ret # "none" /\ (pc = "done" \/ (ret = "err" /\ pipe = "open"))

\* "When it is not a tar archive, it is the compression of a single file":
\* the file is restored (zstd-upload.go:344).
FileRestored ==
  uret = "ok" /\ form \in Uploads /\ Raw => dst[1] = src[1]

=============================================================================
