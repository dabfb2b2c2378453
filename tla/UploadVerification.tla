-------------------------- MODULE UploadVerification --------------------------
(***************************************************************************)
(* What the API checks of one uploaded file                                *)
(* (apps/api/src/modules/storage/r2-storage.service.ts): the declaration,  *)
(* and the object in the bucket by a series of ranged reads.               *)
(*                                                                         *)
(* A Word document is a zip archive, and is checked from its end: the end  *)
(* record points to a directory, whose records point to local headers,     *)
(* which are followed by the data.  Lengths and offsets are in units, one  *)
(* for each piece of a fixed size.                                         *)
(***************************************************************************)
EXTENDS Integers, Sequences, FiniteSets, SequencesExt

CONSTANTS Contents,   \* what browsers may put into the bucket
          NoObject,   \* an empty key
          Declarations, \* what clients say of their files: [type, bytes, named]
          MaxBytes,   \* MAX_FILE_BYTES
          TailBytes,  \* how much of the end of an archive is read: 65557 bytes
          MaxPuts,    \* bound: uploads to the key
          MaxOutages  \* bound: reads that the storage does not answer

ASSUME UploadAssumption ==
  /\ NoObject \notin Contents /\ MaxBytes \in Nat /\ TailBytes \in Nat \ {0}
  /\ MaxPuts \in Nat /\ MaxOutages \in Nat

\* The fields of a zip archive are unsigned; "end" is -1 where there is no end record.
ASSUME ContentsAssumption ==
  \A f \in Contents :
    /\ f.bytes \in Nat /\ f.end \in Int /\ f.place \in Nat
    /\ f.count \in Nat /\ f.directoryOffset \in Nat /\ f.directorySize \in Nat
    /\ f.directory \in Seq(ToSet(f.directory))
    /\ \A e \in ToSet(f.directory) :
         e.at \in Nat /\ e.compressed \in Nat /\ e.uncompressed \in Nat
    /\ \A o \in DOMAIN f.headers : f.headers[o].extra \in Nat

VARIABLES
  object,    \* the object under the key
  declared,  \* type and size the client declared
  phase,     \* the next read of the verification, or its end
  length,    \* ContentLength that HEAD returned
  pending,   \* directory records whose local header is still to be checked
  dataAt,    \* where the data of the record in hand begins
  replaced,  \* the object changed after the first read
  puts, outages   \* used up so far of the bounds

uploadVars == <<object, declared, phase, length, pending, dataAt, replaced, puts, outages>>

Docx == "application/vnd.openxmlformats-officedocument.wordprocessingml.document"
AllowedMimeTypes == {"application/pdf", Docx, "image/jpeg", "image/png"}

\* validateUpload, with the limit of the filename abstracted to whether there is a usable one.
ValidUpload(d) == d.type \in AllowedMimeTypes /\ d.bytes \in 1 .. MaxBytes /\ d.named

\* matchesMagicBytes; a Word document is not decided by its first bytes.
MagicOf == [t \in AllowedMimeTypes \ {Docx} |->
              CASE t = "application/pdf" -> "%PDF-" [] t = "image/jpeg" -> "ffd8ff"
                [] t = "image/png" -> "89PNG"]

-----------------------------------------------------------------------------
(* Archives.  A file has its length, its first bytes and what an archive     *)
(* reader finds in it: where the end record stands and what it says, the     *)
(* records at the place of the directory, and the local headers by offset.   *)

RequiredEntries == {"[Content_Types].xml", "word/document.xml"}
LocalHeader == 2     \* 30 bytes and the name
DirectoryRecord == 2 \* 46 bytes and the name, without an extra field

Lengths(dir) == FoldLeft(LAMBDA sum, r : sum + r.length, 0, dir)

\* Faulty variant: the directory's offset is taken to be relative to the bytes that were read.
FindWithoutTailStart(f, contentLength) ==
  LET tailStart == IF contentLength > TailBytes THEN contentLength - TailBytes ELSE 0
      directoryStart == f.directoryOffset
      directoryEnd == directoryStart + f.directorySize
      walked == SubSeq(f.directory, 1, f.count)
      required == {i \in DOMAIN walked : walked[i].name \in RequiredEntries}
  IN IF /\ f.end >= tailStart
        /\ directoryStart >= 0 /\ directoryEnd <= f.end - tailStart
        /\ directoryStart + tailStart = f.place
        /\ f.count <= Len(f.directory)
        /\ Lengths(walked) = f.directorySize
        /\ {walked[i].name : i \in required} = RequiredEntries
        /\ \A i, j \in required : walked[i].name = walked[j].name => i = j
        /\ \A i \in required : walked[i].at < contentLength
     THEN {walked[i] : i \in required} ELSE {}

\* findRequiredDocxEntries, {} for null.  The end record must be in the bytes that were read and
\* so must the directory; walking it, every record must be one, lie before the directory's end,
\* and the last must end there.  Each required entry must occur once.
FindRequiredEntries(f, contentLength) ==
  LET tailStart == IF contentLength > TailBytes THEN contentLength - TailBytes ELSE 0
      directoryStart == f.directoryOffset - tailStart
      directoryEnd == directoryStart + f.directorySize
      walked == SubSeq(f.directory, 1, f.count)
      required == {i \in DOMAIN walked : walked[i].name \in RequiredEntries}
  IN IF /\ f.end >= tailStart
        /\ directoryStart >= 0 /\ directoryEnd <= f.end - tailStart
        /\ directoryStart + tailStart = f.place
        /\ f.count <= Len(f.directory)
        /\ Lengths(walked) = f.directorySize
        /\ {walked[i].name : i \in required} = RequiredEntries
        /\ \A i, j \in required : walked[i].name = walked[j].name => i = j
        /\ \A i \in required : walked[i].at < contentLength
     THEN {walked[i] : i \in required} ELSE {}

\* localHeaderDataOffset does not fail: the header agrees with the record (sizes and checksum
\* only without a data descriptor), and the data lie inside the file.
HeaderAgrees(f, e, contentLength) ==
  /\ e.compressed # 0 /\ e.uncompressed # 0
  /\ e.at \in DOMAIN f.headers
  /\ LET h == f.headers[e.at]
         start == e.at + LocalHeader + h.extra
     IN  /\ h.coding = e.coding /\ h.name = e.name
         /\ start < contentLength /\ start + e.compressed <= contentLength
         /\ e.coding # "descriptor" => h.sums = e.sums

-----------------------------------------------------------------------------
(* The upload and its verification. *)

UploadInit ==
  /\ object = NoObject /\ declared \in Declarations
  /\ phase = "declared" /\ length = 0 /\ pending = {} /\ dataAt = 0
  /\ replaced = FALSE /\ puts = 0 /\ outages = 0

\* createPresignedUpload.
Presign ==
  /\ phase = "declared"
  /\ phase' = IF ValidUpload(declared) THEN "presigned" ELSE "refused"
  /\ UNCHANGED <<object, declared, length, pending, dataAt, replaced, puts, outages>>

\* The URL can be used until it expires; it fixes neither the size nor the bytes.
Put(f) ==
  /\ phase # "declared" /\ puts < MaxPuts /\ puts' = puts + 1
  /\ ValidUpload(declared)
  /\ object' = f
  /\ replaced' = (replaced \/ phase # "presigned")
  /\ UNCHANGED <<declared, phase, length, pending, dataAt, outages>>

Refuse == phase' = "refused" /\ UNCHANGED <<length, pending, dataAt>>

\* A read that fails is a refusal, whatever the reason.
NoAnswer ==
  /\ phase \in {"presigned", "content", "header", "data"} /\ outages < MaxOutages
  /\ outages' = outages + 1 /\ Refuse
  /\ UNCHANGED <<object, declared, replaced, puts>>

\* HEAD, after validateUpload has looked at the same declaration again.
HeadObject ==
  /\ phase = "presigned"
  /\ IF object # NoObject /\ object.bytes = declared.bytes /\ object.type = declared.type
     THEN phase' = "content" /\ length' = object.bytes /\ UNCHANGED <<pending, dataAt>>
     ELSE Refuse
  /\ UNCHANGED <<object, declared, replaced, puts, outages>>

\* GET of the first eight bytes, or of the tail of a Word document.
ReadContent ==
  /\ phase = "content"
  /\ LET entries == FindRequiredEntries(object, length) IN
     IF declared.type = Docx
     THEN IF entries # {} THEN phase' = "header" /\ pending' = entries /\ UNCHANGED <<length, dataAt>>
                          ELSE Refuse
     ELSE IF object.magic = MagicOf[declared.type]
          THEN phase' = "accepted" /\ UNCHANGED <<length, pending, dataAt>>
          ELSE Refuse
  /\ UNCHANGED <<object, declared, replaced, puts, outages>>

\* GET of the local header of one required entry ...
ReadHeader(e) ==
  /\ phase = "header" /\ e \in pending
  /\ IF HeaderAgrees(object, e, length)
     THEN /\ phase' = "data" /\ pending' = pending \ {e}
          /\ dataAt' = e.at + LocalHeader + object.headers[e.at].extra
          /\ UNCHANGED length
     ELSE Refuse
  /\ UNCHANGED <<object, declared, replaced, puts, outages>>

\* ... and of the first byte of its data.
ReadData ==
  /\ phase = "data"
  /\ IF dataAt < object.bytes
     THEN phase' = IF pending = {} THEN "accepted" ELSE "header"
     ELSE phase' = "refused"
  /\ UNCHANGED <<object, declared, length, pending, dataAt, replaced, puts, outages>>

UploadNext ==
  \/ Presign
  \/ \E f \in Contents : Put(f)
  \/ HeadObject
  \/ ReadContent
  \/ \E e \in pending : ReadHeader(e)
  \/ ReadData
  \/ NoAnswer

UploadSpec == UploadInit /\ [][UploadNext]_uploadVars

-----------------------------------------------------------------------------
(* Reference: what any reader of the whole file needs, and what writers make. *)

\* Both parts of a Word document can be found and their data are inside the file.
Readable(f) ==
  \A n \in RequiredEntries : \E e \in ToSet(f.directory) :
    /\ e.name = n /\ e.at \in DOMAIN f.headers /\ f.headers[e.at].name = n
    /\ e.compressed > 0 /\ e.at + LocalHeader + f.headers[e.at].extra + e.compressed <= f.bytes

\* The local header repeats what the record says of the part, and the data are there and end
\* before the directory.
InPlace(f, e) ==
  /\ e.compressed > 0 /\ e.uncompressed > 0
  /\ e.at \in DOMAIN f.headers
  /\ LET h == f.headers[e.at] IN
       /\ h.name = e.name /\ h.coding = e.coding
       /\ h.sums = IF e.coding = "descriptor" THEN "zero" ELSE e.sums
       /\ e.at + LocalHeader + h.extra + e.compressed <= f.place

\* A Word document as writers make it: the two parts among other members, then the directory,
\* the end record and perhaps a comment, with the directory in the part of the file that is read.
Proper(f) ==
  /\ \A n \in RequiredEntries :
       Cardinality({i \in DOMAIN f.directory : f.directory[i].name = n}) = 1
  /\ \A e \in ToSet(f.directory) : e.name \in RequiredEntries => InPlace(f, e)
  /\ f.count = Len(f.directory) /\ f.directorySize = Lengths(f.directory)
  /\ f.directoryOffset = f.place /\ f.place >= f.bytes - TailBytes
  /\ f.place + f.directorySize <= f.end /\ f.end < f.bytes

\* While nobody replaces the object, the verdict is right both ways: an accepted file has what
\* its readers need, however the offsets in it point about, and a proper file that was declared
\* truly is refused only when the storage fails.
VerdictIsRight ==
  ~replaced =>
    /\ phase = "accepted" =>
         /\ object.bytes = declared.bytes /\ object.bytes <= MaxBytes
         /\ IF declared.type = Docx THEN Readable(object)
                                    ELSE object.magic = MagicOf[declared.type]
    /\ phase = "refused" /\ object # NoObject /\ outages = 0 =>
         ~(/\ ValidUpload(declared)
           /\ declared.type = object.type /\ declared.bytes = object.bytes
           /\ IF declared.type = Docx THEN Proper(object)
                                      ELSE object.magic = MagicOf[declared.type])
=============================================================================
