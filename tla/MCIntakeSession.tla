---------------------------- MODULE MCIntakeSession ----------------------------
(* One session, two tabs, three uploads and two overlapping requests; and, in *)
(* behaviours of its own, the verification of one upload.  Tabs are           *)
(* interchangeable, and so are request slots.                                 *)
EXTENDS IntakeSession, UploadVerification, TLC

VARIABLE running

\* The layout of an archive of the given parts: headers and data one after the other, then the
\* directory, the end record and a comment.
Archive(parts, comment) ==
  LET at(i) == FoldLeft(LAMBDA sum, p : sum + LocalHeader + p.extra + p.data, 0,
                        SubSeq(parts, 1, i - 1))
      place == at(Len(parts) + 1)
      record(i) == [name |-> parts[i].name, length |-> DirectoryRecord + parts[i].extra,
                    at |-> at(i), coding |-> parts[i].coding, sums |-> "its own",
                    compressed |-> parts[i].data, uncompressed |-> parts[i].data]
      header(i) == [name |-> parts[i].name, extra |-> parts[i].extra, coding |-> parts[i].coding,
                    sums |-> IF parts[i].coding = "descriptor" THEN "zero" ELSE "its own"]
      directory == [i \in DOMAIN parts |-> record(i)]
      size == Lengths(directory)
  IN [type |-> Docx, magic |-> "PK", bytes |-> place + size + 1 + comment, place |-> place,
      directory |-> directory, count |-> Len(parts), directoryOffset |-> place,
      directorySize |-> size, end |-> place + size,
      headers |-> [o \in {at(i) : i \in DOMAIN parts} |->
                     header(CHOOSE i \in DOMAIN parts : at(i) = o)]]

mcPart(name, extra, coding, data) ==
  [name |-> name, extra |-> extra, coding |-> coding, data |-> data]
mcParts ==
  {mcPart("[Content_Types].xml", 0, "plain", 1), mcPart("word/document.xml", 1, "descriptor", 2),
   mcPart("word/document.xml", 0, "plain", 0), mcPart("styles.xml", 0, "plain", 1)}
mcArchives == {Archive(p, c) : p \in UNION {[1 .. n -> mcParts] : n \in 1 .. 3}, c \in {0, 1}}

\* The reference for sound documents covers what writers make of the two parts, once each and not
\* empty, wherever other members stand.
ASSUME WritersMakeProperDocuments ==
  \A f \in mcArchives :
    /\ \A i \in DOMAIN f.directory : f.directory[i].compressed > 0
    /\ Cardinality({i \in DOMAIN f.directory : f.directory[i].name = "styles.xml"})
         = Len(f.directory) - 2
    /\ RequiredEntries \subseteq {e.name : e \in ToSet(f.directory)}
    /\ f.place >= f.bytes - TailBytes
    => Proper(f)

\* One number or name in an archive is not what a writer would put there, or its end is cut off.
mcDamaged(f) ==
  {[f EXCEPT !.directoryOffset = @ - 1], [f EXCEPT !.count = @ - 1], [f EXCEPT !.count = @ + 1],
   [f EXCEPT !.directorySize = @ - 2], [f EXCEPT !.end = -1, !.bytes = @ - 1],
   [f EXCEPT !.directory[1].at = 1], [f EXCEPT !.directory[1].compressed = f.bytes],
   [f EXCEPT !.directory[1].sums = "others"], [f EXCEPT !.headers[0].name = "styles.xml"]}
mcPlain(type, magic) ==
  [type |-> type, magic |-> magic, bytes |-> 3, place |-> 0, directory |-> <<>>, count |-> 0,
   directoryOffset |-> 0, directorySize |-> 0, end |-> -1, headers |-> <<>>]
mcContents ==
  mcArchives \cup UNION {mcDamaged(f) : f \in {a \in mcArchives : a.count = 2 /\ a.end + 1 = a.bytes}}
    \cup {mcPlain("application/pdf", "%PDF-"), mcPlain("application/pdf", "PK"), mcPlain(Docx, "PK")}
mcDeclarations ==
  [type : {Docx, "application/pdf", "application/vnd.ms-excel"}, bytes : {0, 3, 14, 15, 18, 21},
   named : {TRUE}] \cup [type : {Docx}, bytes : {3}, named : {FALSE}]

MCInit ==
  /\ Init /\ UploadInit
  /\ running \in {"session", "verification"}
  /\ running = "session" => declared = CHOOSE d \in Declarations : TRUE
MCNext ==
  \/ running = "session" /\ Next /\ UNCHANGED <<running, uploadVars>>
  \/ running = "verification" /\ UploadNext /\ UNCHANGED <<running, vars>>
MCSpec == MCInit /\ [][MCNext]_<<running, vars, uploadVars>>

Interchangeable == Permutations(Tabs) \cup Permutations(Requests)
=============================================================================
