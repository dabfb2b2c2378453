----------------------------- MODULE IntakeProofs -----------------------------
(***************************************************************************)
(* Proofs about IntakeSession, for any number of tabs, overlapping         *)
(* requests and files, and about UploadVerification, for any contents of   *)
(* the bucket that consist of unsigned numbers.                            *)
(***************************************************************************)
EXTENDS IntakeSession, UploadVerification, FiniteSetTheorems, SequenceTheorems, TLAPS

-----------------------------------------------------------------------------
(* The session. *)

\* A slot that is in use holds a request.
BodyInv == \A r \in Requests : step[r] # "free" => body[r] \in Bodies

Accounted == verified \cup foreign

\* What the draft, the tabs and the requests carry has been verified, except the file of a confirm
\* request that has not got so far yet, and what other clients have listed.
Trusted ==
  /\ draft \subseteq Accounted
  /\ \A t \in Tabs : shown[t] \subseteq Accounted
  /\ \A r \in Requests :
       step[r] # "free" =>
         (body[r].kind # "confirm" \/ step[r] \in {"merged", "answered"} =>
            body[r].docs \subseteq Accounted)
  /\ UnverifiedAreForeign

IInv == TypeOK /\ BodyInv /\ Trusted /\ AcceptanceIsAtomic

LEMMA InitIInv == Init => IInv
  BY DEF Init, IInv, TypeOK, BodyInv, Trusted, Accounted, UnverifiedAreForeign,
               AcceptanceIsAtomic

\* Types and bodies, one step per action.
LEMMA TypeStep == TypeOK /\ BodyInv /\ [Next]_vars => (TypeOK /\ BodyInv)'
<1> SUFFICES ASSUME TypeOK, BodyInv, [Next]_vars PROVE (TypeOK /\ BodyInv)'
  OBVIOUS
<1> USE BoundsAssumption, SentinelAssumption DEF TypeOK, BodyInv, Bodies, sessionVars
<1>1. ASSUME NEW t \in Tabs, Load(t) PROVE (TypeOK /\ BodyInv)'
  BY <1>1 DEF Load, Mount
<1>2. ASSUME NEW t \in Tabs, NEW kind \in {"save", "submit"}, Post(t, kind)
      PROVE (TypeOK /\ BodyInv)'
  BY <1>2 DEF Post, Send
<1>3. ASSUME NEW t \in Tabs, NEW f \in Files, Upload(t, f) PROVE (TypeOK /\ BodyInv)'
  BY <1>3 DEF Upload, Send
<1>4. ASSUME NEW r \in Requests, Deliver(r) PROVE (TypeOK /\ BodyInv)'
  BY <1>4 DEF Deliver, Free, Advance
<1>5. ASSUME NEW r \in Requests, Lose(r) PROVE (TypeOK /\ BodyInv)'
  BY <1>5 DEF Lose, Free, Advance
<1>6. ASSUME NEW r \in Requests, Check(r) PROVE (TypeOK /\ BodyInv)'
  BY <1>6 DEF Check, Free, Advance
<1>7. ASSUME NEW r \in Requests, Save(r) PROVE (TypeOK /\ BodyInv)'
  BY <1>7 DEF Save, Advance
<1>8. ASSUME NEW r \in Requests, ConfirmRead(r) PROVE (TypeOK /\ BodyInv)'
  BY <1>8 DEF ConfirmRead, Free, Advance
<1>9. ASSUME NEW r \in Requests, ConfirmWrite(r) PROVE (TypeOK /\ BodyInv)'
  BY <1>9 DEF ConfirmWrite, Advance
<1>10. ASSUME NEW r \in Requests, Submit(r) PROVE (TypeOK /\ BodyInv)'
  BY <1>10 DEF Submit, Accept, Advance
<1>11. ASSUME NEW kind \in {"save", "submit"}, NEW docs \in OtherLists, PostOther(kind, docs)
       PROVE  (TypeOK /\ BodyInv)'
  BY <1>11 DEF PostOther, Send
<1>12. ASSUME UNCHANGED vars PROVE (TypeOK /\ BodyInv)'
  BY <1>12 DEF vars
<1> QED
  BY <1>1, <1>2, <1>3, <1>4, <1>5, <1>6, <1>7, <1>8, <1>9, <1>10, <1>11, <1>12
     DEF Next, Client, Server

\* Verified documents stay verified, and only they travel.
LEMMA TrustedStep ==
  TypeOK /\ BodyInv /\ Trusted /\ AcceptanceIsAtomic /\ [Next]_vars => Trusted'
<1> SUFFICES ASSUME TypeOK, BodyInv, Trusted, AcceptanceIsAtomic, [Next]_vars PROVE Trusted'
  OBVIOUS
<1> USE BoundsAssumption, SentinelAssumption
        DEF TypeOK, BodyInv, Bodies, Trusted, Accounted, UnverifiedAreForeign, sessionVars
<1>1. ASSUME NEW t \in Tabs, Load(t) PROVE Trusted'
  BY <1>1 DEF Load, Mount
<1>2. ASSUME NEW t \in Tabs, NEW kind \in {"save", "submit"}, Post(t, kind) PROVE Trusted'
  BY <1>2 DEF Post, Send
<1>3. ASSUME NEW t \in Tabs, NEW f \in Files, Upload(t, f) PROVE Trusted'
  BY <1>3 DEF Upload, Send
<1>4. ASSUME NEW r \in Requests, Deliver(r) PROVE Trusted'
  BY <1>4 DEF Deliver, Free, Advance
<1>5. ASSUME NEW r \in Requests, Lose(r) PROVE Trusted'
  BY <1>5 DEF Lose, Free, Advance
<1>6. ASSUME NEW r \in Requests, Check(r) PROVE Trusted'
  BY <1>6 DEF Check, Free, Advance
<1>7. ASSUME NEW r \in Requests, Save(r) PROVE Trusted'
  BY <1>7 DEF Save, Advance
<1>8. ASSUME NEW r \in Requests, ConfirmRead(r) PROVE Trusted'
  BY <1>8 DEF ConfirmRead, Free, Advance
<1>9. ASSUME NEW r \in Requests, ConfirmWrite(r) PROVE Trusted'
  BY <1>9 DEF ConfirmWrite, Advance
<1>10. ASSUME NEW r \in Requests, Submit(r) PROVE Trusted'
  BY <1>10 DEF Submit, Accept, Advance
<1>11. ASSUME NEW kind \in {"save", "submit"}, NEW docs \in OtherLists, PostOther(kind, docs)
       PROVE  Trusted'
  BY <1>11 DEF PostOther, Send
<1>12. ASSUME UNCHANGED vars PROVE Trusted'
  BY <1>12 DEF vars
<1> QED
  BY <1>1, <1>2, <1>3, <1>4, <1>5, <1>6, <1>7, <1>8, <1>9, <1>10, <1>11, <1>12
     DEF Next, Client, Server

\* Only a submit touches submission, status and job, and it touches them together.
LEMMA AcceptanceStep ==
  TypeOK /\ BodyInv /\ AcceptanceIsAtomic /\ [Next]_vars =>
    AcceptanceIsAtomic' /\ (submission # None => submission' = submission)
<1> SUFFICES ASSUME TypeOK, BodyInv, AcceptanceIsAtomic, [Next]_vars
             PROVE AcceptanceIsAtomic' /\ (submission # None => submission' = submission)
  OBVIOUS
<1>1. CASE \E r \in Requests : Submit(r)
  <2>1. PICK r \in Requests : Submit(r)
    BY <1>1
  <2>2. body[r].docs \in SUBSET Files
    BY <2>1 DEF Submit, BodyInv, Bodies
  <2> QED
    BY <2>1, <2>2, SentinelAssumption DEF Submit, Accept, AcceptanceIsAtomic, TypeOK
<1>2. CASE UNCHANGED <<sessionStatus, submission, finalizeJobs>>
  BY <1>2 DEF AcceptanceIsAtomic
<1> QED
  BY <1>1, <1>2 DEF Next, Client, Server, vars, sessionVars, Load, Post, PostOther, Upload, Deliver, Lose,
    Check, Save, ConfirmRead, ConfirmWrite

LEMMA Step == IInv /\ [Next]_vars => IInv'
  BY TypeStep, TrustedStep, AcceptanceStep DEF IInv

LEMMA Invariance == Spec => []IInv
<1>1. Init => IInv
  BY InitIInv
<1>2. IInv /\ [Next]_vars => IInv'
  BY Step
<1> QED
  BY <1>1, <1>2, PTL DEF Spec

\* Draft, submission, tabs and requests hold sets of files at every moment.
THEOREM TypeCorrect == Spec => []TypeOK
  BY Invariance, PTL DEF IInv

\* Whatever is autosaved, reloaded, confirmed late or lost, by any number of tabs and next to any
\* other clients: what the storage has not verified gets into the accepted submission only through
\* a list that some client other than the wizard has sent.
THEOREM WizardAddsVerified == Spec => []UnverifiedAreForeign
<1>1. IInv => UnverifiedAreForeign
  BY DEF IInv, Trusted
<1> QED
  BY <1>1, Invariance, PTL

\* Submission, status and finalization job come into being in one step and stay together.
THEOREM Atomic == Spec => []AcceptanceIsAtomic
  BY Invariance, PTL DEF IInv

\* The first acceptance is the last.
THEOREM Once == Spec => AcceptedOnce
<1>1. IInv /\ [Next]_vars => [submission # None => submission' = submission]_submission
  BY AcceptanceStep DEF IInv
<1> QED
  BY <1>1, Invariance, PTL DEF Spec, AcceptedOnce

-----------------------------------------------------------------------------
(* The verification of one upload, for any contents, declarations and bounds.   *)

\* A file that the verification must not refuse.
Sound(f, d) ==
  /\ ValidUpload(d) /\ d.type = f.type /\ d.bytes = f.bytes
  /\ IF d.type = Docx THEN Proper(f) ELSE f.magic = MagicOf[d.type]

Entries == FindRequiredEntries(object, length)

Started == {"content", "header", "data", "accepted"}

UploadTypeOK ==
  /\ object \in Contents \cup {NoObject} /\ replaced \in BOOLEAN
  /\ phase \in {"declared", "presigned", "refused"} \cup Started
  /\ outages \in Nat

\* A URL is given out for a valid declaration only.
DeclaredInv == phase \in {"presigned"} \cup Started => ValidUpload(declared)

\* What the reads so far have established of an object that nobody has replaced.
EstablishedInv ==
  ~replaced /\ phase \in Started =>
    /\ object \in Contents
    /\ object.bytes = declared.bytes /\ object.type = declared.type /\ length = object.bytes
    /\ phase # "content" =>
         IF declared.type = Docx
         THEN /\ Entries # {} /\ pending \subseteq Entries
              /\ \A e \in Entries \ pending : HeaderAgrees(object, e, length)
              /\ phase = "accepted" => pending = {}
              /\ phase = "data" => dataAt < object.bytes
         ELSE phase = "accepted" /\ object.magic = MagicOf[declared.type]

\* No read refuses a sound file.
RefusalInv ==
  ~replaced /\ outages = 0 /\ object # NoObject /\ Sound(object, declared) => phase # "refused"

UploadInv == UploadTypeOK /\ DeclaredInv /\ EstablishedInv /\ RefusalInv

\* What the reads find of a sound Word document: the two records, whatever surrounds them ...
LEMMA RequiredFound ==
  ASSUME NEW f \in Contents, Proper(f)
  PROVE  FindRequiredEntries(f, f.bytes) # {}
<1> DEFINE dir == f.directory
<1> DEFINE named(n) == {i \in DOMAIN dir : dir[i].name = n}
<1> DEFINE tailStart == IF f.bytes > TailBytes THEN f.bytes - TailBytes ELSE 0
<1> DEFINE required == {i \in DOMAIN dir : dir[i].name \in RequiredEntries}
<1>1. /\ f.bytes \in Nat /\ f.end \in Int /\ f.place \in Nat /\ f.directorySize \in Nat
      /\ dir \in Seq(ToSet(dir)) /\ TailBytes \in Nat
  BY ContentsAssumption, UploadAssumption
<1>2. SubSeq(dir, 1, f.count) = dir
  BY <1>1, SubSeqFull DEF Proper
<1>3. \A n \in RequiredEntries : \E i : named(n) = {i}
  <2> SUFFICES ASSUME NEW n \in RequiredEntries PROVE \E i : named(n) = {i}
    OBVIOUS
  <2>1. DOMAIN dir = 1 .. Len(dir) /\ Len(dir) \in Nat
    BY <1>1
  <2>2. IsFiniteSet(1 .. Len(dir))
    BY <2>1, FS_Interval
  <2>3. IsFiniteSet(named(n))
    BY <2>1, <2>2, FS_Subset
  <2>4. Cardinality(named(n)) = 1
    BY DEF Proper
  <2> QED
    BY <2>3, <2>4, FS_Singleton
<1>4. \A i \in required : InPlace(f, dir[i]) /\ dir[i] \in ToSet(dir)
  <2> SUFFICES ASSUME NEW i \in required PROVE InPlace(f, dir[i]) /\ dir[i] \in ToSet(dir)
    OBVIOUS
  <2>1. dir[i] \in ToSet(dir)
    BY DEF ToSet
  <2> QED
    BY <2>1 DEF Proper
<1>5. \A i \in required : dir[i].at < f.bytes
  <2> SUFFICES ASSUME NEW i \in required PROVE dir[i].at < f.bytes
    OBVIOUS
  <2> DEFINE e == dir[i]
  <2>1. e.at \in Nat /\ e.compressed \in Nat /\ e.at \in DOMAIN f.headers
    BY <1>4, ContentsAssumption DEF InPlace
  <2>a. e.at \in Nat /\ e.compressed \in Nat
    BY <2>1
  <2>b. f.bytes \in Nat /\ f.end \in Int /\ f.place \in Nat /\ f.directorySize \in Nat
    BY <1>1
  <2>2. f.headers[e.at].extra \in Nat
    BY <2>1, ContentsAssumption
  <2>3. e.at + LocalHeader + f.headers[e.at].extra + e.compressed <= f.place
    BY <1>4 DEF InPlace
  <2>4. f.place + f.directorySize <= f.end /\ f.end < f.bytes
    BY DEF Proper
  <2> DEFINE extra == f.headers[e.at].extra
  <2>5. extra \in Nat /\ e.at + 2 + extra + e.compressed <= f.place
    BY <2>2, <2>3 DEF LocalHeader
  <2> HIDE DEF extra, e, dir
  <2>6. e.at < f.bytes
    BY <2>a, <2>b, <2>4, <2>5
  <2> QED
    BY <2>6 DEF e
<1>6. {dir[i].name : i \in required} = RequiredEntries
  BY <1>3
<1>7. \A i, j \in required : dir[i].name = dir[j].name => i = j
  <2> SUFFICES ASSUME NEW i \in required, NEW j \in required, dir[i].name = dir[j].name
               PROVE  i = j
    OBVIOUS
  <2>1. i \in named(dir[i].name) /\ j \in named(dir[i].name) /\ dir[i].name \in RequiredEntries
    OBVIOUS
  <2> HIDE DEF named, required
  <2> QED
    BY <1>3, <2>1
<1>8. required # {}
  BY <1>6 DEF RequiredEntries
<1>9. /\ tailStart \in Nat /\ f.end >= tailStart /\ f.directoryOffset - tailStart >= 0
      /\ f.directoryOffset - tailStart + f.directorySize <= f.end - tailStart
      /\ f.directoryOffset - tailStart + tailStart = f.place
  BY <1>1 DEF Proper
<1>10. f.count <= Len(dir) /\ Lengths(dir) = f.directorySize
  BY <1>1 DEF Proper
<1> DEFINE walked == SubSeq(f.directory, 1, f.count)
<1> DEFINE found == {i \in DOMAIN walked : walked[i].name \in RequiredEntries}
<1>11. walked = dir
  BY <1>2
<1>12. found = required
  BY <1>11
<1>13. /\ f.count <= Len(f.directory) /\ Lengths(walked) = f.directorySize
       /\ {walked[i].name : i \in found} = RequiredEntries
       /\ \A i, j \in found : walked[i].name = walked[j].name => i = j
       /\ \A i \in found : walked[i].at < f.bytes
  <2>1. f.count <= Len(f.directory)
    BY <1>10
  <2> HIDE DEF walked, required, found, dir
  <2> QED
    BY <2>1, <1>5, <1>6, <1>7, <1>10, <1>11, <1>12
<1>14. FindRequiredEntries(f, f.bytes) = {walked[i] : i \in found}
  BY <1>9, <1>13, Zenon DEF FindRequiredEntries
<1> HIDE DEF walked, found
<1> QED
  BY <1>8, <1>12, <1>14

\* ... and nothing else than records of required names, every name among them.
LEMMA EntriesAreRequired ==
  ASSUME NEW f \in Contents, NEW n, FindRequiredEntries(f, n) # {}
  PROVE  /\ \A e \in FindRequiredEntries(f, n) : e \in ToSet(f.directory) /\ e.name \in RequiredEntries
         /\ \A x \in RequiredEntries : \E e \in FindRequiredEntries(f, n) : e.name = x
<1> DEFINE walked == SubSeq(f.directory, 1, f.count)
<1> DEFINE required == {i \in DOMAIN walked : walked[i].name \in RequiredEntries}
<1>1. FindRequiredEntries(f, n) = {walked[i] : i \in required}
  BY DEF FindRequiredEntries
<1>2. f.count <= Len(f.directory) /\ {walked[i].name : i \in required} = RequiredEntries
  BY DEF FindRequiredEntries
<1>3. f.directory \in Seq(ToSet(f.directory)) /\ f.count \in Nat
  BY ContentsAssumption
<1>4. \A i \in DOMAIN walked : walked[i] \in ToSet(f.directory)
  <2>1. walked \in Seq(ToSet(f.directory))
    BY <1>2, <1>3
  <2> HIDE DEF walked
  <2> QED
    BY <2>1
<1> HIDE DEF walked
<1> QED
  BY <1>1, <1>2, <1>4

\* Each record of a sound document agrees with its header.
LEMMA SoundHeaderAgrees ==
  ASSUME NEW f \in Contents, Proper(f), NEW e \in FindRequiredEntries(f, f.bytes)
  PROVE  HeaderAgrees(f, e, f.bytes)
<1>1. e \in ToSet(f.directory) /\ e.name \in RequiredEntries
  BY EntriesAreRequired
<1>2. InPlace(f, e)
  BY <1>1 DEF Proper
<1>3. /\ f.bytes \in Nat /\ f.end \in Int /\ f.place \in Nat /\ f.directorySize \in Nat
      /\ e.at \in Nat /\ e.compressed \in Nat /\ e.uncompressed \in Nat
      /\ f.headers[e.at].extra \in Nat
  BY <1>1, <1>2, ContentsAssumption DEF InPlace
<1>4. f.place + f.directorySize <= f.end /\ f.end < f.bytes
  BY DEF Proper
<1> QED
  BY <1>2, <1>3, <1>4 DEF HeaderAgrees, InPlace, LocalHeader

\* An accepted document has what its readers need.
LEMMA AgreementIsReadable ==
  ASSUME NEW f \in Contents, FindRequiredEntries(f, f.bytes) # {},
         \A e \in FindRequiredEntries(f, f.bytes) : HeaderAgrees(f, e, f.bytes)
  PROVE  Readable(f)
<1> SUFFICES ASSUME NEW n \in RequiredEntries
             PROVE  \E e \in ToSet(f.directory) :
                      /\ e.name = n /\ e.at \in DOMAIN f.headers /\ f.headers[e.at].name = n
                      /\ e.compressed > 0
                      /\ e.at + LocalHeader + f.headers[e.at].extra + e.compressed <= f.bytes
  BY DEF Readable
<1>1. PICK e \in FindRequiredEntries(f, f.bytes) : e.name = n
  BY EntriesAreRequired
<1>2. e \in ToSet(f.directory)
  BY <1>1, EntriesAreRequired
<1>3. HeaderAgrees(f, e, f.bytes)
  BY <1>1
<1>4. e.compressed \in Nat
  BY <1>2, ContentsAssumption
<1>5. e.compressed > 0
  BY <1>3, <1>4 DEF HeaderAgrees
<1> WITNESS e \in ToSet(f.directory)
<1> QED
  BY <1>1, <1>3, <1>5 DEF HeaderAgrees

LEMMA UploadTypeStep ==
  UploadTypeOK /\ DeclaredInv /\ [UploadNext]_uploadVars => (UploadTypeOK /\ DeclaredInv)'
<1> SUFFICES ASSUME UploadTypeOK, DeclaredInv, [UploadNext]_uploadVars
             PROVE  (UploadTypeOK /\ DeclaredInv)'
  OBVIOUS
<1> USE DEF UploadTypeOK, DeclaredInv, Started
<1>1. CASE Presign
  BY <1>1 DEF Presign
<1>2. ASSUME NEW f \in Contents, Put(f) PROVE (UploadTypeOK /\ DeclaredInv)'
  BY <1>2 DEF Put
<1>3. CASE HeadObject
  BY <1>3 DEF HeadObject, Refuse
<1>4. CASE ReadContent
  BY <1>4 DEF ReadContent, Refuse
<1>5. ASSUME NEW e \in pending, ReadHeader(e) PROVE (UploadTypeOK /\ DeclaredInv)'
  BY <1>5 DEF ReadHeader, Refuse
<1>6. CASE ReadData
  BY <1>6 DEF ReadData
<1>7. CASE NoAnswer
  BY <1>7 DEF NoAnswer, Refuse
<1>8. CASE UNCHANGED uploadVars
  BY <1>8 DEF uploadVars
<1> QED
  BY <1>1, <1>2, <1>3, <1>4, <1>5, <1>6, <1>7, <1>8 DEF UploadNext

\* Each read adds what it has looked at; a replacement ends the claim.
LEMMA EstablishedStep ==
  UploadTypeOK /\ EstablishedInv /\ [UploadNext]_uploadVars => EstablishedInv'
<1> SUFFICES ASSUME UploadTypeOK, EstablishedInv, [UploadNext]_uploadVars,
                    ~replaced', phase' \in Started
             PROVE
      /\ object' \in Contents
      /\ object'.bytes = declared'.bytes /\ object'.type = declared'.type /\ length' = object'.bytes
      /\ phase' # "content" =>
           IF declared'.type = Docx
           THEN /\ Entries' # {} /\ pending' \subseteq Entries'
                /\ \A e \in Entries' \ pending' : HeaderAgrees(object', e, length')
                /\ phase' = "accepted" => pending' = {}
                /\ phase' = "data" => dataAt' < object'.bytes
           ELSE phase' = "accepted" /\ object'.magic = MagicOf[declared'.type]
  BY DEF EstablishedInv
<1>1. CASE Presign
  BY <1>1 DEF Presign, Started
<1>2. ASSUME NEW f \in Contents, Put(f) PROVE FALSE
  BY <1>2 DEF Put, UploadTypeOK, Started
<1>3. CASE HeadObject
  BY <1>3 DEF HeadObject, Refuse, Started, UploadTypeOK
<1>4. CASE ReadContent
  BY <1>4 DEF ReadContent, Refuse, EstablishedInv, Entries, Started
<1>5. CASE \E e \in pending : ReadHeader(e)
  <2>1. PICK e \in pending : ReadHeader(e)
    BY <1>5
  <2>2. /\ phase = "header" /\ HeaderAgrees(object, e, length)
        /\ phase' = "data" /\ pending' = pending \ {e}
        /\ dataAt' = e.at + LocalHeader + object.headers[e.at].extra
        /\ UNCHANGED <<object, declared, replaced, length>>
    BY <2>1 DEF ReadHeader, Refuse, Started
  <2>3. /\ object \in Contents /\ object.bytes = declared.bytes /\ object.type = declared.type
        /\ length = object.bytes /\ declared.type = Docx
        /\ Entries # {} /\ pending \subseteq Entries
        /\ \A x \in Entries \ pending : HeaderAgrees(object, x, length)
    BY <2>2 DEF EstablishedInv, Started
  <2>4. Entries' = Entries
    BY <2>2 DEF Entries
  <2>5. dataAt' < object.bytes
    BY <2>2, <2>3 DEF HeaderAgrees
  <2> QED
    BY <2>2, <2>3, <2>4, <2>5
<1>6. CASE ReadData
  BY <1>6 DEF ReadData, EstablishedInv, Entries, Started
<1>7. CASE NoAnswer
  BY <1>7 DEF NoAnswer, Refuse, Started
<1>8. CASE UNCHANGED uploadVars
  BY <1>8 DEF uploadVars, EstablishedInv, Entries, Started
<1> QED
  BY <1>1, <1>2, <1>3, <1>4, <1>5, <1>6, <1>7, <1>8 DEF UploadNext

\* A sound file passes every read.
LEMMA RefusalStep ==
  UploadTypeOK /\ DeclaredInv /\ EstablishedInv /\ RefusalInv /\ [UploadNext]_uploadVars =>
    RefusalInv'
<1> SUFFICES ASSUME UploadTypeOK, DeclaredInv, EstablishedInv, RefusalInv,
                    [UploadNext]_uploadVars, ~replaced', outages' = 0, object' # NoObject,
                    Sound(object', declared'), phase' = "refused"
             PROVE  FALSE
  BY DEF RefusalInv
<1>1. CASE Presign
  BY <1>1 DEF Presign, Sound
<1>2. ASSUME NEW f \in Contents, Put(f) PROVE FALSE
  BY <1>2 DEF Put
<1>3. CASE HeadObject
  BY <1>3 DEF HeadObject, Sound
<1>4. CASE ReadContent
  <2>1. /\ phase = "content" /\ UNCHANGED <<object, declared, replaced>>
        /\ declared.type = Docx => FindRequiredEntries(object, length) = {}
        /\ declared.type # Docx => object.magic # MagicOf[declared.type]
    BY <1>4 DEF ReadContent
  <2>2. object \in Contents /\ length = object.bytes
    BY <2>1 DEF EstablishedInv, Started
  <2>3. declared.type = Docx => Proper(object)
    BY <2>1 DEF Sound
  <2>4. declared.type # Docx
    BY <2>1, <2>2, <2>3, RequiredFound
  <2> QED
    BY <2>1, <2>4 DEF Sound
<1>5. ASSUME NEW e \in pending, ReadHeader(e) PROVE FALSE
  <2>1. /\ phase = "header" /\ UNCHANGED <<object, declared, replaced>>
        /\ ~HeaderAgrees(object, e, length)
    BY <1>5 DEF ReadHeader
  <2>2. /\ object \in Contents /\ length = object.bytes /\ declared.type = Docx
        /\ e \in FindRequiredEntries(object, length)
    BY <1>5, <2>1 DEF EstablishedInv, Started, Entries
  <2>3. Proper(object)
    BY <2>1, <2>2 DEF Sound
  <2> QED
    BY <2>1, <2>2, <2>3, SoundHeaderAgrees
<1>6. CASE ReadData
  BY <1>6 DEF ReadData, EstablishedInv, Started
<1>7. CASE NoAnswer
  BY <1>7 DEF NoAnswer, UploadTypeOK
<1>8. CASE UNCHANGED uploadVars
  BY <1>8 DEF uploadVars, RefusalInv
<1> QED
  BY <1>1, <1>2, <1>3, <1>4, <1>5, <1>6, <1>7, <1>8 DEF UploadNext

LEMMA UploadInvariance == UploadSpec => []UploadInv
<1>1. UploadInit => UploadInv
  <2> SUFFICES ASSUME UploadInit PROVE UploadInv
    OBVIOUS
  <2>1. UploadTypeOK
    BY DEF UploadInit, UploadTypeOK
  <2>2. DeclaredInv /\ EstablishedInv
    BY DEF UploadInit, DeclaredInv, EstablishedInv, Started
  <2>3. RefusalInv
    BY DEF UploadInit, RefusalInv
  <2> QED
    BY <2>1, <2>2, <2>3 DEF UploadInv
<1>2. UploadInv /\ [UploadNext]_uploadVars => UploadInv'
  BY UploadTypeStep, EstablishedStep, RefusalStep DEF UploadInv
<1> QED
  BY <1>1, <1>2, PTL DEF UploadSpec

\* The verdict on a file that nobody replaces is right both ways (r2-storage.service.ts), however
\* the offsets in it point about and however much of it lies before the tail that is read.
THEOREM VerdictRight == UploadSpec => []VerdictIsRight
<1>1. UploadInv => VerdictIsRight
  <2> SUFFICES ASSUME UploadInv, ~replaced PROVE
        /\ phase = "accepted" =>
             /\ object.bytes = declared.bytes /\ object.bytes <= MaxBytes
             /\ IF declared.type = Docx THEN Readable(object)
                                        ELSE object.magic = MagicOf[declared.type]
        /\ phase = "refused" /\ object # NoObject /\ outages = 0 => ~Sound(object, declared)
    BY DEF VerdictIsRight, Sound
  <2>1. ASSUME phase = "accepted"
        PROVE  /\ object.bytes = declared.bytes /\ object.bytes <= MaxBytes
               /\ IF declared.type = Docx THEN Readable(object)
                                          ELSE object.magic = MagicOf[declared.type]
    <3>1. /\ object \in Contents /\ object.bytes = declared.bytes /\ length = object.bytes
          /\ declared.type # Docx => object.magic = MagicOf[declared.type]
          /\ declared.type = Docx =>
               /\ FindRequiredEntries(object, object.bytes) # {}
               /\ \A e \in FindRequiredEntries(object, object.bytes) :
                    HeaderAgrees(object, e, object.bytes)
      BY <2>1 DEF UploadInv, EstablishedInv, Started, Entries
    <3>2. declared.type = Docx => Readable(object)
      BY <3>1, AgreementIsReadable
    <3>3. declared.bytes \in 1 .. MaxBytes
      BY <2>1 DEF UploadInv, DeclaredInv, Started, ValidUpload
    <3> QED
      BY <3>1, <3>2, <3>3, UploadAssumption
  <2>2. phase = "refused" /\ object # NoObject /\ outages = 0 => ~Sound(object, declared)
    BY DEF UploadInv, RefusalInv
  <2> QED
    BY <2>1, <2>2
<1> QED
  BY <1>1, UploadInvariance, PTL

=============================================================================
