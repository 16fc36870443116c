----------------------------- MODULE KeyFilesProofs -----------------------------
(***************************************************************************)
(* Theorems about KeyFiles for any paths, processes and keys.              *)
(***************************************************************************)
EXTENDS KeyFiles, TLAPS

--------------------------------------------------------------------------------
(* What a tool holds, by how far it has come. *)

Writers == {"keygen", "load", "restore"}
Writing == [tool : Writers, step : {"create", "write"}, path : Path, file : KeyFile, pub : Key]
Asking == [tool : {"save"}, step : {"ask"}, path : Path, at : BackupPath, file : KeyFile]
Again == [tool : {"save"}, step : {"again"}, path : Path, at : BackupPath, file : KeyFile,
          typed : {"right", "slip"}]
Sealing == [tool : {"save"}, step : {"write"}, at : BackupPath, blob : Blob]
Opening == [tool : {"check", "restore"}, step : {"ask"}, path : Path, blob : Blob]
Job == {Idle} \cup Writing \cup Asking \cup Again \cup Sealing \cup Opening

LEMMA JobKinds ==
    ASSUME NEW j \in Job
    PROVE  /\ j # Idle /\ j.tool \in Writers /\ j.step \in {"create", "write"} => j \in Writing
           /\ j # Idle /\ j.tool = "save" /\ j.step = "ask" => j \in Asking
           /\ j # Idle /\ j.tool = "save" /\ j.step = "again" => j \in Again
           /\ j # Idle /\ j.tool = "save" /\ j.step = "write" => j \in Sealing
           /\ j # Idle /\ j.tool \in {"check", "restore"} /\ j.step = "ask" => j \in Opening
           /\ j \in Writing => j.tool \in Writers /\ j.step \in {"create", "write"}
           /\ j \in Asking => j.tool = "save" /\ j.step = "ask"
           /\ j \in Again => j.tool = "save" /\ j.step = "again"
           /\ j \in Sealing => j.tool = "save" /\ j.step = "write"
           /\ j \in Opening => j.tool \in {"check", "restore"} /\ j.step = "ask"
BY DEF Job, Writing, Asking, Again, Sealing, Opening, Writers

FilesTyped ==
    /\ keyAt \in [Path -> KeyFile \cup {NoFile, Torn}]
    /\ backupAt \in [BackupPath -> Blob \cup {NoFile, Torn}]
    /\ job \in [Process -> Job]
    /\ made \subseteq Key /\ announced \subseteq Key /\ away \subseteq Key
    /\ saved \subseteq Blob

LEMMA WritesTyped ==
    ASSUME FilesTyped, NEW p \in Process, NEW tool \in Writers, NEW path \in Path,
           NEW file \in KeyFile, NEW pub \in Key, Writes(p, tool, path, file, pub)
    PROVE  /\ job' \in [Process -> Job]
           /\ job'[p] = [tool |-> tool, step |-> "create", path |-> path, file |-> file, pub |-> pub]
           /\ job'[p] \in Writing /\ job'[p].tool = tool /\ job'[p].file = file /\ job'[p].pub = pub
           /\ \A q \in Process : q # p => job'[q] = job[q]
<1> DEFINE j == [tool |-> tool, step |-> "create", path |-> path, file |-> file, pub |-> pub]
<1>1. j \in Writing
  BY DEF Writing
<1>2. job' = [job EXCEPT ![p] = j]
  BY DEF Writes, Becomes
<1> HIDE DEF j
<1> QED
  BY <1>1, <1>2 DEF FilesTyped, Job, j

LEMMA BecomesTyped ==
    ASSUME FilesTyped, NEW p \in Process, NEW j \in Job, Becomes(p, j)
    PROVE  /\ job' \in [Process -> Job]
           /\ job'[p] = j
           /\ \A q \in Process : q # p => job'[q] = job[q]
BY DEF Becomes, FilesTyped

--------------------------------------------------------------------------------
(* What the tools' steps do to the jobs.  Others' jobs stay.                 *)

OthersStay(p) == \A q \in Process : q # p => job'[q] = job[q]

LEMMA IdleIsJob == Idle \in Job
BY DEF Job

\* What is typed stays typed, and a step of a tool moves its own job alone.
LEMMA ToolTyped ==
    ASSUME FilesTyped, NEW p \in Process, ToolStep(p)
    PROVE  FilesTyped' /\ OthersStay(p)
<1> DEFINE j == job[p]
<1>0. /\ j \in Job /\ Idle \in Job
      /\ keyAt \in [Path -> KeyFile \cup {NoFile, Torn}]
      /\ backupAt \in [BackupPath -> Blob \cup {NoFile, Torn}]
  BY IdleIsJob DEF FilesTyped
<1>1. ASSUME NEW path \in Path, Keygen(p, path) \/ LoadCreates(p, path) PROVE FilesTyped' /\ OthersStay(p)
  <2>1. PICK tool \in Writers : Generate(p, tool, path) /\ UNCHANGED <<disk, announced, away, saved>>
    BY <1>1 DEF Keygen, LoadCreates, Writers, disk
  <2>2. PICK k \in Key \ made : made' = made \cup {k} /\ Writes(p, tool, path, Pair(k), k)
    BY <2>1 DEF Generate
  <2>3. Pair(k) \in KeyFile /\ k \in Key
    BY DEF Pair, KeyFile
  <2>4. job' \in [Process -> Job] /\ OthersStay(p)
    BY <2>2, <2>3, WritesTyped DEF OthersStay
  <2> QED
    BY <2>1, <2>2, <2>4 DEF FilesTyped, disk
<1>2. ASSUME NEW path \in Path, Load(p, path) PROVE FilesTyped' /\ OthersStay(p)
  BY <1>2 DEF Load, FilesTyped, OthersStay, disk
<1>3. ASSUME NEW path \in Path, NEW at \in BackupPath, SaveReads(p, path, at)
      PROVE  FilesTyped' /\ OthersStay(p)
  <2> DEFINE n == [tool |-> "save", step |-> "ask", path |-> path, at |-> at, file |-> keyAt[path]]
  <2>1. n \in Asking /\ Becomes(p, n) /\ UNCHANGED <<disk, history>>
    BY <1>3 DEF Asking, SaveReads
  <2> HIDE DEF n
  <2>2. job' \in [Process -> Job] /\ OthersStay(p)
    BY <2>1, BecomesTyped DEF Job, OthersStay
  <2> QED
    BY <2>1, <2>2 DEF FilesTyped, disk, history
<1>4. ASSUME NEW path \in Path, NEW at \in BackupPath, NEW tool \in {"check", "restore"},
             BlobRead(p, tool, path, at)
      PROVE  FilesTyped' /\ OthersStay(p)
  <2> DEFINE n == [tool |-> tool, step |-> "ask", path |-> path, blob |-> backupAt[at]]
  <2>1. n \in Opening /\ Becomes(p, n) /\ UNCHANGED <<disk, history>>
    BY <1>4 DEF Opening, BlobRead
  <2> HIDE DEF n
  <2>2. job' \in [Process -> Job] /\ OthersStay(p)
    BY <2>1, BecomesTyped DEF Job, OthersStay
  <2> QED
    BY <2>1, <2>2 DEF FilesTyped, disk, history
<1>5. CASE Create(p)
  <2>1. j \in Writing /\ j.path \in Path
    BY <1>0, <1>5, JobKinds DEF Create, Writers, Writing
  <2>2. [j EXCEPT !.step = "write"] \in Job
    BY <2>1 DEF Writing, Job
  <2>3. \/ Becomes(p, Idle) /\ UNCHANGED keyAt
        \/ Becomes(p, [j EXCEPT !.step = "write"]) /\ keyAt' = [keyAt EXCEPT ![j.path] = Torn]
    BY <1>5 DEF Create
  <2>4. job' \in [Process -> Job] /\ OthersStay(p)
    BY <1>0, <2>2, <2>3, BecomesTyped DEF OthersStay
  <2>5. keyAt' \in [Path -> KeyFile \cup {NoFile, Torn}]
    BY <1>0, <2>1, <2>3
  <2> QED
    BY <1>5, <2>4, <2>5 DEF Create, FilesTyped, history
<1>6. CASE Finish(p)
  <2>1. j \in Writing
    BY <1>0, <1>6, JobKinds DEF Finish, Writers
  <2>2. j.path \in Path /\ j.file \in KeyFile /\ j.file.sec \in Key
    BY <2>1 DEF Writing, KeyFile
  <2>3. job' \in [Process -> Job] /\ OthersStay(p)
    BY <1>0, <1>6, BecomesTyped DEF OthersStay, Finish
  <2>4. keyAt' \in [Path -> KeyFile \cup {NoFile, Torn}] /\ announced' \subseteq Key
    BY <1>0, <1>6, <2>2 DEF Finish, FilesTyped
  <2> QED
    BY <1>6, <2>3, <2>4 DEF Finish, FilesTyped
<1>7. CASE TypeOnce(p)
  <2>1. j \in Asking
    BY <1>0, <1>7, JobKinds DEF TypeOnce, At
  <2>2. PICK typed \in {"right", "slip"} :
          Becomes(p, [tool |-> "save", step |-> "again", path |-> j.path, at |-> j.at,
                      file |-> j.file, typed |-> typed])
    BY <1>7 DEF TypeOnce
  <2> DEFINE n == [tool |-> "save", step |-> "again", path |-> j.path, at |-> j.at,
                   file |-> j.file, typed |-> typed]
  <2>3. n \in Again /\ Becomes(p, n)
    BY <2>1, <2>2 DEF Asking, Again
  <2> HIDE DEF n
  <2>4. job' \in [Process -> Job] /\ OthersStay(p)
    BY <2>3, BecomesTyped DEF Job, OthersStay
  <2> QED
    BY <1>7, <2>4 DEF FilesTyped, disk, history, TypeOnce
<1>8. CASE Seal(p)
  <2> DEFINE b == [pub |-> j.file.pub, file |-> keyAt[j.path], pass |-> j.typed, whole |-> TRUE]
             n == [tool |-> "save", step |-> "write", at |-> j.at, blob |-> b]
  <2>1. j \in Again
    BY <1>0, <1>8, JobKinds DEF Seal, At
  <2>2. b \in Blob /\ j.at \in BackupPath
    BY <1>8, <2>1 DEF Again, Blob, KeyFile, Typed, Seal
  <2>3. n \in Sealing /\ Becomes(p, n)
    BY <1>8, <2>2 DEF Sealing, Seal
  <2>4. backupAt' = [backupAt EXCEPT ![j.at] = Torn] /\ UNCHANGED <<keyAt, history>>
    BY <1>8 DEF Seal
  <2> HIDE DEF n
  <2>5. job' \in [Process -> Job] /\ OthersStay(p)
    BY <2>3, BecomesTyped DEF Job, OthersStay
  <2> QED
    BY <1>0, <2>2, <2>4, <2>5 DEF FilesTyped, history
<1>9. CASE Sealed(p)
  <2>1. j \in Sealing
    BY <1>0, <1>9, JobKinds DEF Sealed, At
  <2>2. j.at \in BackupPath /\ j.blob \in Blob
    BY <2>1 DEF Sealing
  <2>3. job' \in [Process -> Job] /\ OthersStay(p)
    BY <1>0, <1>9, BecomesTyped DEF Sealed, OthersStay
  <2> QED
    BY <1>0, <1>9, <2>2, <2>3 DEF FilesTyped, Sealed
<1>10. CASE BlobOpens(p)
  <2>1. j \in Opening
    BY <1>0, <1>10, JobKinds DEF BlobOpens, At
  <2>2. j.path \in Path /\ j.blob.file \in KeyFile /\ j.blob.pub \in Key
    BY <2>1 DEF Opening, Blob
  <2>3. job' \in [Process -> Job] /\ OthersStay(p)
    <3>1. CASE Becomes(p, Idle)
      BY <1>0, <3>1, BecomesTyped DEF OthersStay
    <3>2. CASE Writes(p, "restore", j.path, j.blob.file, j.blob.pub)
      BY <2>2, <3>2, WritesTyped DEF OthersStay, Writers
    <3> QED
      BY <1>10, <3>1, <3>2 DEF BlobOpens
  <2> QED
    BY <1>10, <2>3 DEF FilesTyped, BlobOpens, disk, history
<1>11. CASE Die(p)
  <2>1. job' \in [Process -> Job] /\ OthersStay(p)
    BY <1>0, <1>11, BecomesTyped DEF Die, OthersStay
  <2> QED
    BY <1>11, <2>1 DEF Die, FilesTyped, disk, history
<1> QED
  BY <1>1, <1>2, <1>3, <1>4, <1>5, <1>6, <1>7, <1>8, <1>9, <1>10, <1>11 DEF ToolStep

LEMMA NextTyped == FilesTyped /\ [Next]_vars => FilesTyped'
<1> SUFFICES ASSUME FilesTyped, [Next]_vars PROVE FilesTyped'
  OBVIOUS
<1>1. ASSUME NEW p \in Process, ToolStep(p) PROVE FilesTyped'
  BY <1>1, ToolTyped
<1>2. ASSUME NEW path \in Path, MoveAside(path) PROVE FilesTyped'
  BY <1>2 DEF MoveAside, FilesTyped, KeyFile
<1>3. ASSUME NEW path \in Path, PutBack(path) PROVE FilesTyped'
  <2>1. PICK file \in [pub : announced, sec : away] : keyAt' = [keyAt EXCEPT ![path] = file]
    BY <1>3 DEF PutBack
  <2>2. file \in KeyFile
    BY DEF FilesTyped, KeyFile
  <2> QED
    BY <1>3, <2>1, <2>2 DEF PutBack, FilesTyped, history
<1>4. ASSUME NEW at \in BackupPath, Alter(at) PROVE FilesTyped'
  <2>1. CASE \E pub \in Key : backupAt' = [backupAt EXCEPT ![at].pub = pub, ![at].whole = FALSE]
    <3>1. PICK pub \in Key : backupAt' = [backupAt EXCEPT ![at].pub = pub, ![at].whole = FALSE]
      BY <2>1
    <3>2. backupAt' = [backupAt EXCEPT ![at] = [backupAt[at] EXCEPT !.pub = pub, !.whole = FALSE]]
      BY <3>1
    <3>3. [backupAt[at] EXCEPT !.pub = pub, !.whole = FALSE] \in Blob
      BY <1>4 DEF Alter, Blob
    <3> QED
      BY <1>4, <3>2, <3>3 DEF Alter, FilesTyped, history
  <2>2. CASE \E file \in KeyFile : backupAt' = [backupAt EXCEPT ![at].file = file, ![at].whole = FALSE]
    <3>1. PICK file \in KeyFile : backupAt' = [backupAt EXCEPT ![at].file = file, ![at].whole = FALSE]
      BY <2>2
    <3>2. backupAt' = [backupAt EXCEPT ![at] = [backupAt[at] EXCEPT !.file = file, !.whole = FALSE]]
      BY <3>1
    <3>3. [backupAt[at] EXCEPT !.file = file, !.whole = FALSE] \in Blob
      BY <1>4 DEF Alter, Blob
    <3> QED
      BY <1>4, <3>2, <3>3 DEF Alter, FilesTyped, history
  <2> QED
    BY <1>4, <2>1, <2>2 DEF Alter
<1>5. CASE MachineDies
  BY <1>5, IdleIsJob DEF MachineDies, FilesTyped, KeyFile
<1>6. CASE UNCHANGED vars
  BY <1>6 DEF vars, disk, history, FilesTyped
<1> QED
  BY <1>1, <1>2, <1>3, <1>4, <1>5, <1>6 DEF Next

--------------------------------------------------------------------------------
(* What was saved can be restored, and nothing else can.                     *)

\* What a job may hold, given the blobs that have been handed over.
BackedBy(j, blobs) ==
    /\ j \in Writing /\ j.tool = "restore" =>
         \E blob \in blobs : blob.pub = j.pub /\ blob.file = j.file
    /\ j \in Sealing => Restorable(j.blob)
    /\ j \in Opening /\ j.blob.whole => j.blob \in blobs

SavesOK ==
    /\ \A p \in Process : BackedBy(job[p], saved)
    /\ \A at \in BackupPath : backupAt[at] \in Blob /\ backupAt[at].whole => backupAt[at] \in saved
    /\ SavedIsRestorable
    /\ RestoredWasSaved

LEMMA BackedStays ==
    ASSUME NEW j, NEW A, NEW B, A \subseteq B, BackedBy(j, A)
    PROVE  BackedBy(j, B)
BY DEF BackedBy

LEMMA ToolSaves ==
    ASSUME FilesTyped, SavesOK, NEW p \in Process, ToolStep(p)
    PROVE  SavesOK'
<1> DEFINE j == job[p]
<1>0. /\ j \in Job /\ job'[p] \in Job /\ OthersStay(p) /\ BackedBy(j, saved)
      /\ \A n : n = Idle => BackedBy(n, saved')
  <2>1. job'[p] \in Job /\ OthersStay(p)
    BY ToolTyped DEF FilesTyped
  <2>2. \A n : n = Idle => n \notin Writing /\ n \notin Sealing /\ n \notin Opening
    BY JobKinds, IdleIsJob DEF Idle, Writers
  <2> QED
    BY <2>1, <2>2 DEF FilesTyped, SavesOK, BackedBy
<1>1. ASSUME saved \subseteq saved', BackedBy(job'[p], saved')
      PROVE  \A q \in Process : BackedBy(job'[q], saved')
  BY <1>0, <1>1, BackedStays DEF SavesOK, OthersStay
<1>2. ASSUME UNCHANGED <<backupAt, saved, restored>>, BackedBy(job'[p], saved')
      PROVE  SavesOK'
  BY <1>1, <1>2 DEF SavesOK, SavedIsRestorable, RestoredWasSaved
<1>3. ASSUME NEW path \in Path, Keygen(p, path) \/ LoadCreates(p, path) PROVE SavesOK'
  <2>1. PICK tool \in {"keygen", "load"} : Generate(p, tool, path) /\ UNCHANGED <<disk, saved, restored>>
    BY <1>3 DEF Keygen, LoadCreates, disk
  <2>2. PICK k \in Key : Writes(p, tool, path, Pair(k), k)
    BY <2>1 DEF Generate
  <2>3. Pair(k) \in KeyFile
    BY DEF Pair, KeyFile
  <2>4. job'[p].tool = tool /\ job'[p] \in Writing
    <3>1. tool \in Writers
      BY DEF Writers
    <3> QED
      BY <2>2, <2>3, <3>1, WritesTyped
  <2>5. BackedBy(job'[p], saved')
    BY <1>0, <2>4, JobKinds DEF BackedBy, Writers
  <2> QED
    BY <1>2, <2>1, <2>5 DEF disk
<1>4. ASSUME NEW path \in Path, Load(p, path) PROVE SavesOK'
  BY <1>0, <1>2, <1>4 DEF Load, disk
<1>5. ASSUME NEW path \in Path, NEW at \in BackupPath, SaveReads(p, path, at) PROVE SavesOK'
  <2> DEFINE n == [tool |-> "save", step |-> "ask", path |-> path, at |-> at, file |-> keyAt[path]]
  <2>1. n \in Asking /\ Becomes(p, n) /\ UNCHANGED <<disk, history>>
    BY <1>5 DEF Asking, SaveReads
  <2> HIDE DEF n
  <2>2. job'[p] = n /\ n \in Job
    BY <2>1, BecomesTyped DEF Job
  <2>3. BackedBy(job'[p], saved')
    BY <2>1, <2>2, JobKinds DEF BackedBy, Writers
  <2> QED
    BY <1>2, <2>1, <2>3 DEF disk, history
<1>6. ASSUME NEW path \in Path, NEW at \in BackupPath, NEW tool \in {"check", "restore"},
             BlobRead(p, tool, path, at)
      PROVE  SavesOK'
  <2> DEFINE n == [tool |-> tool, step |-> "ask", path |-> path, blob |-> backupAt[at]]
  <2>1. n \in Opening /\ n.blob = backupAt[at] /\ Becomes(p, n) /\ UNCHANGED <<disk, history>>
    BY <1>6 DEF Opening, BlobRead
  <2> HIDE DEF n
  <2>2. job'[p] = n /\ n \in Job
    BY <2>1, BecomesTyped DEF Job
  <2>3. backupAt[at] \in Blob
    BY <1>6 DEF BlobRead
  <2>4. n \notin Writing /\ n \notin Sealing
    BY <2>1, <2>2, JobKinds DEF Writers
  <2>5. n.blob.whole => n.blob \in saved
    BY <2>1, <2>3 DEF SavesOK
  <2>6. BackedBy(job'[p], saved')
    BY <2>1, <2>2, <2>4, <2>5 DEF BackedBy, history
  <2> QED
    BY <1>2, <2>1, <2>6 DEF disk, history
<1>7. CASE Create(p)
  <2>1. j \in Writing
    BY <1>0, <1>7, JobKinds DEF Create, Writers
  <2>2. job'[p] = Idle \/ job'[p] = [j EXCEPT !.step = "write"]
    <3>1. [j EXCEPT !.step = "write"] \in Job
      BY <2>1 DEF Writing, Job
    <3> QED
      BY <1>7, <3>1, IdleIsJob, BecomesTyped DEF Create
  <2>3. [j EXCEPT !.step = "write"] \in Writing
        /\ [j EXCEPT !.step = "write"].tool = j.tool
        /\ [j EXCEPT !.step = "write"].pub = j.pub /\ [j EXCEPT !.step = "write"].file = j.file
    BY <2>1 DEF Writing
  <2>4. UNCHANGED <<backupAt, saved, restored>>
    BY <1>7 DEF Create, history
  <2>5. CASE job'[p] = [j EXCEPT !.step = "write"]
    <3>1. job'[p] \notin Sealing /\ job'[p] \notin Opening
      BY <1>0, <2>3, <2>5, JobKinds DEF Writers
    <3>2. BackedBy(job'[p], saved')
      BY <1>0, <2>1, <2>3, <2>4, <2>5, <3>1 DEF BackedBy
    <3> QED
      BY <1>2, <2>4, <3>2
  <2> QED
    BY <1>0, <1>2, <2>2, <2>4, <2>5
<1>8. CASE Finish(p)
  <2>1. j \in Writing /\ UNCHANGED <<backupAt, saved>> /\ job'[p] = Idle
    BY <1>0, <1>8, JobKinds, IdleIsJob, BecomesTyped DEF Finish, Writers
  <2>2. \A r \in restored' : r \in restored \/ (j.tool = "restore" /\ r.pub = j.pub /\ r.file = j.file)
    BY <1>8 DEF Finish
  <2>3. RestoredWasSaved'
    BY <1>0, <2>1, <2>2 DEF RestoredWasSaved, SavesOK, BackedBy
  <2> QED
    BY <1>0, <1>1, <2>1, <2>3 DEF SavesOK, SavedIsRestorable
<1>9. CASE TypeOnce(p)
  <2>1. j \in Asking
    BY <1>0, <1>9, JobKinds DEF TypeOnce, At
  <2>2. PICK typed \in {"right", "slip"} :
          Becomes(p, [tool |-> "save", step |-> "again", path |-> j.path, at |-> j.at,
                      file |-> j.file, typed |-> typed])
    BY <1>9 DEF TypeOnce
  <2> DEFINE n == [tool |-> "save", step |-> "again", path |-> j.path, at |-> j.at,
                   file |-> j.file, typed |-> typed]
  <2>3. n \in Again /\ Becomes(p, n)
    BY <2>1, <2>2 DEF Asking, Again
  <2> HIDE DEF n
  <2>4. job'[p] = n /\ n \in Job
    BY <2>3, BecomesTyped DEF Job
  <2>5. BackedBy(job'[p], saved')
    BY <2>3, <2>4, JobKinds DEF BackedBy, Writers
  <2> QED
    BY <1>2, <1>9, <2>5 DEF TypeOnce, disk, history
<1>10. CASE Seal(p)
  <2> DEFINE b == [pub |-> j.file.pub, file |-> keyAt[j.path], pass |-> j.typed, whole |-> TRUE]
             n == [tool |-> "save", step |-> "write", at |-> j.at, blob |-> b]
  <2>1. j \in Again
    BY <1>0, <1>10, JobKinds DEF Seal, At
  <2>2. b \in Blob /\ j.at \in BackupPath
    BY <1>10, <2>1 DEF Again, Blob, KeyFile, Typed, Seal
  <2>3. n \in Sealing /\ Becomes(p, n) /\ n.blob = b
    BY <1>10, <2>2 DEF Sealing, Seal
  <2>4. Restorable(b)
    <3>1. j.typed = "right"
      BY <1>10, <2>1 DEF Seal, Again
    <3>2. b.pub = j.file.pub /\ b.pass = "right" /\ b.whole = TRUE /\ b.file = keyAt[j.path]
      BY <3>1
    <3>3. Derives(b.file.sec, j.file.pub)
      BY <1>10 DEF Seal
    <3> QED
      BY <3>2, <3>3 DEF Restorable, Opens
  <2>5. backupAt' = [backupAt EXCEPT ![j.at] = Torn] /\ UNCHANGED <<keyAt, history>>
    BY <1>10 DEF Seal
  <2> HIDE DEF b, n
  <2>6. job'[p] = n /\ n \in Job
    BY <2>3, BecomesTyped DEF Job
  <2>7. n \notin Writing /\ n \notin Opening
    BY <2>3, <2>6, JobKinds DEF Writers
  <2>8. BackedBy(job'[p], saved')
    BY <2>3, <2>4, <2>6, <2>7 DEF BackedBy
  <2>9. \A at \in BackupPath : backupAt'[at] \in Blob /\ backupAt'[at].whole => backupAt'[at] \in saved'
    <3>1. Torn \notin Blob
      BY MarkAssumption
    <3> QED
      BY <2>2, <2>5, <3>1 DEF FilesTyped, SavesOK, history
  <2> QED
    BY <1>1, <2>5, <2>8, <2>9 DEF SavesOK, SavedIsRestorable, RestoredWasSaved, history
<1>11. CASE Sealed(p)
  <2>1. j \in Sealing
    BY <1>0, <1>11, JobKinds DEF Sealed, At
  <2>2. j.at \in BackupPath /\ j.blob \in Blob /\ Restorable(j.blob)
    BY <1>0, <2>1 DEF Sealing, BackedBy
  <2>3. /\ backupAt' = [backupAt EXCEPT ![j.at] = j.blob] /\ saved' = saved \cup {j.blob}
        /\ UNCHANGED restored /\ job'[p] = Idle
    BY <1>11, IdleIsJob, BecomesTyped DEF Sealed
  <2>4. \A at \in BackupPath : backupAt'[at] \in Blob /\ backupAt'[at].whole => backupAt'[at] \in saved'
    BY <2>2, <2>3 DEF FilesTyped, SavesOK
  <2>5. SavedIsRestorable' /\ RestoredWasSaved'
    BY <2>2, <2>3 DEF SavesOK, SavedIsRestorable, RestoredWasSaved
  <2> QED
    BY <1>0, <1>1, <2>3, <2>4, <2>5 DEF SavesOK
<1>12. CASE BlobOpens(p)
  <2>1. j \in Opening /\ j.blob.whole
    BY <1>0, <1>12, JobKinds DEF BlobOpens, At, Opens
  <2>2. j.path \in Path /\ j.blob.file \in KeyFile /\ j.blob.pub \in Key /\ j.blob \in saved
    BY <1>0, <2>1 DEF Opening, Blob, BackedBy
  <2>3. UNCHANGED <<backupAt, saved, restored>>
    BY <1>12 DEF BlobOpens, disk, history
  <2>4. CASE Becomes(p, Idle)
    BY <1>0, <1>2, <2>3, <2>4, IdleIsJob, BecomesTyped
  <2>5. CASE Writes(p, "restore", j.path, j.blob.file, j.blob.pub)
    <3>1. job'[p] \in Writing /\ job'[p].pub = j.blob.pub /\ job'[p].file = j.blob.file
      <4>1. PICK tool \in Writers : tool = "restore"
        BY DEF Writers
      <4>2. PICK file \in KeyFile, pub \in Key, path \in Path :
              file = j.blob.file /\ pub = j.blob.pub /\ path = j.path
        BY <2>2
      <4>3. Writes(p, tool, path, file, pub)
        BY <2>5, <4>1, <4>2
      <4>4. job'[p] \in Writing
        BY <4>3, WritesTyped, ZenonT(30)
      <4>5. job'[p].pub = pub
        BY <4>3, WritesTyped, ZenonT(30)
      <4>6. job'[p].file = file
        <5>1. job'[p] = [tool |-> tool, step |-> "create", path |-> path, file |-> file, pub |-> pub]
          BY <4>3, WritesTyped
        <5> QED
          BY <5>1
      <4> QED
        BY <4>2, <4>4, <4>5, <4>6
    <3>2. job'[p] \notin Sealing /\ job'[p] \notin Opening
      BY <1>0, <3>1, JobKinds DEF Writers
    <3>3. BackedBy(job'[p], saved')
      BY <2>2, <2>3, <3>1, <3>2 DEF BackedBy
    <3> QED
      BY <1>2, <2>3, <3>3
  <2> QED
    BY <1>12, <2>4, <2>5 DEF BlobOpens
<1>13. CASE Die(p)
  BY <1>0, <1>2, <1>13, IdleIsJob, BecomesTyped DEF Die, disk, history
<1> QED
  BY <1>3, <1>4, <1>5, <1>6, <1>7, <1>8, <1>9, <1>10, <1>11, <1>12, <1>13 DEF ToolStep

LEMMA InitTyped == Init => FilesTyped
BY DEF Init, FilesTyped, Job

LEMMA InitSaves == Init => SavesOK
<1> SUFFICES ASSUME Init PROVE SavesOK
  OBVIOUS
<1>1. Idle \notin Writing /\ Idle \notin Sealing /\ Idle \notin Opening
  BY JobKinds, IdleIsJob DEF Idle, Writers
<1>2. \A p \in Process : BackedBy(job[p], saved)
  BY <1>1 DEF Init, BackedBy
<1>3. NoFile \notin Blob
  BY MarkAssumption
<1> QED
  BY <1>2, <1>3 DEF Init, SavesOK, SavedIsRestorable, RestoredWasSaved

LEMMA NextSaves == FilesTyped /\ SavesOK /\ [Next]_vars => SavesOK'
<1> SUFFICES ASSUME FilesTyped, SavesOK, [Next]_vars PROVE SavesOK'
  OBVIOUS
<1>1. ASSUME NEW p \in Process, ToolStep(p) PROVE SavesOK'
  BY <1>1, ToolSaves
<1>2. ASSUME UNCHANGED <<job, backupAt, saved, restored>> PROVE SavesOK'
  BY <1>2 DEF SavesOK, SavedIsRestorable, RestoredWasSaved
<1>3. ASSUME NEW path \in Path, MoveAside(path) \/ PutBack(path) PROVE SavesOK'
  BY <1>2, <1>3 DEF MoveAside, PutBack, history
<1>4. ASSUME NEW at \in BackupPath, Alter(at) PROVE SavesOK'
  <2>1. /\ backupAt[at] \in Blob /\ UNCHANGED <<job, saved, restored>>
        /\ backupAt \in [BackupPath -> Blob \cup {NoFile, Torn}]
    BY <1>4 DEF Alter, history, FilesTyped
  <2>2. PICK n : backupAt' = [backupAt EXCEPT ![at] = n] /\ n.whole = FALSE
    <3>1. CASE \E pub \in Key : backupAt' = [backupAt EXCEPT ![at].pub = pub, ![at].whole = FALSE]
      <4>1. PICK pub \in Key : backupAt' = [backupAt EXCEPT ![at].pub = pub, ![at].whole = FALSE]
        BY <3>1
      <4> DEFINE n == [backupAt[at] EXCEPT !.pub = pub, !.whole = FALSE]
      <4>2. backupAt' = [backupAt EXCEPT ![at] = n]
        BY <4>1
      <4>3. n.whole = FALSE
        BY <2>1 DEF Blob
      <4> QED
        BY <4>2, <4>3
    <3>2. CASE \E file \in KeyFile : backupAt' = [backupAt EXCEPT ![at].file = file, ![at].whole = FALSE]
      <4>1. PICK file \in KeyFile : backupAt' = [backupAt EXCEPT ![at].file = file, ![at].whole = FALSE]
        BY <3>2
      <4> DEFINE n == [backupAt[at] EXCEPT !.file = file, !.whole = FALSE]
      <4>2. backupAt' = [backupAt EXCEPT ![at] = n]
        BY <4>1
      <4>3. n.whole = FALSE
        BY <2>1 DEF Blob
      <4> QED
        BY <4>2, <4>3
    <3> QED
      BY <1>4, <3>1, <3>2 DEF Alter
  <2>3. \A q \in BackupPath : backupAt'[q] \in Blob /\ backupAt'[q].whole => backupAt'[q] \in saved'
    BY <2>1, <2>2 DEF SavesOK
  <2> QED
    BY <2>1, <2>3 DEF SavesOK, SavedIsRestorable, RestoredWasSaved
<1>5. CASE MachineDies
  <2>1. Idle \notin Writing /\ Idle \notin Sealing /\ Idle \notin Opening
    BY JobKinds, IdleIsJob DEF Idle, Writers
  <2>2. \A p \in Process : BackedBy(job'[p], saved')
    BY <1>5, <2>1 DEF MachineDies, BackedBy
  <2> QED
    BY <1>5, <2>2 DEF MachineDies, SavesOK, SavedIsRestorable, RestoredWasSaved
<1>6. CASE UNCHANGED vars
  BY <1>2, <1>6 DEF vars, disk, history
<1> QED
  BY <1>1, <1>3, <1>4, <1>5, <1>6 DEF Next

\* Every blob that `save` ever handed over opens with the passphrase the operator
\* means, to the key it is named for (key-backup.ts:18-20).
THEOREM SavedRestorable == Spec => []SavedIsRestorable
<1>1. SavesOK => SavedIsRestorable
  BY DEF SavesOK
<1> QED
  BY <1>1, InitTyped, InitSaves, NextTyped, NextSaves, PTL DEF Spec

\* Whatever `restore` writes was saved, whole, under the public key the blob names
\* (key-backup.ts:25-27).
THEOREM RestoredSaved == Spec => []RestoredWasSaved
<1>1. SavesOK => RestoredWasSaved
  BY DEF SavesOK
<1> QED
  BY <1>1, InitTyped, InitSaves, NextTyped, NextSaves, PTL DEF Spec

--------------------------------------------------------------------------------
(* Outside a devnet: what was announced is kept, and only that acts.         *)

AtWrite(j) == j \in Writing /\ j.step = "write"

Held ==
    /\ acting \subseteq announced /\ away \subseteq announced
    /\ \A path \in Path : keyAt[path] \in KeyFile => keyAt[path].sec \in announced
    /\ \A p \in Process : job[p] \in Writing => job[p].tool # "load"
    /\ \A p \in Process : AtWrite(job[p]) => keyAt[job[p].path] = Torn
    /\ \A p, q \in Process : AtWrite(job[p]) /\ AtWrite(job[q]) /\ job[p].path = job[q].path => p = q
    /\ \A k \in announced : OnDisk(k) \/ k \in away

\* The network does not change.
LEMMA SameNetwork == [Next]_vars => UNCHANGED devnet
BY ZenonT(30)
   DEF Next, ToolStep, Keygen, Load, LoadCreates, SaveReads, BlobRead, Create, Finish, TypeOnce,
       Seal, Sealed, BlobOpens, Die, MoveAside, PutBack, Alter, MachineDies, vars

\* A step that neither touches the files nor brings its job to the making of one that
\* may be there already.
Quiet(p) ==
    /\ UNCHANGED <<keyAt, announced, away, acting>>
    /\ ~AtWrite(job'[p])
    /\ job'[p] \in Writing => job'[p].tool # "load"

LEMMA ToolQuiet ==
    ASSUME FilesTyped, NEW p \in Process, ToolStep(p)
    PROVE  \/ Quiet(p) \/ Create(p) \/ Finish(p)
           \/ \E path \in Path : Load(p, path) \/ LoadCreates(p, path)
<1> DEFINE j == job[p]
<1>0. j \in Job /\ job'[p] \in Job /\ OthersStay(p) /\ Idle \notin Writing
  BY ToolTyped, JobKinds, IdleIsJob DEF FilesTyped, Idle, Writers
<1>1. ASSUME UNCHANGED <<keyAt, announced, away, acting>>, job'[p] \notin Writing PROVE Quiet(p)
  BY <1>1 DEF Quiet, AtWrite
<1>2. ASSUME NEW path \in Path, Keygen(p, path) PROVE Quiet(p)
  <2>1. Generate(p, "keygen", path) /\ UNCHANGED <<disk, announced, away, acting>>
    BY <1>2 DEF Keygen
  <2>2. PICK k \in Key : Writes(p, "keygen", path, Pair(k), k)
    BY <2>1 DEF Generate
  <2>3. Pair(k) \in KeyFile /\ "keygen" \in Writers
    BY DEF Pair, KeyFile, Writers
  <2>4. job'[p] = [tool |-> "keygen", step |-> "create", path |-> path, file |-> Pair(k), pub |-> k]
    BY <2>2, <2>3, WritesTyped
  <2>5. job'[p].tool # "load" /\ ~AtWrite(job'[p])
    BY <2>4 DEF AtWrite
  <2> QED
    BY <2>1, <2>5 DEF Quiet, disk
<1>3. ASSUME NEW path \in Path, NEW at \in BackupPath, SaveReads(p, path, at) PROVE Quiet(p)
  <2> DEFINE n == [tool |-> "save", step |-> "ask", path |-> path, at |-> at, file |-> keyAt[path]]
  <2>1. n \in Asking /\ Becomes(p, n) /\ UNCHANGED <<disk, history>>
    BY <1>3 DEF Asking, SaveReads
  <2> HIDE DEF n
  <2>2. job'[p] = n /\ n \in Job
    BY <2>1, BecomesTyped DEF Job
  <2>3. job'[p] \notin Writing
    BY <2>1, <2>2, JobKinds DEF Writers
  <2> QED
    BY <1>1, <2>1, <2>3 DEF disk, history
<1>4. ASSUME NEW path \in Path, NEW at \in BackupPath, NEW tool \in {"check", "restore"},
             BlobRead(p, tool, path, at)
      PROVE  Quiet(p)
  <2> DEFINE n == [tool |-> tool, step |-> "ask", path |-> path, blob |-> backupAt[at]]
  <2>1. n \in Opening /\ Becomes(p, n) /\ UNCHANGED <<disk, history>>
    BY <1>4 DEF Opening, BlobRead
  <2> HIDE DEF n
  <2>2. job'[p] = n /\ n \in Job
    BY <2>1, BecomesTyped DEF Job
  <2>3. job'[p] \notin Writing
    BY <2>1, <2>2, JobKinds DEF Writers
  <2> QED
    BY <1>1, <2>1, <2>3 DEF disk, history
<1>5. CASE TypeOnce(p)
  <2>1. j \in Asking
    BY <1>0, <1>5, JobKinds DEF TypeOnce, At
  <2>2. PICK typed \in {"right", "slip"} :
          Becomes(p, [tool |-> "save", step |-> "again", path |-> j.path, at |-> j.at,
                      file |-> j.file, typed |-> typed])
    BY <1>5 DEF TypeOnce
  <2> DEFINE n == [tool |-> "save", step |-> "again", path |-> j.path, at |-> j.at,
                   file |-> j.file, typed |-> typed]
  <2>3. n \in Again /\ Becomes(p, n)
    BY <2>1, <2>2 DEF Asking, Again
  <2> HIDE DEF n
  <2>4. job'[p] = n /\ n \in Job
    BY <2>3, BecomesTyped DEF Job
  <2>5. job'[p] \notin Writing
    BY <2>3, <2>4, JobKinds DEF Writers
  <2> QED
    BY <1>1, <1>5, <2>5 DEF TypeOnce, disk, history
<1>6. CASE Seal(p)
  <2> DEFINE b == [pub |-> j.file.pub, file |-> keyAt[j.path], pass |-> j.typed, whole |-> TRUE]
             n == [tool |-> "save", step |-> "write", at |-> j.at, blob |-> b]
  <2>1. j \in Again
    BY <1>0, <1>6, JobKinds DEF Seal, At
  <2>2. b \in Blob /\ j.at \in BackupPath
    BY <1>6, <2>1 DEF Again, Blob, KeyFile, Typed, Seal
  <2>3. n \in Sealing /\ Becomes(p, n)
    BY <1>6, <2>2 DEF Sealing, Seal
  <2> HIDE DEF n
  <2>4. job'[p] = n /\ n \in Job
    BY <2>3, BecomesTyped DEF Job
  <2>5. job'[p] \notin Writing
    BY <2>3, <2>4, JobKinds DEF Writers
  <2> QED
    BY <1>1, <1>6, <2>5 DEF Seal, history
<1>7. CASE Sealed(p)
  <2>1. job'[p] = Idle
    BY <1>7, IdleIsJob, BecomesTyped DEF Sealed
  <2> QED
    BY <1>0, <1>1, <1>7, <2>1 DEF Sealed
<1>8. CASE BlobOpens(p)
  <2>1. j \in Opening
    BY <1>0, <1>8, JobKinds DEF BlobOpens, At
  <2>2. UNCHANGED <<keyAt, announced, away, acting>>
    BY <1>8 DEF BlobOpens, disk, history
  <2>3. CASE Becomes(p, Idle)
    BY <1>0, <1>1, <2>2, <2>3, IdleIsJob, BecomesTyped
  <2>4. CASE Writes(p, "restore", j.path, j.blob.file, j.blob.pub)
    <3>1. PICK tool \in Writers : tool = "restore"
      BY DEF Writers
    <3>2. PICK file \in KeyFile, pub \in Key, path \in Path :
            file = j.blob.file /\ pub = j.blob.pub /\ path = j.path
      BY <2>1 DEF Opening, Blob
    <3>3. Writes(p, tool, path, file, pub)
      BY <2>4, <3>1, <3>2
    <3>4. job'[p] = [tool |-> tool, step |-> "create", path |-> path, file |-> file, pub |-> pub]
      BY <3>3, WritesTyped
    <3>5. job'[p].tool # "load" /\ ~AtWrite(job'[p])
      BY <3>1, <3>4 DEF AtWrite
    <3> QED
      BY <2>2, <3>5 DEF Quiet
  <2> QED
    BY <1>8, <2>3, <2>4 DEF BlobOpens
<1>9. CASE Die(p)
  <2>1. job'[p] = Idle
    BY <1>9, IdleIsJob, BecomesTyped DEF Die
  <2> QED
    BY <1>0, <1>1, <1>9, <2>1 DEF Die, disk, history
<1> QED
  BY <1>2, <1>3, <1>4, <1>5, <1>6, <1>7, <1>8, <1>9 DEF ToolStep

LEMMA QuietHeld ==
    ASSUME Held, NEW p \in Process, OthersStay(p), Quiet(p)
    PROVE  Held'
<1>1. \A q \in Process : AtWrite(job'[q]) => job'[q] = job[q] /\ AtWrite(job[q])
  BY DEF OthersStay, Quiet
<1>2. \A q \in Process : job'[q] \in Writing => job'[q].tool # "load"
  BY DEF OthersStay, Held, Quiet
<1>3. \A q \in Process : AtWrite(job'[q]) => keyAt'[job'[q].path] = Torn
  BY <1>1 DEF Held, Quiet
<1>4. \A q, r \in Process : AtWrite(job'[q]) /\ AtWrite(job'[r]) /\ job'[q].path = job'[r].path => q = r
  BY <1>1 DEF Held, Quiet
<1>5. \A k \in announced' : (OnDisk(k))' \/ k \in away'
  BY DEF Held, OnDisk, Quiet
<1> QED
  BY <1>2, <1>3, <1>4, <1>5 DEF Held, Quiet

LEMMA ToolHeld ==
    ASSUME FilesTyped, ~devnet, Held, NEW p \in Process, ToolStep(p)
    PROVE  Held'
<1> DEFINE j == job[p]
<1>0. j \in Job /\ job'[p] \in Job /\ OthersStay(p) /\ Idle \notin Writing
  BY ToolTyped, JobKinds, IdleIsJob DEF FilesTyped, Idle, Writers
<1>1. ASSUME NEW path \in Path, Load(p, path) PROVE Held'
  <2>1. keyAt[path].sec \in announced
    BY <1>1 DEF Load, Held
  <2> QED
    BY <1>1, <2>1 DEF Load, Held, OnDisk, disk
<1>2. ASSUME NEW path \in Path, LoadCreates(p, path) PROVE Held'
  BY <1>2 DEF LoadCreates, AllowCreate
<1>3. CASE Create(p)
  <2>1. j \in Writing /\ j.tool # "load" /\ j.path \in Path
    BY <1>0, <1>3, JobKinds DEF Create, Writers, Writing, Held
  <2>2. UNCHANGED <<announced, away, acting>>
    BY <1>3 DEF Create, history
  <2>3. CASE keyAt[j.path] # NoFile
    <3>1. Becomes(p, Idle) /\ UNCHANGED keyAt
      BY <1>3, <2>1, <2>3 DEF Create, Exclusive
    <3>2. job'[p] = Idle
      BY <3>1, IdleIsJob, BecomesTyped
    <3> QED
      BY <1>0, <2>2, <3>1, <3>2, QuietHeld DEF Quiet, AtWrite
  <2>4. CASE keyAt[j.path] = NoFile
    <3> DEFINE n == [j EXCEPT !.step = "write"]
    <3>1. Becomes(p, n) /\ keyAt' = [keyAt EXCEPT ![j.path] = Torn]
      BY <1>3, <2>4 DEF Create, Exclusive
    <3>2. n \in Writing /\ n.tool = j.tool /\ n.path = j.path
      BY <2>1 DEF Writing
    <3> HIDE DEF n
    <3>3. job'[p] = n
      BY <3>1, <3>2, BecomesTyped DEF Job
    <3>4. /\ keyAt'[j.path] = Torn
          /\ \A path \in Path : path # j.path => keyAt'[path] = keyAt[path]
      BY <2>1, <3>1 DEF FilesTyped
    <3>5. \A q \in Process : q # p /\ AtWrite(job'[q]) =>
            job'[q] = job[q] /\ AtWrite(job[q]) /\ job[q].path # j.path /\ job[q].path \in Path
      BY <1>0, <2>4, MarkAssumption DEF Held, OthersStay, AtWrite, Writing
    <3>6. \A q \in Process : AtWrite(job'[q]) => keyAt'[job'[q].path] = Torn
      BY <3>2, <3>3, <3>4, <3>5 DEF Held
    <3>7. \A q, r \in Process : AtWrite(job'[q]) /\ AtWrite(job'[r]) /\ job'[q].path = job'[r].path => q = r
      BY <3>2, <3>3, <3>5 DEF Held
    <3>8. \A q \in Process : job'[q] \in Writing => job'[q].tool # "load"
      BY <1>0, <2>1, <3>2, <3>3 DEF Held, OthersStay
    <3>9. NoFile \notin KeyFile /\ Torn \notin KeyFile
      BY MarkAssumption
    <3>10. \A path \in Path : keyAt'[path] \in KeyFile => keyAt'[path].sec \in announced'
      BY <2>2, <3>4, <3>9 DEF Held
    <3>11. \A k \in announced' : (OnDisk(k))' \/ k \in away'
      BY <2>2, <2>4, <3>4, <3>9 DEF Held, OnDisk
    <3> QED
      BY <2>2, <3>6, <3>7, <3>8, <3>10, <3>11 DEF Held
  <2> QED
    BY <2>3, <2>4
<1>4. CASE Finish(p)
  <2>1. j \in Writing /\ j.step = "write" /\ j.tool # "load" /\ j.path \in Path /\ j.file \in KeyFile
    BY <1>0, <1>4, JobKinds DEF Finish, Writers, Writing, Held
  <2>2. AtWrite(j) /\ keyAt[j.path] = Torn
    BY <2>1 DEF AtWrite, Held
  <2>3. /\ keyAt' = [keyAt EXCEPT ![j.path] = j.file] /\ announced' = announced \cup {j.file.sec}
        /\ UNCHANGED <<acting, away>> /\ job'[p] = Idle
    BY <1>4, <2>1, IdleIsJob, BecomesTyped DEF Finish
  <2>4. /\ keyAt'[j.path] = j.file
        /\ \A path \in Path : path # j.path => keyAt'[path] = keyAt[path]
    BY <2>1, <2>3 DEF FilesTyped
  <2>5. \A q \in Process : AtWrite(job'[q]) =>
          q # p /\ job'[q] = job[q] /\ AtWrite(job[q]) /\ job[q].path # j.path /\ job[q].path \in Path
    BY <1>0, <2>2, <2>3 DEF Held, OthersStay, AtWrite, Writing
  <2>6. \A q \in Process : AtWrite(job'[q]) => keyAt'[job'[q].path] = Torn
    BY <2>4, <2>5 DEF Held
  <2>7. \A q, r \in Process : AtWrite(job'[q]) /\ AtWrite(job'[r]) /\ job'[q].path = job'[r].path => q = r
    BY <2>5 DEF Held
  <2>8. \A q \in Process : job'[q] \in Writing => job'[q].tool # "load"
    BY <1>0, <2>3 DEF Held, OthersStay
  <2>9. \A path \in Path : keyAt'[path] \in KeyFile => keyAt'[path].sec \in announced'
    BY <2>3, <2>4 DEF Held
  <2>10. Torn \notin KeyFile
    BY MarkAssumption
  <2>11. \A k \in announced' : (OnDisk(k))' \/ k \in away'
    <3>1. ASSUME NEW k \in announced, OnDisk(k) PROVE (OnDisk(k))'
      BY <2>2, <2>4, <2>10, <3>1 DEF OnDisk
    <3>2. ASSUME NEW k, k = j.file.sec PROVE (OnDisk(k))'
      BY <2>1, <2>4, <3>2 DEF OnDisk
    <3> QED
      BY <2>3, <3>1, <3>2 DEF Held
  <2> QED
    BY <2>3, <2>6, <2>7, <2>8, <2>9, <2>11 DEF Held
<1> QED
  BY <1>0, <1>1, <1>2, <1>3, <1>4, ToolQuiet, QuietHeld

LEMMA NextHeld == FilesTyped /\ ~devnet /\ Held /\ [Next]_vars => Held'
<1> SUFFICES ASSUME FilesTyped, ~devnet, Held, [Next]_vars PROVE Held'
  OBVIOUS
<1>0. NoFile \notin KeyFile /\ Torn \notin KeyFile /\ NoFile # Torn
  BY MarkAssumption
<1>1. ASSUME NEW p \in Process, ToolStep(p) PROVE Held'
  BY <1>1, ToolHeld
<1>2. ASSUME NEW path \in Path, MoveAside(path) PROVE Held'
  <2>1. /\ keyAt'[path] = NoFile
        /\ \A q \in Path : q # path => keyAt'[q] = keyAt[q]
        /\ UNCHANGED <<job, announced, acting>>
    BY <1>2 DEF MoveAside, FilesTyped
  <2>2. \A p \in Process : AtWrite(job[p]) => job[p].path # path /\ job[p].path \in Path
    <3>1. \A p \in Process : AtWrite(job[p]) =>
            job[p] # Idle /\ job[p].step = "write" /\ job[p].tool # "save" /\ job[p].path \in Path
      <4>1. Idle \notin Writing
        BY JobKinds, IdleIsJob DEF Idle, Writers
      <4> QED
        BY <4>1 DEF AtWrite, Writing, Writers
    <3> QED
      BY <1>2, <3>1 DEF MoveAside, BeingWritten
  <2>3. away' \subseteq announced' /\ \A k : OnDisk(k) \/ k \in away => (OnDisk(k))' \/ k \in away'
    BY <1>2, <2>1 DEF MoveAside, OnDisk, Held
  <2>4. \A p \in Process : AtWrite(job'[p]) => keyAt'[job'[p].path] = Torn
    BY <2>1, <2>2 DEF Held
  <2>5. \A q \in Path : keyAt'[q] \in KeyFile => keyAt'[q].sec \in announced'
    BY <1>0, <2>1 DEF Held
  <2> QED
    BY <2>1, <2>3, <2>4, <2>5 DEF Held
<1>3. ASSUME NEW path \in Path, PutBack(path) PROVE Held'
  <2>1. PICK file \in [pub : announced, sec : away] : keyAt' = [keyAt EXCEPT ![path] = file]
    BY <1>3 DEF PutBack
  <2>2. /\ keyAt[path] = NoFile /\ keyAt'[path] = file
        /\ \A q \in Path : q # path => keyAt'[q] = keyAt[q]
        /\ UNCHANGED <<job, announced, acting, away>> /\ file.sec \in away
    BY <1>3, <2>1 DEF PutBack, history, FilesTyped
  <2>3. \A p \in Process : AtWrite(job[p]) => job[p].path # path /\ job[p].path \in Path
    BY <1>0, <2>2 DEF Held, AtWrite, Writing
  <2>4. \A k : OnDisk(k) \/ k \in away => (OnDisk(k))' \/ k \in away'
    BY <1>0, <2>2 DEF OnDisk
  <2>5. \A p \in Process : AtWrite(job'[p]) => keyAt'[job'[p].path] = Torn
    BY <2>2, <2>3 DEF Held
  <2>6. \A q \in Path : keyAt'[q] \in KeyFile => keyAt'[q].sec \in announced'
    BY <2>2 DEF Held
  <2> QED
    BY <2>2, <2>4, <2>5, <2>6 DEF Held
<1>4. ASSUME UNCHANGED <<job, keyAt, announced, away, acting>> PROVE Held'
  BY <1>4 DEF Held, OnDisk
<1>5. ASSUME NEW at \in BackupPath, Alter(at) PROVE Held'
  BY <1>4, <1>5 DEF Alter, history
<1>6. CASE MachineDies
  <2>1. Idle \notin Writing
    BY JobKinds, IdleIsJob DEF Idle, Writers
  <2>2. /\ \A p \in Process : job'[p] \notin Writing
        /\ \A path \in Path : keyAt'[path] \notin KeyFile
        /\ UNCHANGED <<announced, acting>>
    BY <1>0, <1>6, <2>1 DEF MachineDies
  <2>3. away' \subseteq announced'
    BY <1>6 DEF MachineDies, Held
  <2>4. \A k : OnDisk(k) \/ k \in away => k \in away'
    BY <1>6 DEF MachineDies, OnDisk
  <2> QED
    BY <2>2, <2>3, <2>4 DEF Held, AtWrite
<1>7. CASE UNCHANGED vars
  BY <1>4, <1>7 DEF vars, disk, history
<1> QED
  BY <1>1, <1>2, <1>3, <1>5, <1>6, <1>7 DEF Next

LEMMA InitHeld == Init => Held
<1>1. Idle \notin Writing /\ NoFile \notin KeyFile
  BY JobKinds, IdleIsJob, MarkAssumption DEF Idle, Writers
<1> QED
  BY <1>1 DEF Init, Held, AtWrite

HeldOK == ~devnet => Held

LEMMA StepHeld == FilesTyped /\ HeldOK /\ [Next]_vars => HeldOK'
BY SameNetwork, NextHeld DEF HeldOK

\* Outside a devnet no command acts under a key it made for itself (lib.ts:71-72).
THEOREM ActsUnderHeld == Spec => []ActsUnderHeldKeys
<1>1. Init => HeldOK
  BY InitHeld DEF HeldOK
<1>2. HeldOK => ActsUnderHeldKeys
  BY DEF HeldOK, Held, ActsUnderHeldKeys
<1> QED
  BY <1>1, <1>2, InitTyped, NextTyped, StepHeld, PTL DEF Spec

\* Outside a devnet a key that was announced is on disk until it is moved aside or the
\* machine dies (keygen.ts:3-6).
THEOREM AnnouncedKept == Spec => []AnnouncedIsKept
<1>1. Init => HeldOK
  BY InitHeld DEF HeldOK
<1>2. HeldOK => AnnouncedIsKept
  BY DEF HeldOK, Held, AnnouncedIsKept
<1> QED
  BY <1>1, <1>2, InitTyped, NextTyped, StepHeld, PTL DEF Spec

--------------------------------------------------------------------------------
(* No key that is worth anything is lost: outside a devnet, or where one     *)
(* process is at the files.                                                  *)

Alone == \A p, q \in Process : p = q

\* Outside a devnet what commands act under was announced, and is kept with the rest.
THEOREM KeptOffDevnet == Spec => [](devnet \/ EveryKeyIsKept)
<1>1. Init => HeldOK
  BY InitHeld DEF HeldOK
<1>2. HeldOK => devnet \/ EveryKeyIsKept
  BY DEF HeldOK, Held, EveryKeyIsKept
<1> QED
  BY <1>1, <1>2, InitTyped, NextTyped, StepHeld, PTL DEF Spec

\* A command about to make the key it found missing.
Making(j) == j \in Writing /\ j.tool = "load" /\ j.step = "create"

\* What every key's keeping rests on: a file that is being written is torn, and one that
\* has appeared where a key is about to be made was put back there by hand.
Lone ==
    /\ EveryKeyIsKept
    /\ \A p \in Process :
         /\ AtWrite(job[p]) => keyAt[job[p].path] = Torn
         /\ Making(job[p]) /\ keyAt[job[p].path] \in KeyFile => keyAt[job[p].path].sec \in away

LEMMA QuietLone ==
    ASSUME Lone, NEW p \in Process, OthersStay(p), Quiet(p)
    PROVE  Lone'
<1>1. \A q \in Process : AtWrite(job'[q]) \/ Making(job'[q]) => job'[q] = job[q]
  BY DEF OthersStay, Quiet, Making
<1>2. EveryKeyIsKept'
  BY DEF Lone, EveryKeyIsKept, OnDisk, Quiet
<1> QED
  BY <1>1, <1>2 DEF Lone, Quiet

LEMMA ToolLone ==
    ASSUME Alone, FilesTyped, Lone, NEW p \in Process, ToolStep(p)
    PROVE  Lone'
<1> DEFINE j == job[p]
<1>0. /\ j \in Job /\ OthersStay(p) /\ Idle \notin Writing
      /\ \A q \in Process : q = p
      /\ Torn \notin KeyFile /\ NoFile \notin KeyFile
  BY ToolTyped, JobKinds, IdleIsJob, MarkAssumption DEF FilesTyped, Idle, Writers, Alone
<1>1. ASSUME NEW path \in Path, Load(p, path) PROVE Lone'
  <2>1. acting' = acting \cup {keyAt[path].sec} /\ keyAt[path] \in KeyFile
        /\ UNCHANGED <<keyAt, job, announced, away>>
    BY <1>1 DEF Load, disk
  <2>2. EveryKeyIsKept'
    BY <2>1 DEF Lone, EveryKeyIsKept, OnDisk
  <2> QED
    BY <2>1, <2>2 DEF Lone
<1>2. ASSUME NEW path \in Path, LoadCreates(p, path) PROVE Lone'
  <2>1. Generate(p, "load", path) /\ keyAt[path] = NoFile /\ UNCHANGED <<keyAt, announced, away, acting>>
    BY <1>2 DEF LoadCreates, disk
  <2>2. PICK k \in Key : Writes(p, "load", path, Pair(k), k)
    BY <2>1 DEF Generate
  <2>3. Pair(k) \in KeyFile /\ "load" \in Writers
    BY DEF Pair, KeyFile, Writers
  <2>4. job'[p] = [tool |-> "load", step |-> "create", path |-> path, file |-> Pair(k), pub |-> k]
    BY <2>2, <2>3, WritesTyped
  <2>5. job'[p].path = path /\ ~AtWrite(job'[p])
    BY <2>4 DEF AtWrite
  <2>6. EveryKeyIsKept'
    BY <2>1 DEF Lone, EveryKeyIsKept, OnDisk
  <2> QED
    BY <1>0, <2>1, <2>5, <2>6 DEF Lone
<1>3. CASE Create(p)
  <2>1. j \in Writing /\ j.step = "create" /\ j.path \in Path /\ UNCHANGED <<announced, away, acting>>
    BY <1>0, <1>3, JobKinds DEF Create, Writers, Writing, history
  <2>2. CASE Becomes(p, Idle) /\ UNCHANGED keyAt
    <3>1. job'[p] = Idle
      BY <2>2, IdleIsJob, BecomesTyped
    <3> QED
      BY <1>0, <2>1, <2>2, <3>1, QuietLone DEF Quiet, AtWrite
  <2>3. CASE /\ Becomes(p, [j EXCEPT !.step = "write"]) /\ keyAt' = [keyAt EXCEPT ![j.path] = Torn]
             /\ keyAt[j.path] = NoFile \/ Making(j)
    <3> DEFINE n == [j EXCEPT !.step = "write"]
    <3>1. n \in Writing /\ n.path = j.path /\ n.step = "write" /\ Becomes(p, n)
      BY <2>1, <2>3 DEF Writing
    <3> HIDE DEF n
    <3>2. job'[p] = n
      BY <3>1, BecomesTyped DEF Job
    <3>3. /\ keyAt'[j.path] = Torn
          /\ \A path \in Path : path # j.path => keyAt'[path] = keyAt[path]
      BY <2>1, <2>3 DEF FilesTyped
    <3>4. keyAt[j.path] \in KeyFile => keyAt[j.path].sec \in away
      BY <1>0, <2>3 DEF Lone
    <3>5. \A k : OnDisk(k) \/ k \in away => (OnDisk(k))' \/ k \in away'
      BY <2>1, <3>3, <3>4 DEF OnDisk
    <3>6. EveryKeyIsKept'
      BY <2>1, <3>5 DEF Lone, EveryKeyIsKept
    <3>7. ~Making(job'[p]) /\ job'[p].path = j.path
      BY <3>1, <3>2 DEF Making
    <3> QED
      BY <1>0, <3>3, <3>6, <3>7 DEF Lone
  <2>4. keyAt[j.path] = NoFile \/ Making(j) \/ (Becomes(p, Idle) /\ UNCHANGED keyAt)
    BY <1>3, <2>1 DEF Create, Exclusive, Making
  <2> QED
    BY <1>3, <2>2, <2>3, <2>4 DEF Create
<1>4. CASE Finish(p)
  <2>1. j \in Writing /\ AtWrite(j) /\ j.path \in Path /\ keyAt[j.path] = Torn
    BY <1>0, <1>4, JobKinds DEF Finish, Writers, Writing, AtWrite, Lone
  <2>2. /\ keyAt' = [keyAt EXCEPT ![j.path] = j.file] /\ UNCHANGED away /\ job'[p] = Idle
        /\ announced' \cup acting' \subseteq announced \cup acting \cup {j.file.sec}
        /\ j.file \in KeyFile
    BY <1>4, <2>1, IdleIsJob, BecomesTyped DEF Finish, Writing
  <2>3. /\ keyAt'[j.path] = j.file
        /\ \A path \in Path : path # j.path => keyAt'[path] = keyAt[path]
    BY <2>1, <2>2 DEF FilesTyped
  <2>4. \A k : OnDisk(k) => (OnDisk(k))'
    BY <1>0, <2>1, <2>3 DEF OnDisk
  <2>5. PICK file \in KeyFile : file = j.file
    BY <2>2
  <2>6. (OnDisk(file.sec))' /\ announced' \cup acting' \subseteq announced \cup acting \cup {file.sec}
    BY <2>1, <2>2, <2>3, <2>5 DEF OnDisk
  <2>7. EveryKeyIsKept'
    BY <2>2, <2>4, <2>6 DEF Lone, EveryKeyIsKept
  <2>8. ~AtWrite(job'[p]) /\ ~Making(job'[p])
    BY <1>0, <2>2 DEF AtWrite, Making
  <2> QED
    BY <1>0, <2>7, <2>8 DEF Lone
<1> QED
  BY <1>0, <1>1, <1>2, <1>3, <1>4, ToolQuiet, QuietLone

LEMMA NextLone == (Alone /\ FilesTyped /\ Lone /\ [Next]_vars) => Lone'
<1> SUFFICES ASSUME Alone, FilesTyped, Lone, [Next]_vars PROVE Lone'
  OBVIOUS
<1>0. NoFile \notin KeyFile /\ Torn \notin KeyFile /\ NoFile # Torn /\ Idle \notin Writing
  BY MarkAssumption, JobKinds, IdleIsJob DEF Idle, Writers
<1>1. ASSUME NEW p \in Process, ToolStep(p) PROVE Lone'
  BY <1>1, ToolLone
<1>2. ASSUME NEW path \in Path, MoveAside(path) PROVE Lone'
  <2>1. /\ keyAt'[path] = NoFile
        /\ \A q \in Path : q # path => keyAt'[q] = keyAt[q]
        /\ UNCHANGED <<job, announced, acting>> /\ away \subseteq away'
    BY <1>2 DEF MoveAside, FilesTyped
  <2>2. \A p \in Process : AtWrite(job[p]) => job[p].path # path /\ job[p].path \in Path
    <3>1. \A p \in Process : AtWrite(job[p]) =>
            job[p] # Idle /\ job[p].step = "write" /\ job[p].tool # "save" /\ job[p].path \in Path
      BY <1>0 DEF AtWrite, Writing, Writers
    <3> QED
      BY <1>2, <3>1 DEF MoveAside, BeingWritten
  <2>3. \A p \in Process : Making(job[p]) => job[p].path \in Path
    BY DEF Making, Writing
  <2>4. \A k : OnDisk(k) \/ k \in away => (OnDisk(k))' \/ k \in away'
    BY <1>2, <2>1 DEF MoveAside, OnDisk
  <2>5. EveryKeyIsKept'
    BY <2>1, <2>4 DEF Lone, EveryKeyIsKept
  <2>6. \A p \in Process : AtWrite(job'[p]) => keyAt'[job'[p].path] = Torn
    BY <2>1, <2>2 DEF Lone
  <2>7. \A p \in Process :
          Making(job'[p]) /\ keyAt'[job'[p].path] \in KeyFile => keyAt'[job'[p].path].sec \in away'
    BY <1>0, <2>1, <2>3 DEF Lone
  <2> QED
    BY <2>5, <2>6, <2>7 DEF Lone
<1>3. ASSUME NEW path \in Path, PutBack(path) PROVE Lone'
  <2>1. PICK file \in [pub : announced, sec : away] : keyAt' = [keyAt EXCEPT ![path] = file]
    BY <1>3 DEF PutBack
  <2>2. /\ keyAt[path] = NoFile /\ keyAt'[path] = file /\ file.sec \in away
        /\ \A q \in Path : q # path => keyAt'[q] = keyAt[q]
        /\ UNCHANGED <<job, announced, acting, away>>
    BY <1>3, <2>1 DEF PutBack, history, FilesTyped
  <2>3. \A p \in Process : AtWrite(job[p]) \/ Making(job[p]) => job[p].path \in Path
    BY DEF AtWrite, Making, Writing
  <2>4. \A k : OnDisk(k) \/ k \in away => (OnDisk(k))' \/ k \in away'
    BY <1>0, <2>2 DEF OnDisk
  <2>5. EveryKeyIsKept'
    BY <2>2, <2>4 DEF Lone, EveryKeyIsKept
  <2>6. \A p \in Process : AtWrite(job'[p]) => keyAt'[job'[p].path] = Torn
    BY <1>0, <2>2, <2>3 DEF Lone
  <2>7. \A p \in Process :
          Making(job'[p]) /\ keyAt'[job'[p].path] \in KeyFile => keyAt'[job'[p].path].sec \in away'
    BY <2>2, <2>3 DEF Lone
  <2> QED
    BY <2>5, <2>6, <2>7 DEF Lone
<1>4. ASSUME UNCHANGED <<job, keyAt, announced, away, acting>> PROVE Lone'
  BY <1>4 DEF Lone, EveryKeyIsKept, OnDisk
<1>5. ASSUME NEW at \in BackupPath, Alter(at) PROVE Lone'
  BY <1>4, <1>5 DEF Alter, history
<1>6. CASE MachineDies
  <2>1. /\ \A p \in Process : ~AtWrite(job'[p]) /\ ~Making(job'[p])
        /\ UNCHANGED <<announced, acting>>
    BY <1>0, <1>6 DEF MachineDies, AtWrite, Making
  <2>2. \A k : OnDisk(k) \/ k \in away => k \in away'
    BY <1>6 DEF MachineDies, OnDisk
  <2> QED
    BY <2>1, <2>2 DEF Lone, EveryKeyIsKept
<1>7. CASE UNCHANGED vars
  BY <1>4, <1>7 DEF vars, disk, history
<1> QED
  BY <1>1, <1>2, <1>3, <1>5, <1>6, <1>7 DEF Next

\* Where one process is at the files, no key that was announced or is acted under is
\* lost, on a devnet too, where missing keys are made (lib.ts:71-79).
THEOREM KeptAlone == ASSUME Alone PROVE Spec => []EveryKeyIsKept
<1>1. Init => Lone
  <2>1. Idle \notin Writing
    BY JobKinds, IdleIsJob DEF Idle, Writers
  <2> QED
    BY <2>1 DEF Init, Lone, EveryKeyIsKept, AtWrite, Making
<1>2. Lone => EveryKeyIsKept
  BY DEF Lone
<1>3. FilesTyped /\ Lone /\ [Next]_vars => Lone'
  BY NextLone
<1> QED
  BY <1>1, <1>2, <1>3, InitTyped, NextTyped, PTL DEF Spec
=============================================================================
