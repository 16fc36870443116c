-------------------------------- MODULE KeyFiles --------------------------------
(***************************************************************************)
(* The signing keys on disk: ts/src/keygen.ts makes one, loadOrCreateKey   *)
(* (lib.ts:71-81) is how every command comes by its own, and               *)
(* ts/src/key-backup.ts saves, checks and restores an encrypted copy.      *)
(* Several processes may be at it, an operator moves files about, and the  *)
(* machine may die.                                                        *)
(*                                                                         *)
(* A step is what a process does between two calls another process can see *)
(* the order of: a test for a file, its creation, the end of its writing,  *)
(* a passphrase that is typed.  A file that is being written, or whose     *)
(* writer died, is Torn: it is there, and it does not parse.               *)
(*                                                                         *)
(* Abstractions.  A key pair is its secret, from which the public key      *)
(* derives; a file names both, and may name a pair that does not match.    *)
(* Modes, the shapes a key file may have, the length of a passphrase and   *)
(* the terminal are left out.  A blob opens only with its passphrase and   *)
(* as it was sealed: that is what the cipher promises.                     *)
(***************************************************************************)
EXTENDS Naturals

CONSTANTS
    Path, BackupPath,
    Process,
    Key,            \* the keys that can be generated, each at most once
    NoFile, Torn

KeyFile == [pub : Key, sec : Key]
Typed == {"right", "slip", "another slip"}
Blob == [pub : Key, file : KeyFile, pass : Typed, whole : BOOLEAN]

ASSUME MarkAssumption == {NoFile, Torn} \cap (KeyFile \cup Blob) = {} /\ NoFile # Torn

VARIABLES
    devnet,         \* whether BH_NETWORK_ID names a development network
    keyAt,          \* per path: the key file there
    backupAt,       \* per backup path: the blob there, on another machine
    job,            \* per process: the tool it runs and how far it has come
    made,           \* the keys that were generated
    announced,      \* the keys keygen or a restore said it wrote, for their account to be funded
    away,           \* the keys the operator moved aside, or a dead machine took
    acting,         \* the keys commands have acted under
    saved,          \* the blobs `save` said it wrote, each as it was sealed
    restored        \* what `restore` wrote, each with the public key of its blob

disk == <<keyAt, backupAt>>
history == <<made, announced, away, acting, saved, restored>>
vars == <<devnet, disk, job, history>>

Derives(sec, pub) == sec = pub
Pair(k) == [pub |-> k, sec |-> k]

--------------------------------------------------------------------------------
(* Writing.  `job[p].file` is what the process writes to `job[p].path`.        *)

Idle == [tool |-> "none"]

Becomes(p, j) == job' = [job EXCEPT ![p] = j]
Writes(p, tool, path, file, pub) ==
    Becomes(p, [tool |-> tool, step |-> "create", path |-> path, file |-> file, pub |-> pub])

At(p, tool, step) == job[p] # Idle /\ job[p].tool = tool /\ job[p].step = step

NeverExclusive(p) == FALSE          \* mutant: writeFileSync without 'wx'
Exclusive(p) == job[p].tool # "load"

\* The file is created, or emptied if it may be there already.  'wx' fails on one
\* that has appeared since the process looked.
Create(p) ==
    /\ job[p] # Idle /\ job[p].tool \in {"keygen", "load", "restore"} /\ job[p].step = "create"
    /\ IF Exclusive(p) /\ keyAt[job[p].path] # NoFile
       THEN Becomes(p, Idle) /\ UNCHANGED keyAt
       ELSE /\ keyAt' = [keyAt EXCEPT ![job[p].path] = Torn]
            /\ Becomes(p, [job[p] EXCEPT !.step = "write"])
    /\ UNCHANGED <<devnet, backupAt, history>>

\* The write ends, and the tool says so.
Finish(p) ==
    LET j == job[p] IN
    /\ j # Idle /\ j.tool \in {"keygen", "load", "restore"} /\ j.step = "write"
    /\ keyAt' = [keyAt EXCEPT ![j.path] = j.file]
    /\ announced' = IF j.tool = "load" THEN announced ELSE announced \cup {j.file.sec}
    /\ acting' = IF j.tool = "load" THEN acting \cup {j.file.sec} ELSE acting
    /\ restored' = IF j.tool = "restore" THEN restored \cup {[pub |-> j.pub, file |-> j.file]} ELSE restored
    /\ Becomes(p, Idle)
    /\ UNCHANGED <<devnet, backupAt, made, away, saved>>

--------------------------------------------------------------------------------
(* keygen and loadOrCreateKey. *)

Generate(p, tool, path) ==
    \E k \in Key \ made :
        /\ made' = made \cup {k}
        /\ Writes(p, tool, path, Pair(k), k)

\* keygen refuses a path that is taken, by whatever file.
Keygen(p, path) ==
    /\ job[p] = Idle
    /\ keyAt[path] = NoFile
    /\ Generate(p, "keygen", path)
    /\ UNCHANGED <<devnet, disk, announced, away, acting, saved, restored>>

Load(p, path) ==
    /\ job[p] = Idle
    /\ keyAt[path] \in KeyFile
    /\ acting' = acting \cup {keyAt[path].sec}
    /\ UNCHANGED <<devnet, disk, job, made, announced, away, saved, restored>>

AnyNetwork == TRUE                  \* mutant: a missing key is made everywhere
AllowCreate == devnet

\* Only on a devnet is a missing key made.
LoadCreates(p, path) ==
    /\ job[p] = Idle
    /\ keyAt[path] = NoFile /\ AllowCreate
    /\ Generate(p, "load", path)
    /\ UNCHANGED <<devnet, disk, announced, away, acting, saved, restored>>

--------------------------------------------------------------------------------
(* key-backup save. *)

\* A pair that does not match itself is refused.
SaveReads(p, path, at) ==
    /\ job[p] = Idle
    /\ backupAt[at] = NoFile
    /\ keyAt[path] \in KeyFile /\ Derives(keyAt[path].sec, keyAt[path].pub)
    /\ Becomes(p, [tool |-> "save", step |-> "ask", path |-> path, at |-> at, file |-> keyAt[path]])
    /\ UNCHANGED <<devnet, disk, history>>

\* The operator means one passphrase, and two slips are never alike.
TypeOnce(p) ==
    /\ At(p, "save", "ask")
    /\ \E typed \in {"right", "slip"} :
         Becomes(p, [tool |-> "save", step |-> "again", path |-> job[p].path, at |-> job[p].at,
                     file |-> job[p].file, typed |-> typed])
    /\ UNCHANGED <<devnet, disk, history>>

\* Mutants: the blob is not opened before it is written; one answer is enough.
SealUnopened(p) ==
    LET j == job[p]
        blob == [pub |-> j.file.pub, file |-> keyAt[j.path], pass |-> j.typed, whole |-> TRUE] IN
    /\ At(p, "save", "again")
    /\ keyAt[j.path] \in KeyFile /\ backupAt[j.at] = NoFile /\ j.typed = "right"
    /\ backupAt' = [backupAt EXCEPT ![j.at] = Torn]
    /\ Becomes(p, [tool |-> "save", step |-> "write", at |-> j.at, blob |-> blob])
    /\ UNCHANGED <<devnet, keyAt, history>>

\* The second answer is the first.  The file is read again, after both: what is
\* sealed is the whole file as it is now, and the blob is opened and held against
\* the key that was read at the start.
Seal(p) ==
    LET j == job[p]
        blob == [pub |-> j.file.pub, file |-> keyAt[j.path], pass |-> j.typed, whole |-> TRUE] IN
    /\ At(p, "save", "again")
    /\ keyAt[j.path] \in KeyFile /\ backupAt[j.at] = NoFile
    /\ \E typed \in {"right", "another slip"} : typed = j.typed
    /\ blob.file.sec = j.file.sec /\ Derives(blob.file.sec, j.file.pub)
    /\ backupAt' = [backupAt EXCEPT ![j.at] = Torn]
    /\ Becomes(p, [tool |-> "save", step |-> "write", at |-> j.at, blob |-> blob])
    /\ UNCHANGED <<devnet, keyAt, history>>

Sealed(p) ==
    /\ At(p, "save", "write")
    /\ backupAt' = [backupAt EXCEPT ![job[p].at] = job[p].blob]
    /\ saved' = saved \cup {job[p].blob}
    /\ Becomes(p, Idle)
    /\ UNCHANGED <<devnet, keyAt, made, announced, away, acting, restored>>

--------------------------------------------------------------------------------
(* key-backup check and restore. *)

\* restore refuses a path that is taken before it asks for the passphrase.
BlobRead(p, tool, path, at) ==
    /\ job[p] = Idle
    /\ backupAt[at] \in Blob
    /\ tool = "restore" => keyAt[path] = NoFile
    /\ Becomes(p, [tool |-> tool, step |-> "ask", path |-> path, blob |-> backupAt[at]])
    /\ UNCHANGED <<devnet, disk, history>>

\* Mutant: the authentication tag is not verified.
OpensUntagged(blob, typed) == typed = blob.pass

Opens(blob, typed) == typed = blob.pass /\ blob.whole

\* What does not open, or opens to another key, is refused.
BlobOpens(p) ==
    LET j == job[p] IN
    /\ At(p, "check", "ask") \/ At(p, "restore", "ask")
    /\ \E typed \in {"right", "slip"} : Opens(j.blob, typed)
    /\ Derives(j.blob.file.sec, j.blob.pub)
    /\ IF j.tool = "check" THEN Becomes(p, Idle)
       ELSE Writes(p, "restore", j.path, j.blob.file, j.blob.pub)
    /\ UNCHANGED <<devnet, disk, history>>

\* A refusal, an interrupt at a prompt, a crash: what was created stays.
Die(p) ==
    /\ job[p] # Idle
    /\ Becomes(p, Idle)
    /\ UNCHANGED <<devnet, disk, history>>

--------------------------------------------------------------------------------
(* The operator and the world. *)

BeingWritten(path) ==
    \E p \in Process : job[p] # Idle /\ job[p].step = "write" /\ job[p].tool # "save" /\ job[p].path = path

MoveAside(path) ==
    /\ keyAt[path] # NoFile /\ ~BeingWritten(path)
    /\ away' = IF keyAt[path] \in KeyFile THEN away \cup {keyAt[path].sec} ELSE away
    /\ keyAt' = [keyAt EXCEPT ![path] = NoFile]
    /\ UNCHANGED <<devnet, backupAt, job, made, announced, acting, saved, restored>>

\* A file is put back, or the wrong pair is put together by hand.
PutBack(path) ==
    /\ keyAt[path] = NoFile
    /\ \E file \in [pub : announced, sec : away] : keyAt' = [keyAt EXCEPT ![path] = file]
    /\ UNCHANGED <<devnet, backupAt, job, history>>

\* A blob is altered: another public key, or a text that would read as another file.
Alter(at) ==
    /\ backupAt[at] \in Blob
    /\ \/ \E pub \in Key : backupAt' = [backupAt EXCEPT ![at].pub = pub, ![at].whole = FALSE]
       \/ \E file \in KeyFile : backupAt' = [backupAt EXCEPT ![at].file = file, ![at].whole = FALSE]
    /\ UNCHANGED <<devnet, keyAt, job, history>>

MachineDies ==
    /\ \E path \in Path : keyAt[path] # NoFile
    /\ away' = away \cup {keyAt[path].sec : path \in {q \in Path : keyAt[q] \in KeyFile}}
    /\ keyAt' = [path \in Path |-> NoFile]
    /\ job' = [p \in Process |-> Idle]
    /\ UNCHANGED <<devnet, backupAt, made, announced, acting, saved, restored>>

--------------------------------------------------------------------------------

Init ==
    /\ devnet \in BOOLEAN
    /\ keyAt = [path \in Path |-> NoFile]
    /\ backupAt = [at \in BackupPath |-> NoFile]
    /\ job = [p \in Process |-> Idle]
    /\ made = {} /\ announced = {} /\ away = {} /\ acting = {}
    /\ saved = {} /\ restored = {}

ToolStep(p) ==
    \/ \E path \in Path : Keygen(p, path) \/ Load(p, path) \/ LoadCreates(p, path)
    \/ \E path \in Path, at \in BackupPath :
         SaveReads(p, path, at) \/ BlobRead(p, "check", path, at) \/ BlobRead(p, "restore", path, at)
    \/ Create(p) \/ Finish(p) \/ TypeOnce(p) \/ Seal(p) \/ Sealed(p) \/ BlobOpens(p) \/ Die(p)

Next ==
    \/ \E p \in Process : ToolStep(p)
    \/ \E path \in Path : MoveAside(path) \/ PutBack(path)
    \/ \E at \in BackupPath : Alter(at)
    \/ MachineDies

Spec == Init /\ [][Next]_vars

--------------------------------------------------------------------------------
(* Properties. *)

\* A key that was announced, and may be funded from then on, is on disk until the
\* operator moves it or the machine dies: outside a devnet no tool, in whatever order
\* processes test and create, ever overwrites it (keygen.ts:3-6).
OnDisk(k) == \E path \in Path : keyAt[path] \in KeyFile /\ keyAt[path].sec = k

AnnouncedIsKept == ~devnet => \A k \in announced : OnDisk(k) \/ k \in away

\* The same of every key whose account holds anything, whether it was announced or a
\* command acts under it.  On a devnet it takes a second process to lose one: between
\* the test for a file and its creation (lib.ts:73-77) only another tool can put a key
\* there that is not somewhere else as well.
EveryKeyIsKept == \A k \in announced \cup acting : OnDisk(k) \/ k \in away

\* Outside a devnet no command acts under a key it made for itself, which nobody holds
\* (lib.ts:71-72).
ActsUnderHeldKeys == ~devnet => acting \subseteq announced

\* Every blob that was ever handed over opens with the passphrase the operator means
\* and gives back the key it is named for, although the file was read twice with two
\* passphrases typed in between (key-backup.ts:18-20, 131-136).
Restorable(blob) == Opens(blob, "right") /\ Derives(blob.file.sec, blob.pub)

SavedIsRestorable == \A blob \in saved : Restorable(blob)

\* What a restore writes is, whole, what was saved under the public key the blob names:
\* no blob that was altered, or passed off as another, is ever written out
\* (key-backup.ts:25-27, 119-122).
RestoredWasSaved ==
    \A r \in restored : \E blob \in saved : blob.pub = r.pub /\ blob.file = r.file
=============================================================================
