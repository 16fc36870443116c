----------------------------- MODULE DeployProofs -----------------------------
(***************************************************************************)
(* Theorems about DeployCeremony for any chains, runs, modes, time to live *)
(* and bound on time.  What overlapping runs can break assumes OneRun, and *)
(* what a failed lookup can break assumes that none fails.                 *)
(***************************************************************************)
EXTENDS DeployCeremony, TLAPS

Mind == [who : {"available", "ours", "lost"}, file : Cmd \cup {NoFile} \cup Run,
         seen : {"none", "success", "failure"}, held : BOOLEAN]

OneRun == \A r, s \in Run : r = s

--------------------------------------------------------------------------------
(* What a step of a run does to its chain's place and memory. *)

LEMMA GoAt ==
    ASSUME TypeOK, NEW r \in Run, NEW c \in Chain, NEW step \in Steps, Go(r, c, step)
    PROVE  /\ at' \in [Run -> [Chain -> Steps]]
           /\ \A s \in Run, d \in Chain : at'[s][d] = IF s = r /\ d = c THEN step ELSE at[s][d]
BY DEF TypeOK, Go

LEMMA MindAt ==
    ASSUME TypeOK, NEW r \in Run, NEW c \in Chain, NEW m \in Mind, mind' = [mind EXCEPT ![r][c] = m]
    PROVE  /\ mind' \in [Run -> [Chain -> Mind]]
           /\ \A s \in Run, d \in Chain : mind'[s][d] = IF s = r /\ d = c THEN m ELSE mind[s][d]
BY DEF TypeOK, Mind

\* A command is at hand where one will be sent, and belongs to its chain.
HasFile ==
    /\ \A r \in Run, c \in Chain : at[r][c] \in {"preflight", "write", "poll"} =>
         mind[r][c].file \in Cmd /\ mind[r][c].file.chain = c
    /\ \A c \in Chain : path[c] \in Cmd => path[c].chain = c
    /\ \A c \in Chain : holder[c] \in Cmd => holder[c].chain = c

\* The parts of TypeOK, by who changes them.
ChainsTyped ==
    /\ now \in 0..TimeBound
    /\ holder \in [Chain -> Cmd \cup {Free, Copy}]
    /\ failed \subseteq Cmd /\ wire \subseteq Cmd /\ pool \subseteq Cmd
DiskTyped == path \in [Chain -> Cmd \cup {NoFile} \cup Run] /\ superseded \subseteq Cmd
RunsTyped ==
    /\ mode \in [Run -> Mode \cup {"none"}]
    /\ files \in [Run -> SUBSET Cmd]
    /\ at \in [Run -> [Chain -> Steps]]
    /\ mind \in [Run -> [Chain -> Mind]]
SendTyped == send \in [step : {"idle", "status", "preflight"}, todo : SUBSET Cmd, items : SUBSET Cmd]

LEMMA Parts == TypeOK <=> ChainsTyped /\ DiskTyped /\ RunsTyped /\ SendTyped
BY DEF TypeOK, ChainsTyped, DiskTyped, RunsTyped, SendTyped, Mind

LEMMA DiskIsCommands == TypeOK => OnDisk \subseteq Cmd
BY DEF TypeOK, OnDisk

Looks(r, c, who, held) ==
    /\ mind'[r][c] = [who |-> who, file |-> path[c], seen |-> "none", held |-> held]
    /\ at'[r][c] = IF who = "ours" THEN "untouched"
                   ELSE IF path[c] \in Cmd THEN "status"
                   ELSE IF path[c] # NoFile THEN "time"
                   ELSE IF who = "lost" THEN "lost" ELSE "build"

LEMMA LookUpdates ==
    ASSUME TypeOK, NEW r \in Run, NEW c \in Chain, NEW who \in {"available", "ours", "lost"},
           NEW held \in BOOLEAN, LookForFile(r, c, who, held)
    PROVE  /\ RunsTyped'
           /\ \A s \in Run, d \in Chain : s # r \/ d # c =>
                at'[s][d] = at[s][d] /\ mind'[s][d] = mind[s][d]
           /\ Looks(r, c, who, held)
<1> DEFINE step == IF who = "ours" THEN "untouched"
                   ELSE IF path[c] \in Cmd THEN "status"
                   ELSE IF path[c] # NoFile THEN "time"
                   ELSE IF who = "lost" THEN "lost" ELSE "build"
           m == [who |-> who, file |-> path[c], seen |-> "none", held |-> held]
<1>1. step \in Steps
  BY DEF Steps, Over
<1>2. m \in Mind
  BY DEF TypeOK, Mind
<1>3. Go(r, c, step) /\ mind' = [mind EXCEPT ![r][c] = m] /\ UNCHANGED <<mode, files>>
  BY DEF LookForFile
<1> HIDE DEF step, m
<1>4. /\ at' \in [Run -> [Chain -> Steps]]
      /\ \A s \in Run, d \in Chain : at'[s][d] = IF s = r /\ d = c THEN step ELSE at[s][d]
  BY <1>1, <1>3, GoAt
<1>5. /\ mind' \in [Run -> [Chain -> Mind]]
      /\ \A s \in Run, d \in Chain : mind'[s][d] = IF s = r /\ d = c THEN m ELSE mind[s][d]
  BY <1>2, <1>3, MindAt
<1>6. RunsTyped'
  BY <1>3, <1>4, <1>5 DEF RunsTyped, TypeOK
<1> QED
  BY <1>4, <1>5, <1>6 DEF step, m, Looks

OthersStay(r, c) ==
    \A s \in Run, d \in Chain : s # r \/ d # c => at'[s][d] = at[s][d] /\ mind'[s][d] = mind[s][d]

Memories == UNCHANGED <<mode, files>>

Removes(c) == path[c] # NoFile /\ path' = [path EXCEPT ![c] = NoFile] /\ UNCHANGED superseded

\* Every step of a run on a chain: what becomes of its place and its memory.
LEMMA StepUpdates ==
    ASSUME TypeOK, HasFile, NEW r \in Run, NEW c \in Chain, DeployStep(r, c)
    PROVE  /\ RunsTyped' /\ OthersStay(r, c) /\ Memories
           /\ \/ /\ at[r][c] = "describe" /\ at'[r][c] = "own" /\ holder[c] # Free
                 /\ mind'[r][c] = [mind[r][c] EXCEPT !.held = TRUE]
                 /\ UNCHANGED <<chainVars, diskVars, send>>
              \/ /\ at[r][c] = "describe" /\ (holder[c] # Free => Unanswered)
                 /\ Looks(r, c, Ownership(c, FALSE, files[r]), holder[c] # Free)
                 /\ UNCHANGED <<chainVars, diskVars, send>>
              \/ /\ at[r][c] = "own"
                 /\ Looks(r, c, Ownership(c, TRUE, files[r]), TRUE)
                 /\ UNCHANGED <<chainVars, diskVars, send>>
              \/ /\ at[r][c] = "status" /\ at'[r][c] = "time"
                 /\ mind'[r][c] = [mind[r][c] EXCEPT !.seen = Status(mind[r][c].file)]
                 /\ UNCHANGED <<chainVars, diskVars, send>>
              \/ /\ at[r][c] = "time" /\ Keeps(r, c) /\ at'[r][c] = "kept"
                 /\ mind'[r][c] = mind[r][c]
                 /\ UNCHANGED <<chainVars, diskVars, send>>
              \/ /\ at[r][c] = "time" /\ ~Keeps(r, c) /\ Aside(c) /\ at'[r][c] = "unlink"
                 /\ mind'[r][c] = mind[r][c]
                 /\ UNCHANGED <<chainVars, send>>
              \/ /\ at[r][c] = "unlink" /\ Removes(c)
                 /\ at'[r][c] = (IF mind[r][c].who = "lost" THEN "lost" ELSE "build")
                 /\ mind'[r][c] = mind[r][c]
                 /\ UNCHANGED <<chainVars, send>>
              \/ /\ at[r][c] = "build" /\ at'[r][c] = "write" /\ Create(r, c)
                 /\ mode[r] = "unsigned"
                 /\ mind'[r][c] = [mind[r][c] EXCEPT !.file = [chain |-> c, created |-> now]]
                 /\ UNCHANGED <<chainVars, send>>
              \/ /\ at[r][c] = "write" /\ at'[r][c] = "written" /\ Fill(r, c)
                 /\ mind'[r][c] = mind[r][c]
                 /\ UNCHANGED <<chainVars, send>>
              \/ /\ at[r][c] = "build" /\ at'[r][c] = "preflight"
                 /\ mind'[r][c] = [mind[r][c] EXCEPT !.file = [chain |-> c, created |-> now]]
                 /\ UNCHANGED <<chainVars, diskVars, send>>
              \/ /\ at[r][c] = "preflight" /\ at'[r][c] = "write" /\ Create(r, c)
                 /\ holder[c] = Free
                 /\ mind'[r][c] = mind[r][c]
                 /\ UNCHANGED <<chainVars, send>>
              \/ /\ at[r][c] = "write" /\ at'[r][c] = "poll" /\ Fill(r, c)
                 /\ mode[r] = "direct"
                 /\ wire' = wire \cup {mind[r][c].file}
                 /\ mind'[r][c] = mind[r][c]
                 /\ UNCHANGED <<now, holder, failed, pool, send>>
              \/ /\ at[r][c] = "poll" /\ at'[r][c] = "deployed"
                 /\ mind'[r][c] = mind[r][c]
                 /\ UNCHANGED <<chainVars, diskVars, send>>
<1>0. /\ mind[r][c] \in Mind /\ path[c] \in Cmd \cup {NoFile} \cup Run /\ now \in 0..TimeBound
      /\ RunsTyped
  BY DEF TypeOK, RunsTyped, Mind
<1>1. \A m \in BOOLEAN, k \in SUBSET Cmd : Ownership(c, m, k) \in {"available", "ours", "lost"}
  BY DEF Ownership
<1>2. \A f : Status(f) \in {"none", "success", "failure"}
  BY DEF Status
<1>3. ASSUME NEW step \in Steps, Go(r, c, step), UNCHANGED <<mind, mode, files>>
      PROVE  RunsTyped' /\ OthersStay(r, c) /\ Memories /\ at'[r][c] = step /\ mind'[r][c] = mind[r][c]
  BY <1>0, <1>3, GoAt DEF RunsTyped, OthersStay, Memories
<1>4. ASSUME NEW step \in Steps, NEW m \in Mind, Go(r, c, step),
             mind' = [mind EXCEPT ![r][c] = m], UNCHANGED <<mode, files>>
      PROVE  RunsTyped' /\ OthersStay(r, c) /\ Memories /\ at'[r][c] = step /\ mind'[r][c] = m
  BY <1>0, <1>4, GoAt, MindAt DEF RunsTyped, OthersStay, Memories
<1>5. {"own", "time", "kept", "unlink", "lost", "build", "write", "written", "preflight", "poll",
       "deployed"} \subseteq Steps
  BY DEF Steps, Over
<1>6. CASE Describe(r, c)
  <2>1. CASE /\ holder[c] # Free
             /\ mind' = [mind EXCEPT ![r][c].held = TRUE]
             /\ Go(r, c, "own")
             /\ UNCHANGED <<chainVars, diskVars, mode, files, send>>
    <3> DEFINE m == [mind[r][c] EXCEPT !.held = TRUE]
    <3>1. m \in Mind /\ mind' = [mind EXCEPT ![r][c] = m]
      BY <1>0, <2>1 DEF Mind
    <3> HIDE DEF m
    <3>2. RunsTyped' /\ OthersStay(r, c) /\ Memories /\ at'[r][c] = "own" /\ mind'[r][c] = m
      BY <1>4, <1>5, <2>1, <3>1
    <3> QED
      BY <1>6, <2>1, <3>2 DEF Describe, m
  <2>2. CASE /\ holder[c] = Free \/ Unanswered
             /\ LookForFile(r, c, Ownership(c, FALSE, files[r]), holder[c] # Free)
    <3>1. files[r] \in SUBSET Cmd
      BY DEF TypeOK
    <3>2. RunsTyped' /\ OthersStay(r, c) /\ Looks(r, c, Ownership(c, FALSE, files[r]), holder[c] # Free)
      <4> DEFINE who == Ownership(c, FALSE, files[r])
                 held == holder[c] # Free
      <4>1. who \in {"available", "ours", "lost"} /\ held \in BOOLEAN /\ LookForFile(r, c, who, held)
        BY <1>1, <2>2, <3>1
      <4> HIDE DEF who, held
      <4>2. RunsTyped' /\ OthersStay(r, c) /\ Looks(r, c, who, held)
        BY <4>1, LookUpdates DEF OthersStay
      <4> QED
        BY <4>2 DEF who, held
    <3>3. UNCHANGED <<chainVars, diskVars, send, mode, files>>
      BY <2>2 DEF LookForFile
    <3>4. at[r][c] = "describe"
      BY <1>6 DEF Describe
    <3> QED
      BY <2>2, <3>2, <3>3, <3>4 DEF Memories
  <2> QED
    BY <1>6, <2>1, <2>2 DEF Describe
<1>7. CASE Own(r, c)
  <2>1. files[r] \in SUBSET Cmd
    BY DEF TypeOK
  <2>2. RunsTyped' /\ OthersStay(r, c) /\ Looks(r, c, Ownership(c, TRUE, files[r]), TRUE)
    BY <1>1, <1>7, <2>1, LookUpdates DEF OthersStay, Own
  <2>3. UNCHANGED <<chainVars, diskVars, send, mode, files>> /\ at[r][c] = "own"
    BY <1>7 DEF LookForFile, Own
  <2> QED
    BY <2>2, <2>3 DEF Memories
<1>8. CASE JudgeStatus(r, c)
  <2> DEFINE m == [mind[r][c] EXCEPT !.seen = Status(mind[r][c].file)]
  <2>1. m \in Mind /\ mind' = [mind EXCEPT ![r][c] = m]
    BY <1>0, <1>2, <1>8 DEF Mind, JudgeStatus
  <2> HIDE DEF m
  <2>2. RunsTyped' /\ OthersStay(r, c) /\ Memories /\ at'[r][c] = "time" /\ mind'[r][c] = m
    BY <1>4, <1>5, <1>8, <2>1 DEF JudgeStatus
  <2> QED
    BY <1>8, <2>2 DEF JudgeStatus, m
<1>9. CASE Plan(r, c)
  <2>1. CASE Keeps(r, c)
    BY <1>3, <1>5, <1>9, <2>1 DEF Plan
  <2>2. CASE ~Keeps(r, c)
    BY <1>3, <1>5, <1>9, <2>2 DEF Plan
  <2> QED
    BY <2>1, <2>2
<1>10. CASE Unlink(r, c)
  BY <1>3, <1>5, <1>10 DEF Unlink, Removes
<1>11. CASE WriteUnsigned(r, c) \/ BuildDirect(r, c)
  <2> DEFINE m == [mind[r][c] EXCEPT !.file = [chain |-> c, created |-> now]]
  <2>1. m \in Mind /\ mind' = [mind EXCEPT ![r][c] = m] /\ at[r][c] = "build"
        /\ UNCHANGED <<chainVars, mode, files, send>>
    BY <1>0, <1>11 DEF Mind, Cmd, BuildDirect, WriteUnsigned, Built
  <2> HIDE DEF m
  <2>2. CASE WriteUnsigned(r, c)
    <3>1. Go(r, c, "write") /\ Create(r, c) /\ mode[r] = "unsigned"
      BY <2>2 DEF WriteUnsigned, Create
    <3>2. RunsTyped' /\ OthersStay(r, c) /\ Memories /\ at'[r][c] = "write" /\ mind'[r][c] = m
      BY <1>4, <1>5, <2>1, <3>1
    <3> QED
      BY <2>1, <3>1, <3>2 DEF m
  <2>3. CASE BuildDirect(r, c)
    <3>1. Go(r, c, "preflight") /\ UNCHANGED diskVars
      BY <2>3 DEF BuildDirect
    <3>2. RunsTyped' /\ OthersStay(r, c) /\ Memories /\ at'[r][c] = "preflight" /\ mind'[r][c] = m
      BY <1>4, <1>5, <2>1, <3>1
    <3> QED
      BY <2>1, <3>1, <3>2 DEF m
  <2> QED
    BY <1>11, <2>2, <2>3
<1>12. CASE Preflight(r, c)
  <2>1. Go(r, c, "write")
    BY <1>12 DEF Preflight, Create
  <2> QED
    BY <1>3, <1>5, <1>12, <2>1 DEF Preflight
<1>13. CASE Written(r, c)
  BY <1>3, <1>5, <1>13 DEF Written, Fill
<1>14. CASE Submit(r, c)
  BY <1>3, <1>5, <1>14 DEF Submit, Fill
<1>15. CASE Mined(r, c)
  BY <1>3, <1>5, <1>15 DEF Mined
<1> QED
  BY <1>6, <1>7, <1>8, <1>9, <1>10, <1>11, <1>12, <1>13, <1>14, <1>15 DEF DeployStep

\* What a step of a run does to the disk: to its own chain's path, and to superseded/.
LEMMA DiskMoves ==
    ASSUME TypeOK, HasFile, NEW r \in Run, NEW c \in Chain, DeployStep(r, c)
    PROVE  \/ UNCHANGED diskVars
           \/ at[r][c] = "time" /\ ~Keeps(r, c) /\ Aside(c)
           \/ at[r][c] = "unlink" /\ Removes(c)
           \/ at[r][c] \in {"build", "preflight"} /\ Create(r, c)
           \/ /\ at[r][c] = "write" /\ Fill(r, c)
              /\ mind[r][c].file \in Cmd /\ mind[r][c].file.chain = c
<1>1. at[r][c] = "write" => mind[r][c].file \in Cmd /\ mind[r][c].file.chain = c
  BY DEF HasFile
<1> QED
  BY <1>1, StepUpdates

LEMMA PathMoves ==
    ASSUME TypeOK, HasFile, NEW r \in Run, NEW c \in Chain, DeployStep(r, c)
    PROVE  /\ DiskTyped'
           /\ \A d \in Chain : d # c => path'[d] = path[d]
           /\ \A d \in Chain : path'[d] \in Cmd => path'[d].chain = d
           /\ superseded' \in {superseded, superseded \cup ({path[c]} \cap Cmd)}
<1>0. DiskTyped
  BY Parts
<1>1. CASE UNCHANGED diskVars
  BY <1>0, <1>1 DEF DiskTyped, diskVars, HasFile
<1>2. CASE Aside(c)
  BY <1>0, <1>2 DEF DiskTyped, Aside, HasFile
<1>3. CASE Removes(c)
  BY <1>0, <1>3, MarkAssumption DEF DiskTyped, Removes, HasFile
<1>4. CASE Create(r, c)
  BY <1>0, <1>4, MarkAssumption DEF DiskTyped, Create, HasFile
<1>5. CASE Fill(r, c) /\ mind[r][c].file \in Cmd /\ mind[r][c].file.chain = c
  BY <1>0, <1>5 DEF DiskTyped, Fill, HasFile
<1> QED
  BY <1>1, <1>2, <1>3, <1>4, <1>5, DiskMoves

Idles(r) == \A s \in Run, c \in Chain :
    /\ at'[s][c] = IF s = r THEN "idle" ELSE at[s][c]
    /\ mind'[s][c] = IF s = r THEN Blank ELSE mind[s][c]

LEMMA IdleUpdates ==
    ASSUME TypeOK, NEW r \in Run, Idle(r)
    PROVE  RunsTyped' /\ Idles(r)
<1>1. Blank \in Mind
  BY DEF Blank, Mind
<1>2. "idle" \in Steps
  BY DEF Steps
<1>3. at' \in [Run -> [Chain -> Steps]] /\ mind' \in [Run -> [Chain -> Mind]]
  BY <1>1, <1>2 DEF Idle, TypeOK, Mind
<1>4. mode' \in [Run -> Mode \cup {"none"}] /\ files' \in [Run -> SUBSET Cmd]
  BY DEF Idle, TypeOK
<1>5. Idles(r)
  BY DEF Idle, Idles, TypeOK
<1> QED
  BY <1>3, <1>4, <1>5 DEF RunsTyped

LEMMA StartUpdates ==
    ASSUME TypeOK, NEW r \in Run, Start(r)
    PROVE  /\ RunsTyped'
           /\ \A s \in Run, c \in Chain :
                /\ at'[s][c] = IF s = r THEN "describe" ELSE at[s][c]
                /\ mind'[s][c] = IF s = r THEN Blank ELSE mind[s][c]
           /\ \A s \in Run : files'[s] = IF s = r THEN OnDisk ELSE files[s]
<1>1. Blank \in Mind
  BY DEF Blank, Mind
<1>2. "describe" \in Steps
  BY DEF Steps
<1>3. at' \in [Run -> [Chain -> Steps]] /\ mind' \in [Run -> [Chain -> Mind]]
  BY <1>1, <1>2 DEF Start, TypeOK, Mind
<1>4. mode' \in [Run -> Mode \cup {"none"}] /\ files' \in [Run -> SUBSET Cmd]
  BY DiskIsCommands DEF Start, TypeOK
<1>5. \A s \in Run, c \in Chain :
        /\ at'[s][c] = IF s = r THEN "describe" ELSE at[s][c]
        /\ mind'[s][c] = IF s = r THEN Blank ELSE mind[s][c]
  BY DEF Start, TypeOK
<1>6. \A s \in Run : files'[s] = IF s = r THEN OnDisk ELSE files[s]
  BY DEF Start, TypeOK
<1> QED
  BY <1>3, <1>4, <1>5, <1>6 DEF RunsTyped

--------------------------------------------------------------------------------
(* Types. *)

LEMMA StepTyped ==
    ASSUME TypeOK, HasFile, NEW r \in Run, NEW c \in Chain, DeployStep(r, c)
    PROVE  TypeOK' /\ HasFile'
<1>0. ChainsTyped /\ DiskTyped /\ RunsTyped /\ SendTyped
  BY Parts
<1>1. RunsTyped' /\ OthersStay(r, c)
  BY StepUpdates
<1>2. [chain |-> c, created |-> now] \in Cmd
  BY DEF Cmd, TypeOK
<1>3. at[r][c] \in {"preflight", "write"} => mind[r][c].file \in Cmd /\ mind[r][c].file.chain = c
  BY DEF HasFile
<1>4. /\ UNCHANGED send /\ UNCHANGED <<now, holder, failed, pool>>
      /\ wire' = wire \/ (at[r][c] = "write" /\ wire' = wire \cup {mind[r][c].file})
  BY StepUpdates DEF chainVars
<1>5. ChainsTyped'
  BY <1>0, <1>3, <1>4 DEF ChainsTyped
<1>6. DiskTyped'
  BY PathMoves
<1>7. SendTyped'
  BY <1>0, <1>4 DEF SendTyped
<1>8. TypeOK'
  BY <1>1, <1>5, <1>6, <1>7 DEF TypeOK, ChainsTyped, DiskTyped, RunsTyped, SendTyped, Mind
<1>9. ASSUME NEW s \in Run, NEW d \in Chain, at'[s][d] \in {"preflight", "write", "poll"}
      PROVE  mind'[s][d].file \in Cmd /\ mind'[s][d].file.chain = d
  <2>1. CASE s # r \/ d # c
    BY <1>1, <1>9, <2>1 DEF OthersStay, HasFile
  <2>2. CASE s = r /\ d = c
    <3>1. mind[r][c] \in Mind
      BY <1>0 DEF RunsTyped
    <3>2. CASE at[r][c] = "build"
      <4>1. mind'[r][c] = [mind[r][c] EXCEPT !.file = [chain |-> c, created |-> now]]
        BY <1>9, <2>2, <3>2, StepUpdates
      <4>2. mind'[r][c].file = [chain |-> c, created |-> now]
        BY <3>1, <4>1 DEF Mind
      <4> QED
        BY <1>2, <2>2, <4>2
    <3>3. CASE at[r][c] \in {"preflight", "write"}
      BY <1>3, <1>9, <2>2, <3>3, StepUpdates
    <3>4. at[r][c] \in {"build", "preflight", "write"}
      BY <1>9, <2>2, StepUpdates DEF Looks
    <3> QED
      BY <3>2, <3>3, <3>4
  <2> QED
    BY <2>1, <2>2
<1>10. \A d \in Chain : path'[d] \in Cmd => path'[d].chain = d
  BY PathMoves
<1> QED
  BY <1>4, <1>8, <1>9, <1>10 DEF HasFile

\* A send-signed run asks about one command at a time, and takes up no other.
LEMMA AskUpdates ==
    ASSUME TypeOK, NEW cmd \in send.todo, SendStatus(cmd) \/ SendPreflight(cmd)
    PROVE  /\ SendTyped'
           /\ send'.todo = send.todo \ {cmd}
           /\ send'.items = send.items \/ send'.items = send.items \cup {cmd}
           /\ send'.step = send.step
<1>1. SendTyped
  BY Parts
<1>2. PICK items \in {send.items, send.items \cup {cmd}} :
        send' = [send EXCEPT !.todo = @ \ {cmd}, !.items = items]
  <2>1. CASE SendStatus(cmd) /\ Status(cmd) = "none"
    BY <2>1 DEF SendStatus
  <2>2. CASE SendStatus(cmd) /\ Status(cmd) # "none"
    BY <2>2 DEF SendStatus
  <2>3. CASE SendPreflight(cmd)
    <3>1. send' = [send EXCEPT !.todo = @ \ {cmd}, !.items = send.items]
      BY <1>1, <2>3 DEF SendPreflight, SendTyped
    <3> QED
      BY <3>1
  <2> QED
    BY <2>1, <2>2, <2>3
<1> QED
  BY <1>1, <1>2 DEF SendTyped

LEMMA NextTyped == TypeOK /\ HasFile /\ [Next]_vars => TypeOK' /\ HasFile'
<1> SUFFICES ASSUME TypeOK, HasFile, [Next]_vars PROVE TypeOK' /\ HasFile'
  OBVIOUS
<1>0. ChainsTyped /\ DiskTyped /\ RunsTyped /\ SendTyped /\ OnDisk \subseteq Cmd
  BY Parts, DiskIsCommands
<1>a. ChainsTyped' /\ DiskTyped' /\ RunsTyped' /\ SendTyped' => TypeOK'
  BY DEF TypeOK, ChainsTyped, DiskTyped, RunsTyped, SendTyped, Mind
<1>b. UNCHANGED diskVars => DiskTyped'
  BY <1>0 DEF DiskTyped, diskVars
<1>c. UNCHANGED chainVars => ChainsTyped'
  BY <1>0 DEF ChainsTyped, chainVars
<1>d. UNCHANGED runVars => RunsTyped'
  BY <1>0 DEF RunsTyped, runVars
<1>e. UNCHANGED send => SendTyped'
  BY <1>0 DEF SendTyped
<1>f. UNCHANGED <<holder, diskVars, runVars>> => HasFile'
  BY DEF HasFile, diskVars, runVars
<1>1. ASSUME NEW r \in Run, Start(r) PROVE TypeOK' /\ HasFile'
  <2>1. UNCHANGED <<chainVars, diskVars, send>>
    BY <1>1 DEF Start
  <2>2. HasFile'
    BY <1>1, <2>1, StartUpdates DEF HasFile, chainVars, diskVars
  <2> QED
    BY <1>1, <1>a, <1>b, <1>c, <1>e, <2>1, <2>2, StartUpdates
<1>2. ASSUME NEW r \in Run, End(r) \/ Die(r) PROVE TypeOK' /\ HasFile'
  <2>1. UNCHANGED <<chainVars, diskVars, send>> /\ Idle(r)
    BY <1>2 DEF End, Die
  <2>2. HasFile'
    BY <2>1, IdleUpdates DEF HasFile, Idles, chainVars, diskVars
  <2> QED
    BY <1>a, <1>b, <1>c, <1>e, <2>1, <2>2, IdleUpdates
<1>3. ASSUME NEW r \in Run, NEW c \in Chain, DeployStep(r, c) PROVE TypeOK' /\ HasFile'
  BY <1>3, StepTyped
<1>4. CASE SendStart \/ SendSign \/ SendDies \/ \E cmd \in send.todo : SendStatus(cmd) \/ SendPreflight(cmd)
  <2>1. UNCHANGED <<chainVars, diskVars, runVars>>
    BY <1>4 DEF SendStart, SendSign, SendDies, SendStatus, SendPreflight
  <2>2. SendTyped'
    <3>1. CASE SendStart
      BY <1>0, <3>1 DEF SendStart, SendTyped
    <3>2. CASE SendSign
      BY <1>0, <3>2 DEF SendSign, SendTyped
    <3>3. CASE SendDies
      BY <3>3 DEF SendDies, Resting, SendTyped
    <3>4. CASE \E cmd \in send.todo : SendStatus(cmd) \/ SendPreflight(cmd)
      BY <3>4, AskUpdates
    <3> QED
      BY <1>4, <3>1, <3>2, <3>3, <3>4
  <2>3. UNCHANGED holder
    BY <2>1 DEF chainVars
  <2> QED
    BY <1>a, <1>b, <1>c, <1>d, <1>f, <2>1, <2>2, <2>3
<1>5. CASE SendSubmit
  <2>1. ChainsTyped' /\ SendTyped'
    BY <1>0, <1>5 DEF SendSubmit, Resting, SendTyped, ChainsTyped
  <2> QED
    BY <1>5, <1>a, <1>b, <1>d, <1>f, <2>1 DEF SendSubmit
<1>6. CASE Tick \/ \E cmd \in wire : Arrive(cmd) \/ Lose(cmd)
  <2>1. UNCHANGED <<holder, diskVars, runVars, send>>
    BY <1>6 DEF Tick, Arrive, Lose
  <2>2. ChainsTyped'
    BY <1>0, <1>6, TimeAssumption DEF Tick, Arrive, Lose, ChainsTyped
  <2> QED
    BY <1>a, <1>b, <1>d, <1>e, <1>f, <2>1, <2>2
<1>7. ASSUME NEW cmd \in pool, Land(cmd) PROVE TypeOK' /\ HasFile'
  <2>1. UNCHANGED <<diskVars, runVars, send>>
    BY <1>7 DEF Land
  <2>2. cmd \in Cmd /\ cmd.chain \in Chain
    BY <1>0 DEF ChainsTyped, Cmd
  <2>3. ChainsTyped'
    BY <1>0, <1>7, <2>2 DEF Land, ChainsTyped
  <2>4. \A c \in Chain : holder'[c] \in Cmd => holder'[c].chain = c
    BY <1>0, <1>7, <2>2 DEF Land, ChainsTyped, HasFile
  <2>5. HasFile'
    BY <2>1, <2>4 DEF HasFile, diskVars, runVars
  <2> QED
    BY <1>a, <1>b, <1>d, <1>e, <2>1, <2>3, <2>5
<1>8. ASSUME NEW c \in Chain, Copycat(c) PROVE TypeOK' /\ HasFile'
  <2>1. UNCHANGED <<diskVars, runVars, send>>
    BY <1>8 DEF Copycat
  <2>2. ChainsTyped'
    BY <1>0, <1>8 DEF Copycat, ChainsTyped
  <2>3. \A d \in Chain : holder'[d] \in Cmd => holder'[d].chain = d
    BY <1>0, <1>8, MarkAssumption DEF Copycat, ChainsTyped, HasFile
  <2>4. HasFile'
    BY <2>1, <2>3 DEF HasFile, diskVars, runVars
  <2> QED
    BY <1>a, <1>b, <1>d, <1>e, <2>1, <2>2, <2>4
<1>9. CASE UNCHANGED vars
  <2>1. UNCHANGED <<chainVars, diskVars, runVars, send>> /\ UNCHANGED holder
    BY <1>9 DEF vars, chainVars
  <2> QED
    BY <1>a, <1>b, <1>c, <1>d, <1>e, <1>f, <2>1
<1> QED
  BY <1>1, <1>2, <1>3, <1>4, <1>5, <1>6, <1>7, <1>8, <1>9 DEF Next

LEMMA InitTyped == Init => TypeOK /\ HasFile
<1> SUFFICES ASSUME Init PROVE TypeOK /\ HasFile
  OBVIOUS
<1>1. Blank \in Mind /\ "idle" \in Steps
  BY DEF Blank, Mind, Steps
<1>2. ChainsTyped /\ DiskTyped
  BY TimeAssumption DEF Init, ChainsTyped, DiskTyped
<1>3. RunsTyped
  BY <1>1 DEF Init, RunsTyped
<1>4. SendTyped
  BY DEF Init, Resting, SendTyped
<1>5. HasFile
  BY MarkAssumption DEF Init, HasFile
<1> QED
  BY <1>2, <1>3, <1>4, <1>5, Parts

--------------------------------------------------------------------------------
(* Time passes and a name that is taken stays taken. *)

LEMMA HolderMoves ==
    ASSUME TypeOK, HasFile, [Next]_vars
    PROVE  UNCHANGED holder \/ (\E cmd \in pool : Land(cmd)) \/ (\E c \in Chain : Copycat(c))
<1>1. ASSUME NEW r \in Run, NEW c \in Chain, DeployStep(r, c) PROVE UNCHANGED holder
  BY <1>1, StepUpdates DEF chainVars
<1>2. ASSUME NEW r \in Run, Start(r) \/ End(r) \/ Die(r) PROVE UNCHANGED holder
  BY <1>2 DEF Start, End, Die, chainVars
<1>3. CASE SendStart \/ SendSign \/ SendSubmit \/ SendDies
           \/ \E cmd \in send.todo : SendStatus(cmd) \/ SendPreflight(cmd)
  BY <1>3 DEF SendStart, SendSign, SendSubmit, SendDies, SendStatus, SendPreflight, chainVars
<1>4. CASE Tick \/ UNCHANGED vars \/ \E cmd \in wire : Arrive(cmd) \/ Lose(cmd)
  BY <1>4 DEF Tick, Arrive, Lose, vars, chainVars
<1> QED
  BY <1>1, <1>2, <1>3, <1>4 DEF Next

LEMMA NameStays ==
    ASSUME TypeOK, HasFile, [Next]_vars
    PROVE  \A c \in Chain : holder[c] # Free => holder'[c] = holder[c]
<1>1. CASE UNCHANGED holder
  BY <1>1
<1>2. CASE \E cmd \in pool : Land(cmd)
  BY <1>2 DEF Land, TypeOK
<1>3. CASE \E c \in Chain : Copycat(c)
  BY <1>3 DEF Copycat, TypeOK
<1> QED
  BY <1>1, <1>2, <1>3, HolderMoves

LEMMA TimePasses ==
    ASSUME TypeOK, HasFile, [Next]_vars
    PROVE  now \in Nat /\ now' \in Nat /\ now <= now'
<1>0. now \in Nat
  BY DEF TypeOK
<1>1. CASE UNCHANGED now
  BY <1>0, <1>1
<1>2. CASE Tick
  BY <1>0, <1>2 DEF Tick
<1>3. ASSUME NEW r \in Run, NEW c \in Chain, DeployStep(r, c) PROVE UNCHANGED now
  BY <1>3, StepUpdates DEF chainVars
<1>4. ASSUME NEW r \in Run, Start(r) \/ End(r) \/ Die(r) PROVE UNCHANGED now
  BY <1>4 DEF Start, End, Die, chainVars
<1>5. CASE SendStart \/ SendSign \/ SendSubmit \/ SendDies
           \/ \E cmd \in send.todo : SendStatus(cmd) \/ SendPreflight(cmd)
  BY <1>1, <1>5 DEF SendStart, SendSign, SendSubmit, SendDies, SendStatus, SendPreflight, chainVars
<1>6. CASE UNCHANGED vars \/ (\E cmd \in wire : Arrive(cmd) \/ Lose(cmd)) \/ (\E cmd \in pool : Land(cmd))
  BY <1>1, <1>6 DEF Arrive, Lose, Land, vars, chainVars
<1>7. CASE \E c \in Chain : Copycat(c)
  BY <1>1, <1>7 DEF Copycat
<1> QED
  BY <1>1, <1>2, <1>3, <1>4, <1>5, <1>6, <1>7 DEF Next

\* So a command that could not land, or not take its name, never will.
LEMMA DeadStaysDead ==
    ASSUME TypeOK, HasFile, [Next]_vars, NEW f \in Cmd
    PROVE  /\ CanLand(f)' => CanLand(f)
           /\ Live(f)' => Live(f)
<1>1. f.created \in Nat /\ Ttl \in Nat /\ f.chain \in Chain
  BY TimeAssumption DEF Cmd
<1>2. CanLand(f)' => CanLand(f)
  BY <1>1, TimePasses DEF CanLand, ValidUntil
<1> QED
  BY <1>1, <1>2, NameStays DEF Live

--------------------------------------------------------------------------------
(* What the runs report. *)

\* A step moves one run on one chain, starts or ends one run, or moves none.
RunsIdle == UNCHANGED <<runVars, diskVars>>

LEMMA RunsMove ==
    ASSUME [Next]_vars
    PROVE  \/ \E r \in Run, c \in Chain : DeployStep(r, c)
           \/ \E r \in Run : Start(r)
           \/ \E r \in Run : Idle(r) /\ (End(r) \/ Die(r))
           \/ RunsIdle
<1>1. CASE SendStart \/ SendSign \/ SendSubmit \/ SendDies
           \/ \E cmd \in send.todo : SendStatus(cmd) \/ SendPreflight(cmd)
  BY <1>1 DEF SendStart, SendSign, SendSubmit, SendDies, SendStatus, SendPreflight, RunsIdle
<1>2. CASE Tick \/ UNCHANGED vars \/ (\E cmd \in wire : Arrive(cmd) \/ Lose(cmd))
           \/ (\E cmd \in pool : Land(cmd)) \/ (\E c \in Chain : Copycat(c))
  BY <1>2 DEF Tick, Arrive, Lose, Land, Copycat, vars, RunsIdle
<1>3. ASSUME NEW r \in Run, End(r) \/ Die(r) PROVE Idle(r)
  BY <1>3 DEF End, Die
<1> QED
  BY <1>1, <1>2, <1>3 DEF Next

LEMMA NextOurs == TypeOK /\ HasFile /\ OursIsOurs /\ [Next]_vars => OursIsOurs'
<1> SUFFICES ASSUME TypeOK, HasFile, OursIsOurs, [Next]_vars, NEW s \in Run, NEW d \in Chain,
                    at'[s][d] = "untouched"
             PROVE  holder'[d] \in Cmd
  BY DEF OursIsOurs, ReportedOurs
<1>0. holder[d] \in Cmd => holder'[d] \in Cmd
  BY NameStays, MarkAssumption
<1>1. CASE at[s][d] = "untouched"
  BY <1>0, <1>1 DEF OursIsOurs, ReportedOurs
<1>2. CASE at[s][d] # "untouched"
  <2>1. ASSUME NEW r \in Run, NEW c \in Chain, DeployStep(r, c) PROVE holder'[d] \in Cmd
    <3>1. r = s /\ c = d
      <4>1. OthersStay(r, c)
        BY <2>1, StepUpdates
      <4> QED
        BY <1>2, <4>1 DEF OthersStay
    <3>2. Ownership(d, TRUE, files[s]) = "ours" \/ Ownership(d, FALSE, files[s]) = "ours"
      BY <2>1, <3>1, StepUpdates DEF Looks
    <3>3. PICK f \in files[s] : f.chain = d /\ Status(f) = "success"
      BY <3>2 DEF Ownership
    <3>4. holder[d] = f /\ f \in Cmd
      BY <3>3 DEF Status, TypeOK
    <3> QED
      BY <1>0, <3>4
  <2>2. ASSUME NEW r \in Run, Start(r) PROVE FALSE
    BY <1>2, <2>2, StartUpdates
  <2>3. ASSUME NEW r \in Run, Idle(r) PROVE FALSE
    BY <1>2, <2>3, IdleUpdates DEF Idles
  <2>4. CASE RunsIdle
    BY <1>2, <2>4 DEF RunsIdle, runVars
  <2> QED
    BY <2>1, <2>2, <2>3, <2>4, RunsMove
<1> QED
  BY <1>1, <1>2

\* What a run that no lookup fails remembers of a name that was held.
Building == {"build", "preflight", "write", "written", "poll", "deployed"}
Remembers ==
    \A r \in Run, c \in Chain :
        /\ at[r][c] \in {"status", "time", "unlink"} => mind[r][c].who = "lost" \/ ~mind[r][c].held
        /\ at[r][c] \in Building => ~mind[r][c].held

LEMMA NextRemembers ==
    ASSUME Unanswered = FALSE, TypeOK, HasFile, Remembers, [Next]_vars
    PROVE  Remembers'
<1> SUFFICES ASSUME NEW s \in Run, NEW d \in Chain
             PROVE  /\ at'[s][d] \in {"status", "time", "unlink"} => mind'[s][d].who = "lost" \/ ~mind'[s][d].held
                    /\ at'[s][d] \in Building => ~mind'[s][d].held
  BY DEF Remembers
<1>0. ASSUME at'[s][d] = at[s][d], mind'[s][d] = mind[s][d]
      PROVE  /\ at'[s][d] \in {"status", "time", "unlink"} => mind'[s][d].who = "lost" \/ ~mind'[s][d].held
             /\ at'[s][d] \in Building => ~mind'[s][d].held
  BY <1>0 DEF Remembers
<1>1. ASSUME NEW r \in Run, NEW c \in Chain, DeployStep(r, c)
      PROVE  /\ at'[s][d] \in {"status", "time", "unlink"} => mind'[s][d].who = "lost" \/ ~mind'[s][d].held
             /\ at'[s][d] \in Building => ~mind'[s][d].held
  <2>0. OthersStay(r, c) /\ mind[r][c] \in Mind
    <3>1. OthersStay(r, c)
      BY <1>1, StepUpdates
    <3>2. mind[r][c] \in Mind
      BY DEF TypeOK, Mind
    <3> QED
      BY <3>1, <3>2
  <2>1. CASE s # r \/ d # c
    BY <1>0, <2>0, <2>1 DEF OthersStay
  <2>2. CASE s = r /\ d = c
    <3>1. CASE at[r][c] \in {"describe", "own"}
      <4>1. CASE at'[r][c] = "own"
        BY <2>2, <4>1 DEF Building
      <4>2. CASE /\ at[r][c] = "describe"
                 /\ Looks(r, c, Ownership(c, FALSE, files[r]), holder[c] # Free)
                 /\ holder[c] # Free => Unanswered
        <5>1. holder[c] = Free
          BY <4>2
        <5>2. mind'[r][c].held = (holder[c] # Free)
          BY <4>2 DEF Looks
        <5> QED
          BY <2>2, <5>1, <5>2
      <4>3. CASE Looks(r, c, Ownership(c, TRUE, files[r]), TRUE)
        <5> DEFINE who == Ownership(c, TRUE, files[r])
        <5>1. who \in {"ours", "lost"}
          BY DEF Ownership
        <5>3. Looks(r, c, who, TRUE)
          BY <4>3
        <5> HIDE DEF who
        <5>2. /\ at'[r][c] \in {"untouched", "status", "time", "lost"}
              /\ at'[r][c] \in {"status", "time"} => mind'[r][c].who = "lost"
          BY <5>1, <5>3 DEF Looks
        <5> QED
          BY <2>2, <5>2 DEF Building
      <4> QED
        BY <1>1, <3>1, <4>1, <4>2, <4>3, StepUpdates
    <3>2. CASE at[r][c] \in {"status", "time", "unlink", "build", "preflight", "write", "poll"}
      <4>1. mind'[r][c].who = mind[r][c].who /\ mind'[r][c].held = mind[r][c].held
        <5>1. \/ mind'[r][c] = mind[r][c]
              \/ mind'[r][c] = [mind[r][c] EXCEPT !.seen = Status(mind[r][c].file)]
              \/ mind'[r][c] = [mind[r][c] EXCEPT !.file = [chain |-> c, created |-> now]]
          BY <1>1, <3>2, StepUpdates
        <5> QED
          BY <2>0, <5>1 DEF Mind
      <4>2. /\ at[r][c] \in {"status", "time", "unlink"} =>
                 \/ at'[r][c] \in {"time", "unlink", "kept", "lost"}
                 \/ at'[r][c] = "build" /\ mind[r][c].who # "lost"
            /\ at[r][c] \in {"build", "preflight", "write", "poll"} => at'[r][c] \in Building
        BY <1>1, StepUpdates DEF Building
      <4> QED
        BY <2>2, <3>2, <4>1, <4>2 DEF Remembers, Building
    <3> QED
      BY <1>1, <3>1, <3>2, StepUpdates
  <2> QED
    BY <2>1, <2>2
<1>2. ASSUME NEW r \in Run, Start(r)
      PROVE  /\ at'[s][d] \in {"status", "time", "unlink"} => mind'[s][d].who = "lost" \/ ~mind'[s][d].held
             /\ at'[s][d] \in Building => ~mind'[s][d].held
  <2>1. CASE s = r
    BY <1>2, <2>1, StartUpdates DEF Building
  <2>2. CASE s # r
    BY <1>0, <1>2, <2>2, StartUpdates
  <2> QED
    BY <2>1, <2>2
<1>3. ASSUME NEW r \in Run, Idle(r)
      PROVE  /\ at'[s][d] \in {"status", "time", "unlink"} => mind'[s][d].who = "lost" \/ ~mind'[s][d].held
             /\ at'[s][d] \in Building => ~mind'[s][d].held
  <2>1. CASE s = r
    BY <1>3, <2>1, IdleUpdates DEF Building, Idles
  <2>2. CASE s # r
    BY <1>0, <1>3, <2>2, IdleUpdates DEF Idles
  <2> QED
    BY <2>1, <2>2
<1>4. CASE RunsIdle
  BY <1>0, <1>4 DEF RunsIdle, runVars
<1> QED
  BY <1>1, <1>2, <1>3, <1>4, RunsMove

--------------------------------------------------------------------------------
(* One run at a time.  Every file that was moved aside is dead, so only the  *)
(* file at its path can take a chain's name.                                 *)

DeadAside ==
    /\ \A f \in superseded : ~Live(f)
    /\ \A f \in failed : holder[f.chain] # Free

CalmAt(r, c) ==
    /\ at[r][c] \in {"build", "preflight"} => path[c] = NoFile
    /\ at[r][c] = "write" =>
         /\ path[c] = r
         /\ mode[r] = "direct" => holder[c] \notin Cmd
    /\ at[r][c] \in {"status", "time", "unlink"} =>
         /\ path[c] # NoFile /\ mind[r][c].file = path[c]
         /\ mind[r][c].who = "lost" => holder[c] = Copy
    /\ at[r][c] = "status" => path[c] \in Cmd
    /\ at[r][c] = "unlink" /\ path[c] \in Cmd => path[c] \in superseded
    /\ at[r][c] = "own" => holder[c] # Free
    /\ at[r][c] = "time" /\ mind[r][c].seen = "failure" => holder[c] # Free
    /\ at[r][c] \in {"describe", "own"} => \A f \in OnDisk : f.chain = c => f \in files[r]
    /\ at[r][c] = "lost" => holder[c] = Copy

Calm == DeadAside /\ \A r \in Run, c \in Chain : CalmAt(r, c)

LEMMA AsideIsDead ==
    ASSUME TypeOK, HasFile, NEW r \in Run, NEW c \in Chain, CalmAt(r, c),
           at[r][c] = "time", ~Keeps(r, c), path[c] \in Cmd
    PROVE  ~Live(path[c])
<1>1. path[c].chain = c /\ mind[r][c].file = path[c]
  BY DEF CalmAt, HasFile
<1>2. now \in Nat /\ path[c].created \in Nat /\ Ttl \in Nat
  BY TimeAssumption DEF TypeOK, Cmd
<1>3. CASE mind[r][c].who = "lost"
  BY <1>1, <1>3, MarkAssumption DEF CalmAt, Live
<1>4. CASE Fate(mind[r][c].seen, mind[r][c].file) # "keep"
  <2>1. mind[r][c].seen = "failure" \/ ValidUntil(path[c]) < now
    BY <1>1, <1>4 DEF Fate
  <2>2. CASE mind[r][c].seen = "failure"
    BY <1>1, <2>2 DEF CalmAt, Live
  <2>3. CASE ValidUntil(path[c]) < now
    BY <1>1, <1>2, <2>3 DEF Live, CanLand, ValidUntil
  <2> QED
    BY <2>1, <2>2, <2>3
<1> QED
  BY <1>1, <1>3, <1>4 DEF Keeps

LEMMA NextDead == TypeOK /\ HasFile /\ Calm /\ [Next]_vars => DeadAside'
<1> SUFFICES ASSUME TypeOK, HasFile, Calm, [Next]_vars PROVE DeadAside'
  OBVIOUS
<1>0. superseded \subseteq Cmd /\ failed \subseteq Cmd
  BY DEF TypeOK
<1>1. \A f \in superseded' : f \in superseded \/ (f \in Cmd /\ ~Live(f))
  <2>1. ASSUME NEW r \in Run, NEW c \in Chain, DeployStep(r, c)
        PROVE  \A f \in superseded' : f \in superseded \/ (f \in Cmd /\ ~Live(f))
    <3>1. \/ superseded' = superseded
          \/ /\ at[r][c] = "time" /\ ~Keeps(r, c)
             /\ superseded' = superseded \cup ({path[c]} \cap Cmd)
      BY <2>1, DiskMoves DEF diskVars, Aside, Removes, Create, Fill
    <3> QED
      BY <3>1, AsideIsDead DEF Calm
  <2>2. ASSUME NEW r \in Run, Start(r) \/ End(r) \/ Die(r) PROVE superseded' = superseded
    BY <2>2 DEF Start, End, Die, diskVars
  <2>3. CASE RunsIdle
    BY <2>3 DEF RunsIdle, diskVars
  <2> QED
    BY <2>1, <2>2, <2>3, RunsMove
<1>2. \A f \in superseded' : ~Live(f)'
  BY <1>0, <1>1, DeadStaysDead DEF Calm, DeadAside
<1>3. \A f \in failed' : f \in failed \/ (f \in Cmd /\ holder[f.chain] # Free)
  <2>1. ASSUME NEW cmd \in pool, Land(cmd) PROVE \A f \in failed' : f \in failed \/ (f \in Cmd /\ holder[f.chain] # Free)
    BY <2>1 DEF Land, TypeOK
  <2>2. ASSUME NEW r \in Run, NEW c \in Chain, DeployStep(r, c) PROVE UNCHANGED failed
    BY <2>2, StepUpdates DEF chainVars
  <2>3. ASSUME NEW r \in Run, Start(r) \/ End(r) \/ Die(r) PROVE UNCHANGED failed
    BY <2>3 DEF Start, End, Die, chainVars
  <2>4. CASE SendStart \/ SendSign \/ SendSubmit \/ SendDies
             \/ \E cmd \in send.todo : SendStatus(cmd) \/ SendPreflight(cmd)
    BY <2>4 DEF SendStart, SendSign, SendSubmit, SendDies, SendStatus, SendPreflight, chainVars
  <2>5. CASE Tick \/ UNCHANGED vars \/ (\E cmd \in wire : Arrive(cmd) \/ Lose(cmd))
             \/ (\E c \in Chain : Copycat(c))
    BY <2>5 DEF Tick, Arrive, Lose, Copycat, vars, chainVars
  <2> QED
    BY <2>1, <2>2, <2>3, <2>4, <2>5 DEF Next
<1>4. \A f \in Cmd : f.chain \in Chain
  BY DEF Cmd
<1>5. \A f \in failed' : holder'[f.chain] # Free
  BY <1>0, <1>3, <1>4, NameStays DEF Calm, DeadAside
<1> QED
  BY <1>2, <1>5 DEF DeadAside

\* The files of a chain change only by a step of a run on that chain.
LEMMA ChainFiles ==
    ASSUME TypeOK, HasFile, NEW r \in Run, NEW c \in Chain, DeployStep(r, c)
    PROVE  /\ \A d \in Chain : d # c => path'[d] = path[d]
           /\ \A d \in Chain : \A f \in OnDisk' : f.chain = d /\ d # c => f \in OnDisk
           /\ at[r][c] \in {"describe", "own"} => OnDisk' = OnDisk
<1>1. \A d \in Chain : d # c => path'[d] = path[d]
  BY PathMoves
<1>2. at[r][c] \in {"describe", "own"} => UNCHANGED diskVars
  BY StepUpdates
<1>3. \A d \in Chain : path'[d] \in Cmd => path'[d].chain = d
  BY PathMoves
<1>4. \A f \in superseded' : f \in superseded \/ (f = path[c] /\ path[c] \in Cmd)
  BY PathMoves
<1>5. \A d \in Chain : \A f \in OnDisk' : f.chain = d /\ d # c => f \in OnDisk
  BY <1>1, <1>3, <1>4 DEF OnDisk
<1> QED
  BY <1>1, <1>2, <1>5 DEF diskVars, OnDisk

\* What a send-signed run has in hand is on disk too.
Kept == ProofIsNeverLost /\ send.todo \cup send.items \subseteq OnDisk

LEMMA DiskGrows ==
    ASSUME TypeOK, HasFile, NEW r \in Run, NEW c \in Chain, CalmAt(r, c), DeployStep(r, c)
    PROVE  OnDisk \subseteq OnDisk'
<1>1. \A d \in Chain : d # c => path'[d] = path[d]
  BY PathMoves
<1>2. superseded \subseteq superseded'
  BY PathMoves
<1>3. path[c] \in Cmd => path'[c] = path[c] \/ path[c] \in superseded
  <2>1. CASE UNCHANGED path
    BY <2>1
  <2>2. CASE at[r][c] = "unlink"
    BY <2>2 DEF CalmAt
  <2>3. path[c] # NoFile /\ path[c] # r => ~Create(r, c) /\ (Fill(r, c) => path'[c] = path[c])
    BY DEF Create, Fill, TypeOK
  <2>4. path[c] \in Cmd => path[c] # NoFile /\ path[c] # r
    BY MarkAssumption
  <2> QED
    BY <2>1, <2>2, <2>3, <2>4, DiskMoves DEF diskVars, Aside
<1> QED
  BY <1>1, <1>2, <1>3 DEF OnDisk

LEMMA NextKept == TypeOK /\ HasFile /\ Calm /\ Kept /\ [Next]_vars => Kept' /\ OnDisk \subseteq OnDisk'
<1> SUFFICES ASSUME TypeOK, HasFile, Calm, Kept, [Next]_vars PROVE Kept' /\ OnDisk \subseteq OnDisk'
  OBVIOUS
<1> DEFINE Ours == {holder[c] : c \in {d \in Chain : holder[d] \in Cmd}}
<1>0. /\ wire \subseteq OnDisk /\ pool \subseteq OnDisk /\ failed \subseteq OnDisk /\ Ours \subseteq OnDisk
      /\ send.todo \subseteq OnDisk /\ send.items \subseteq OnDisk
  BY DEF Kept, ProofIsNeverLost
<1>1. ASSUME OnDisk \subseteq OnDisk',
             wire' \subseteq OnDisk', pool' \subseteq OnDisk', failed' \subseteq OnDisk',
             \A c \in Chain : holder'[c] \in Cmd => holder'[c] \in OnDisk',
             send'.todo \subseteq OnDisk', send'.items \subseteq OnDisk'
      PROVE  Kept' /\ OnDisk \subseteq OnDisk'
  BY <1>1 DEF Kept, ProofIsNeverLost
<1>2. \A c \in Chain : holder[c] \in Cmd => holder[c] \in OnDisk
  BY <1>0
<1> HIDE DEF Ours
<1>3. UNCHANGED diskVars => OnDisk' = OnDisk
  BY DEF diskVars, OnDisk
<1>4. ASSUME NEW r \in Run, Start(r) \/ End(r) \/ Die(r) PROVE Kept' /\ OnDisk \subseteq OnDisk'
  BY <1>0, <1>1, <1>2, <1>3, <1>4 DEF Start, End, Die, chainVars
<1>6. ASSUME NEW r \in Run, NEW c \in Chain, DeployStep(r, c) PROVE Kept' /\ OnDisk \subseteq OnDisk'
  <2>1. OnDisk \subseteq OnDisk'
    BY <1>6, DiskGrows DEF Calm
  <2>2. UNCHANGED <<holder, failed, pool, send>>
    BY <1>6, StepUpdates DEF chainVars
  <2>3. \/ wire' = wire
        \/ at[r][c] = "write" /\ wire' = wire \cup {mind[r][c].file} /\ Fill(r, c)
    BY <1>6, StepUpdates DEF chainVars
  <2>4. wire' \subseteq OnDisk'
    <3>1. CASE wire' = wire
      BY <1>0, <2>1, <3>1
    <3>2. CASE at[r][c] = "write" /\ wire' = wire \cup {mind[r][c].file} /\ Fill(r, c)
      <4>1. mind[r][c].file \in Cmd /\ path[c] = r
        BY <3>2 DEF HasFile, Calm, CalmAt
      <4>2. path'[c] = mind[r][c].file
        BY <3>2, <4>1 DEF Fill, TypeOK
      <4>3. mind[r][c].file \in OnDisk'
        BY <4>1, <4>2 DEF OnDisk
      <4> QED
        BY <1>0, <2>1, <3>2, <4>3
    <3> QED
      BY <2>3, <3>1, <3>2
  <2> QED
    BY <1>0, <1>1, <1>2, <2>1, <2>2, <2>4
<1>7. CASE SendStart \/ SendSign \/ SendDies \/ \E cmd \in send.todo : SendStatus(cmd) \/ SendPreflight(cmd)
  <2>1. OnDisk' = OnDisk /\ UNCHANGED <<now, holder, failed, wire, pool>>
    BY <1>3, <1>7 DEF SendStart, SendSign, SendDies, SendStatus, SendPreflight, chainVars
  <2>2. send'.todo \subseteq OnDisk /\ send'.items \subseteq OnDisk
    <3>1. CASE SendStart
      BY <3>1 DEF SendStart
    <3>2. CASE SendSign
      BY <1>0, <3>2 DEF SendSign
    <3>3. CASE SendDies
      BY <3>3 DEF SendDies, Resting
    <3>4. CASE \E cmd \in send.todo : SendStatus(cmd) \/ SendPreflight(cmd)
      BY <1>0, <3>4, AskUpdates
    <3> QED
      BY <1>7, <3>1, <3>2, <3>3, <3>4
  <2> QED
    BY <1>0, <1>1, <1>2, <2>1, <2>2
<1>8. CASE SendSubmit
  BY <1>0, <1>1, <1>2, <1>3, <1>8 DEF SendSubmit, Resting
<1>9. CASE Tick \/ \E cmd \in wire : Arrive(cmd) \/ Lose(cmd)
  BY <1>0, <1>1, <1>2, <1>3, <1>9 DEF Tick, Arrive, Lose
<1>10. ASSUME NEW cmd \in pool, Land(cmd) PROVE Kept' /\ OnDisk \subseteq OnDisk'
  <2>1. OnDisk' = OnDisk /\ UNCHANGED <<wire, send>> /\ pool' \subseteq pool
    BY <1>3, <1>10 DEF Land
  <2>2. failed' \subseteq OnDisk
    BY <1>0, <1>10 DEF Land
  <2>3. \A c \in Chain : holder'[c] \in Cmd => holder'[c] \in OnDisk
    BY <1>0, <1>2, <1>10 DEF Land, TypeOK
  <2> QED
    BY <1>0, <1>1, <2>1, <2>2, <2>3
<1>11. ASSUME NEW c \in Chain, Copycat(c) PROVE Kept' /\ OnDisk \subseteq OnDisk'
  <2>1. OnDisk' = OnDisk /\ UNCHANGED <<wire, send, pool, failed>>
    BY <1>3, <1>11 DEF Copycat
  <2>2. \A d \in Chain : holder'[d] \in Cmd => holder'[d] \in OnDisk
    BY <1>2, <1>11, MarkAssumption DEF Copycat, TypeOK
  <2> QED
    BY <1>0, <1>1, <2>1, <2>2
<1>12. CASE UNCHANGED vars
  BY <1>0, <1>1, <1>2, <1>3, <1>12 DEF vars, chainVars
<1> QED
  BY <1>4, <1>6, <1>7, <1>8, <1>9, <1>10, <1>11, <1>12 DEF Next

LEMMA CalmStep ==
    ASSUME TypeOK, HasFile, Kept, Calm, [Next]_vars,
           NEW r \in Run, NEW c \in Chain, DeployStep(r, c)
    PROVE  CalmAt(r, c)'
<1>0. /\ CalmAt(r, c)
      /\ mind[r][c] \in Mind
      /\ holder[c] = Copy => holder'[c] = Copy
      /\ holder[c] # Free => holder'[c] # Free
  BY NameStays, MarkAssumption DEF Calm, TypeOK, Mind
<1>1. CASE at[r][c] = "describe" /\ at'[r][c] = "own" /\ holder[c] # Free
  <2>1. UNCHANGED <<files, diskVars>>
    BY <1>1, StepUpdates DEF Memories
  <2> QED
    BY <1>0, <1>1, <2>1 DEF CalmAt, OnDisk, diskVars
<1>2. ASSUME NEW who \in {"available", "ours", "lost"}, NEW held, Looks(r, c, who, held),
             UNCHANGED diskVars, who = "lost" => holder[c] = Copy
      PROVE  CalmAt(r, c)'
  <2>1. /\ mind'[r][c].file = path[c] /\ mind'[r][c].who = who /\ path' = path
        /\ mind'[r][c].seen = "none"
        /\ at'[r][c] = IF who = "ours" THEN "untouched"
                       ELSE IF path[c] \in Cmd THEN "status"
                       ELSE IF path[c] # NoFile THEN "time"
                       ELSE IF who = "lost" THEN "lost" ELSE "build"
    BY <1>2 DEF Looks, diskVars
  <2>2. path[c] \in Cmd => path[c] # NoFile
    BY MarkAssumption
  <2> QED
    BY <1>0, <1>2, <2>1, <2>2 DEF CalmAt
<1>3. CASE /\ at[r][c] = "describe"
           /\ Looks(r, c, Ownership(c, FALSE, files[r]), holder[c] # Free)
           /\ UNCHANGED diskVars
  <2> DEFINE who == Ownership(c, FALSE, files[r])
             held == holder[c] # Free
  <2>1. who = "available"
    BY DEF Ownership
  <2>2. Looks(r, c, who, held)
    BY <1>3
  <2> HIDE DEF who, held
  <2> QED
    BY <1>2, <1>3, <2>1, <2>2
<1>4. CASE at[r][c] = "own" /\ Looks(r, c, Ownership(c, TRUE, files[r]), TRUE) /\ UNCHANGED diskVars
  <2> DEFINE who == Ownership(c, TRUE, files[r])
  <2>1. who \in {"available", "ours", "lost"}
    BY DEF Ownership
  <2>2. Looks(r, c, who, TRUE)
    BY <1>4
  <2>3. ASSUME who = "lost" PROVE holder[c] = Copy
    <3>1. ASSUME holder[c] \in Cmd PROVE FALSE
      <4>1. holder[c].chain = c /\ holder[c] \in OnDisk
        BY <3>1 DEF HasFile, Kept, ProofIsNeverLost
      <4>2. holder[c] \in files[r]
        BY <1>0, <1>4, <4>1 DEF CalmAt
      <4>3. Status(holder[c]) = "success"
        BY <4>1 DEF Status
      <4> QED
        BY <2>3, <4>1, <4>2, <4>3 DEF Ownership
    <3> QED
      BY <1>0, <1>4, <3>1 DEF CalmAt, TypeOK
  <2> HIDE DEF who
  <2> QED
    BY <1>2, <1>4, <2>1, <2>2, <2>3
<1>5. CASE at[r][c] = "status"
  <2>1. /\ at'[r][c] = "time" /\ UNCHANGED diskVars
        /\ mind'[r][c] = [mind[r][c] EXCEPT !.seen = Status(mind[r][c].file)]
    BY <1>5, StepUpdates
  <2>2. /\ mind'[r][c].who = mind[r][c].who /\ mind'[r][c].file = mind[r][c].file
        /\ mind'[r][c].seen = Status(path[c]) /\ path' = path
    BY <1>0, <1>5, <2>1 DEF Mind, CalmAt, diskVars
  <2>3. path[c] # NoFile /\ path[c] \in Cmd /\ path[c].chain = c
    BY <1>0, <1>5 DEF CalmAt, HasFile
  <2>4. Status(path[c]) = "failure" => holder[c] # Free
    BY <2>3 DEF Status, Calm, DeadAside
  <2> QED
    BY <1>0, <1>5, <2>1, <2>2, <2>3, <2>4 DEF CalmAt
<1>6. CASE at[r][c] = "time"
  <2>1. /\ at'[r][c] = "kept" \/ (at'[r][c] = "unlink" /\ Aside(c))
        /\ mind'[r][c] = mind[r][c]
    BY <1>6, StepUpdates
  <2> QED
    BY <1>0, <1>6, <2>1 DEF CalmAt, Aside
<1>7. CASE at[r][c] = "unlink"
  <2>1. at'[r][c] = (IF mind[r][c].who = "lost" THEN "lost" ELSE "build") /\ Removes(c)
    BY <1>7, StepUpdates
  <2>2. path'[c] = NoFile
    BY <2>1 DEF Removes, TypeOK
  <2> QED
    BY <1>0, <1>7, <2>1, <2>2 DEF CalmAt
<1>8. CASE at[r][c] \in {"build", "preflight"}
  <2>1. \/ at'[r][c] = "preflight" /\ at[r][c] = "build" /\ UNCHANGED diskVars
        \/ /\ at'[r][c] = "write" /\ Create(r, c) /\ UNCHANGED <<mode, holder>>
           /\ mode[r] = "unsigned" \/ holder[c] = Free
    BY <1>8, StepUpdates DEF Memories, chainVars
  <2>2. Create(r, c) => path'[c] = r
    BY DEF Create, TypeOK
  <2> QED
    BY <1>0, <1>8, <2>1, <2>2, MarkAssumption DEF CalmAt, diskVars
<1>9. CASE at[r][c] \in {"write", "poll"}
  <2>1. at'[r][c] \in {"written", "poll", "deployed"}
    BY <1>9, StepUpdates
  <2> QED
    BY <2>1 DEF CalmAt
<1> QED
  BY <1>1, <1>3, <1>4, <1>5, <1>6, <1>7, <1>8, <1>9, StepUpdates

\* While a run writes its chain's file, no command of the operator's takes the name.
LEMMA NoneTakes ==
    ASSUME TypeOK, HasFile, Kept, DeadAside, [Next]_vars,
           NEW c \in Chain, path[c] \notin Cmd, holder[c] \notin Cmd
    PROVE  holder'[c] \notin Cmd
<1>1. ASSUME NEW g \in pool, Land(g) PROVE holder'[c] \notin Cmd
  <2>1. g \in Cmd /\ g.chain \in Chain /\ g \in OnDisk /\ CanLand(g)
    BY <1>1 DEF Land, Kept, ProofIsNeverLost, TypeOK, Cmd
  <2>2. CASE holder[g.chain] = Free /\ g.chain = c
    <3>1. g \in superseded
      BY <2>1, <2>2 DEF OnDisk, HasFile
    <3> QED
      BY <2>1, <2>2, <3>1 DEF DeadAside, Live
  <2>3. CASE ~(holder[g.chain] = Free /\ g.chain = c)
    BY <1>1, <2>1, <2>3 DEF Land, TypeOK
  <2> QED
    BY <2>2, <2>3
<1>2. ASSUME NEW d \in Chain, Copycat(d) PROVE holder'[c] \notin Cmd
  BY <1>2, MarkAssumption DEF Copycat, TypeOK
<1> QED
  BY <1>1, <1>2, HolderMoves

LEMMA NextCalm == OneRun /\ TypeOK /\ HasFile /\ Kept /\ Calm /\ [Next]_vars => Calm'
<1> SUFFICES ASSUME OneRun, TypeOK, HasFile, Kept, Calm, [Next]_vars, NEW s \in Run, NEW d \in Chain
             PROVE  CalmAt(s, d)'
  BY NextDead DEF Calm
<1>0. /\ CalmAt(s, d)
      /\ holder[d] = Copy => holder'[d] = Copy
      /\ holder[d] # Free => holder'[d] # Free
      /\ path[d] = s /\ holder[d] \notin Cmd => holder'[d] \notin Cmd
  BY NameStays, NoneTakes, MarkAssumption DEF Calm
<1>1. ASSUME at'[s][d] = at[s][d], mind'[s][d] = mind[s][d], path'[d] = path[d],
             files'[s] = files[s], mode'[s] = mode[s], superseded \subseteq superseded',
             \A f \in OnDisk' : f.chain = d => f \in OnDisk
      PROVE  CalmAt(s, d)'
  BY <1>0, <1>1 DEF CalmAt
<1>2. ASSUME NEW r \in Run, NEW c \in Chain, DeployStep(r, c) PROVE CalmAt(s, d)'
  <2>1. r = s
    BY DEF OneRun
  <2>2. CASE c = d
    BY <1>2, <2>1, <2>2, CalmStep
  <2>3. CASE c # d
    <3>1. OthersStay(r, c) /\ UNCHANGED <<mode, files>>
      BY <1>2, StepUpdates DEF Memories
    <3>2. /\ path'[d] = path[d] /\ superseded \subseteq superseded'
          /\ \A f \in OnDisk' : f.chain = d => f \in OnDisk
      BY <1>2, <2>3, ChainFiles, PathMoves
    <3> QED
      BY <1>1, <2>3, <3>1, <3>2 DEF OthersStay
  <2> QED
    BY <2>2, <2>3
<1>3. ASSUME NEW r \in Run, Start(r) PROVE CalmAt(s, d)'
  <2>1. r = s
    BY DEF OneRun
  <2>2. at'[s][d] = "describe" /\ files'[s] = OnDisk /\ OnDisk' = OnDisk
    <3>1. OnDisk' = OnDisk
      BY <1>3 DEF Start, diskVars, OnDisk
    <3> QED
      BY <1>3, <2>1, <3>1, StartUpdates
  <2> QED
    BY <2>2 DEF CalmAt
<1>4. ASSUME NEW r \in Run, Idle(r) PROVE CalmAt(s, d)'
  <2>1. r = s
    BY DEF OneRun
  <2>2. at'[s][d] = "idle"
    BY <1>4, <2>1, IdleUpdates DEF Idles
  <2> QED
    BY <2>2 DEF CalmAt
<1>5. CASE RunsIdle
  BY <1>1, <1>5 DEF RunsIdle, runVars, diskVars, OnDisk
<1> QED
  BY <1>2, <1>3, <1>4, <1>5, RunsMove

LEMMA OneIsLive == TypeOK /\ HasFile /\ Calm => OneLiveCommand
<1> SUFFICES ASSUME TypeOK, HasFile, Calm, NEW f \in OnDisk, NEW g \in OnDisk,
                    f.chain = g.chain, Live(f), Live(g)
             PROVE  f = g
  BY DEF OneLiveCommand
<1>1. f \notin superseded /\ g \notin superseded
  BY DEF Calm, DeadAside
<1>2. (\E c \in Chain : path[c] \in Cmd /\ f = path[c]) /\ (\E c \in Chain : path[c] \in Cmd /\ g = path[c])
  BY <1>1 DEF OnDisk
<1> QED
  BY <1>2 DEF HasFile

--------------------------------------------------------------------------------
(* The operator's commands do not compete.  A command is submitted only when *)
(* no other of ours had the name, and where one took it since, it is dead.   *)

Checked == IF send.step = "preflight" THEN send.items \ send.todo ELSE {}
Uncontested(f) == holder[f.chain] \in Cmd => holder[f.chain] = f \/ ~CanLand(f)
NoneCompete == \A f \in wire \cup pool \cup Checked : Uncontested(f)

LEMMA UncontestedStays ==
    ASSUME TypeOK, HasFile, Kept, Calm, [Next]_vars, NEW f \in OnDisk, Uncontested(f)
    PROVE  Uncontested(f)'
<1>1. f \in Cmd /\ f.chain \in Chain
  BY DiskIsCommands DEF Cmd
<1>2. CASE holder[f.chain] # Free
  BY <1>1, <1>2, NameStays, DeadStaysDead DEF Uncontested
<1>3. CASE holder[f.chain] = Free
  <2>1. CASE holder'[f.chain] \notin Cmd
    BY <2>1 DEF Uncontested
  <2>2. CASE \E g \in pool : Land(g)
    <3>1. PICK g \in pool : Land(g)
      BY <2>2
    <3>2. g \in OnDisk /\ g \in Cmd /\ CanLand(g)
      BY <3>1 DEF Land, Kept, ProofIsNeverLost, TypeOK
    <3>3. CASE g.chain # f.chain
      BY <1>1, <1>3, <3>1, <3>3, MarkAssumption DEF Land, TypeOK, Uncontested
    <3>4. CASE g.chain = f.chain
      <4>1. Live(g) /\ holder'[f.chain] = g
        BY <1>1, <1>3, <3>1, <3>2, <3>4 DEF Land, Live, TypeOK
      <4>2. g # f => ~Live(f)
        BY <3>2, <3>4, <4>1, OneIsLive DEF OneLiveCommand
      <4>3. g # f => ~CanLand(f)'
        BY <1>1, <1>3, <4>2, DeadStaysDead DEF Live
      <4> QED
        BY <4>1, <4>3 DEF Uncontested
    <3> QED
      BY <3>3, <3>4
  <2>3. CASE UNCHANGED holder
    BY <1>3, <2>3, MarkAssumption DEF Uncontested
  <2>4. CASE \E c \in Chain : Copycat(c)
    <3>1. holder'[f.chain] \in {Free, Copy}
      BY <1>1, <1>3, <2>4 DEF Copycat, TypeOK
    <3> QED
      BY <3>1, MarkAssumption DEF Uncontested
  <2> QED
    BY <2>2, <2>3, <2>4, HolderMoves
<1> QED
  BY <1>2, <1>3

\* What joins the commands on their way was on its way, or meets none of ours.
LEMMA Joins ==
    ASSUME TypeOK, HasFile, Calm, [Next]_vars, NEW f \in wire' \cup pool' \cup Checked'
    PROVE  \/ f \in wire \cup pool \cup Checked
           \/ f \in Cmd /\ holder'[f.chain] \notin Cmd
<1>1. ASSUME NEW r \in Run, NEW c \in Chain, DeployStep(r, c)
      PROVE  \/ f \in wire \cup pool \cup Checked
             \/ f \in Cmd /\ holder'[f.chain] \notin Cmd
  <2>1. UNCHANGED <<pool, send, holder>>
    BY <1>1, StepUpdates DEF chainVars
  <2>2. \/ wire' = wire
        \/ at[r][c] = "write" /\ mode[r] = "direct" /\ wire' = wire \cup {mind[r][c].file}
    BY <1>1, StepUpdates DEF chainVars
  <2>3. at[r][c] = "write" => mind[r][c].file \in Cmd /\ mind[r][c].file.chain = c
    BY DEF HasFile
  <2>4. at[r][c] = "write" /\ mode[r] = "direct" => holder[c] \notin Cmd
    BY DEF Calm, CalmAt
  <2> QED
    BY <2>1, <2>2, <2>3, <2>4 DEF Checked
<1>2. ASSUME NEW r \in Run, Start(r) \/ End(r) \/ Die(r) PROVE f \in wire \cup pool \cup Checked
  BY <1>2 DEF Start, End, Die, chainVars, Checked
<1>3. CASE SendStart \/ SendSign \/ SendDies
  BY <1>3 DEF SendStart, SendSign, SendDies, Resting, Checked, chainVars, TypeOK
<1>4. ASSUME NEW cmd \in send.todo, SendStatus(cmd) PROVE f \in wire \cup pool \cup Checked
  <2>1. send.step = "status" /\ send'.step = "status"
    BY <1>4, AskUpdates DEF SendStatus
  <2> QED
    BY <1>4, <2>1 DEF SendStatus, chainVars, Checked
<1>5. ASSUME NEW cmd \in send.todo, SendPreflight(cmd)
      PROVE  \/ f \in wire \cup pool \cup Checked
             \/ f \in Cmd /\ holder'[f.chain] \notin Cmd
  <2>1. Checked' \subseteq Checked \cup {cmd} /\ UNCHANGED <<wire, pool, holder>>
    BY <1>5 DEF SendPreflight, chainVars, Checked, TypeOK
  <2>2. cmd \in Cmd /\ holder[cmd.chain] = Free
    BY <1>5 DEF SendPreflight, TypeOK
  <2> QED
    BY <2>1, <2>2, MarkAssumption
<1>6. CASE SendSubmit
  BY <1>6 DEF SendSubmit, Resting, Checked
<1>7. CASE Tick \/ UNCHANGED vars \/ (\E cmd \in wire : Arrive(cmd) \/ Lose(cmd))
           \/ (\E cmd \in pool : Land(cmd)) \/ (\E c \in Chain : Copycat(c))
  BY <1>7 DEF Tick, Arrive, Lose, Land, Copycat, vars, chainVars, Checked
<1> QED
  BY <1>1, <1>2, <1>3, <1>4, <1>5, <1>6, <1>7 DEF Next

LEMMA NextCompete ==
    TypeOK /\ HasFile /\ Kept /\ Calm /\ NoneCompete /\ [Next]_vars => NoneCompete'
<1> SUFFICES ASSUME TypeOK, HasFile, Kept, Calm, NoneCompete, [Next]_vars,
                    NEW f \in wire' \cup pool' \cup Checked'
             PROVE  Uncontested(f)'
  BY DEF NoneCompete
<1>1. CASE f \in wire \cup pool \cup Checked
  <2>1. f \in OnDisk
    BY <1>1 DEF Kept, ProofIsNeverLost, Checked
  <2> QED
    BY <1>1, <2>1, UncontestedStays DEF NoneCompete
<1>2. CASE f \in Cmd /\ holder'[f.chain] \notin Cmd
  BY <1>2 DEF Uncontested
<1> QED
  BY <1>1, <1>2, Joins

LEMMA NextLoses ==
    TypeOK /\ HasFile /\ NoneCompete /\ LosesOnlyToACopy /\ [Next]_vars => LosesOnlyToACopy'
<1> SUFFICES ASSUME TypeOK, HasFile, NoneCompete, LosesOnlyToACopy, [Next]_vars, NEW f \in failed'
             PROVE  holder'[f.chain] = Copy
  BY DEF LosesOnlyToACopy
<1>0. \A g \in Cmd : g.chain \in Chain /\ (holder[g.chain] = Copy => holder'[g.chain] = Copy)
  BY NameStays, MarkAssumption DEF Cmd
<1>1. CASE f \in failed
  BY <1>0, <1>1 DEF LosesOnlyToACopy, TypeOK
<1>2. ASSUME NEW cmd \in pool, Land(cmd), f \notin failed PROVE holder'[f.chain] = Copy
  <2>1. f = cmd /\ f \in Cmd /\ holder[f.chain] # Free
    BY <1>2 DEF Land, TypeOK
  <2>2. holder[f.chain] # f
    BY <1>2, <2>1 DEF Land, Status
  <2>3. Uncontested(f) /\ CanLand(f)
    BY <1>2, <2>1 DEF NoneCompete, Land
  <2>4. holder[f.chain] = Copy
    BY <1>0, <2>1, <2>2, <2>3 DEF Uncontested, TypeOK
  <2> QED
    BY <1>0, <2>1, <2>4
<1>3. ASSUME NEW r \in Run, NEW c \in Chain, DeployStep(r, c) PROVE UNCHANGED failed
  BY <1>3, StepUpdates DEF chainVars
<1>4. ASSUME NEW r \in Run, Start(r) \/ End(r) \/ Die(r) PROVE UNCHANGED failed
  BY <1>4 DEF Start, End, Die, chainVars
<1>5. CASE SendStart \/ SendSign \/ SendSubmit \/ SendDies
           \/ \E cmd \in send.todo : SendStatus(cmd) \/ SendPreflight(cmd)
  BY <1>1, <1>5 DEF SendStart, SendSign, SendSubmit, SendDies, SendStatus, SendPreflight, chainVars
<1>6. CASE Tick \/ UNCHANGED vars \/ (\E cmd \in wire : Arrive(cmd) \/ Lose(cmd))
           \/ (\E c \in Chain : Copycat(c))
  BY <1>1, <1>6 DEF Tick, Arrive, Lose, Copycat, vars, chainVars
<1> QED
  BY <1>1, <1>2, <1>3, <1>4, <1>5, <1>6 DEF Next

--------------------------------------------------------------------------------
(* The ceremony is a race for names.  A step that takes no name and writes no  *)
(* file lets tickets run out, or stutters.                                     *)

LEMMA FewerTickets ==
    ASSUME TypeOK, HasFile, [Next]_vars, UNCHANGED holder, OnDisk' \subseteq OnDisk
    PROVE  [Race!Next]_Race!vars
<1>1. OnDisk \subseteq Cmd
  BY DiskIsCommands
<1>2. ASSUME NEW c \in Chain PROVE TicketsOf(c)' \subseteq TicketsOf(c)
  BY <1>1, DeadStaysDead DEF TicketsOf
<1>3. \A c \in Chain : TicketsOf(c)' \in SUBSET Cmd
  BY <1>1 DEF TicketsOf
<1>4. Race!Expire
  BY <1>2, <1>3 DEF Race!Expire
<1> QED
  BY <1>4 DEF Race!Next

LEMMA Enters ==
    ASSUME TypeOK, HasFile, DeadAside, [Next]_vars, UNCHANGED <<now, holder, superseded>>,
           NEW c \in Chain, NEW cmd \in Cmd, cmd.chain = c,
           path[c] \notin Cmd, path' = [path EXCEPT ![c] = cmd]
    PROVE  [Race!Next]_Race!vars
<1>1. OnDisk' = OnDisk \cup {cmd}
  BY DEF OnDisk, TypeOK
<1>2. \A f : Live(f)' <=> Live(f)
  BY DEF Live, CanLand
<1>3. CASE ~Live(cmd)
  <2>1. \A d \in Chain : TicketsOf(d)' = TicketsOf(d)
    BY <1>1, <1>2, <1>3 DEF TicketsOf
  <2> QED
    BY <2>1 DEF Race!vars
<1>4. CASE Live(cmd)
  <2>1. TicketsOf(c) = {}
    BY DEF TicketsOf, OnDisk, DeadAside, HasFile
  <2>2. TicketsOf(c)' = {cmd}
    BY <1>1, <1>2, <1>4, <2>1 DEF TicketsOf
  <2>3. \A d \in Chain : d # c => TicketsOf(d)' = TicketsOf(d)
    BY <1>1, <1>2 DEF TicketsOf
  <2>4. holder[c] = Free
    BY <1>4 DEF Live
  <2>5. Race!Enter(c)
    BY <2>1, <2>2, <2>3, <2>4 DEF Race!Enter
  <2> QED
    BY <2>5 DEF Race!Next
<1> QED
  BY <1>3, <1>4

\* A name that is taken ends its chain's race and leaves the others as they are.
LEMMA Wins ==
    ASSUME TypeOK, NEW c \in Chain, NEW winner, winner # Free,
           holder' = [holder EXCEPT ![c] = winner], holder[c] = Free,
           UNCHANGED <<now, diskVars>>
    PROVE  Race!Win(c, winner)
<1>1. OnDisk' = OnDisk /\ \A f : CanLand(f)' <=> CanLand(f)
  BY DEF diskVars, OnDisk, CanLand
<1>2. holder'[c] = winner /\ \A d \in Chain : d # c => holder'[d] = holder[d]
  BY DEF TypeOK
<1>3. TicketsOf(c)' = {}
  BY <1>2 DEF TicketsOf, Live
<1>4. \A d \in Chain : d # c => TicketsOf(d)' = TicketsOf(d)
  BY <1>1, <1>2 DEF TicketsOf, Live
<1> QED
  BY <1>3, <1>4 DEF Race!Win

LEMMA StepRefines ==
    TypeOK /\ HasFile /\ Kept /\ Calm /\ [Next]_vars => [Race!Next]_Race!vars
<1> SUFFICES ASSUME TypeOK, HasFile, Kept, Calm, [Next]_vars PROVE [Race!Next]_Race!vars
  OBVIOUS
<1>0. UNCHANGED diskVars => OnDisk' = OnDisk
  BY DEF diskVars, OnDisk
<1>1. ASSUME NEW r \in Run, NEW c \in Chain, DeployStep(r, c) PROVE [Race!Next]_Race!vars
  <2>1. UNCHANGED <<now, holder>>
    BY <1>1, StepUpdates DEF chainVars
  <2>2. CASE at[r][c] = "write" /\ Fill(r, c)
    <3>1. /\ mind[r][c].file \in Cmd /\ mind[r][c].file.chain = c
          /\ path[c] = r /\ path[c] \notin Cmd
      BY <2>2, MarkAssumption DEF HasFile, Calm, CalmAt
    <3>2. path' = [path EXCEPT ![c] = mind[r][c].file] /\ UNCHANGED superseded
      BY <2>2, <3>1 DEF Fill
    <3> QED
      BY <2>1, <3>1, <3>2, Enters DEF Calm
  <2>3. Aside(c) => OnDisk' \subseteq OnDisk
    BY DEF Aside, OnDisk
  <2>4. Removes(c) => OnDisk' \subseteq OnDisk
    BY MarkAssumption DEF Removes, OnDisk, TypeOK
  <2>5. Create(r, c) => OnDisk' \subseteq OnDisk
    BY MarkAssumption DEF Create, OnDisk, TypeOK
  <2> QED
    BY <1>0, <1>1, <2>1, <2>2, <2>3, <2>4, <2>5, DiskMoves, FewerTickets
<1>2. ASSUME NEW r \in Run, Start(r) \/ End(r) \/ Die(r) PROVE [Race!Next]_Race!vars
  <2>1. UNCHANGED <<holder, diskVars>>
    BY <1>2 DEF Start, End, Die, chainVars
  <2> QED
    BY <1>0, <2>1, FewerTickets
<1>3. CASE SendStart \/ SendSign \/ SendSubmit \/ SendDies
           \/ \E cmd \in send.todo : SendStatus(cmd) \/ SendPreflight(cmd)
  <2>1. UNCHANGED <<holder, diskVars>>
    BY <1>3 DEF SendStart, SendSign, SendSubmit, SendDies, SendStatus, SendPreflight, chainVars
  <2> QED
    BY <1>0, <2>1, FewerTickets
<1>4. CASE Tick \/ UNCHANGED vars \/ \E cmd \in wire : Arrive(cmd) \/ Lose(cmd)
  <2>1. UNCHANGED <<holder, diskVars>>
    BY <1>4 DEF Tick, Arrive, Lose, vars, chainVars
  <2> QED
    BY <1>0, <2>1, FewerTickets
<1>5. ASSUME NEW cmd \in pool, Land(cmd) PROVE [Race!Next]_Race!vars
  <2>1. cmd \in OnDisk /\ cmd \in Cmd /\ cmd.chain \in Chain /\ CanLand(cmd)
    BY <1>5 DEF Land, Kept, ProofIsNeverLost, TypeOK, Cmd
  <2>2. CASE holder[cmd.chain] = Free
    <3>1. Race!Win(cmd.chain, cmd)
      BY <1>5, <2>1, <2>2, Wins, MarkAssumption DEF Land
    <3>2. cmd \in TicketsOf(cmd.chain)
      BY <2>1, <2>2 DEF TicketsOf, Live
    <3> QED
      BY <2>1, <3>1, <3>2 DEF Race!Next
  <2>3. CASE holder[cmd.chain] # Free
    BY <1>0, <1>5, <2>3, FewerTickets DEF Land
  <2> QED
    BY <2>2, <2>3
<1>6. ASSUME NEW c \in Chain, Copycat(c) PROVE [Race!Next]_Race!vars
  <2>1. Race!Win(c, Copy)
    BY <1>6, Wins, MarkAssumption DEF Copycat
  <2> QED
    BY <2>1 DEF Race!Next
<1> QED
  BY <1>1, <1>2, <1>3, <1>4, <1>5, <1>6 DEF Next

LEMMA InitRefines == Init => Race!Init
<1> SUFFICES ASSUME Init PROVE Race!Init
  OBVIOUS
<1>1. \A c \in Chain : TicketsOf(c) = {}
  BY MarkAssumption DEF Init, TicketsOf, OnDisk
<1> QED
  BY <1>1 DEF Init, Race!Init

--------------------------------------------------------------------------------
(* The theorems. *)

\* What overlapping runs and failing lookups leave standing.
DeployOK == TypeOK /\ HasFile /\ OursIsOurs

LEMMA InitOK == Init => DeployOK
<1>1. Init => OursIsOurs
  BY DEF Init, OursIsOurs, ReportedOurs
<1> QED
  BY <1>1, InitTyped DEF DeployOK

LEMMA NextOK == DeployOK /\ [Next]_vars => DeployOK'
BY NextTyped, NextOurs DEF DeployOK

LEMMA Inductive == Spec => []DeployOK
BY InitOK, NextOK, PTL DEF Spec

\* The chains, the disk and the memory of every run and send are what the code can make
\* them, whoever dies where (deploy.ts:64-147, send-signed.ts:94-199).
THEOREM TypeCorrect == Spec => []TypeOK
<1>1. DeployOK => TypeOK
  BY DEF DeployOK
<1> QED
  BY <1>1, Inductive, PTL

\* A chain reported as the operator's is: no run, overlapping or not, takes a copy for
\* its own (deploy.ts:8-10).
THEOREM OursReported == Spec => []OursIsOurs
<1>1. DeployOK => OursIsOurs
  BY DEF DeployOK
<1> QED
  BY <1>1, Inductive, PTL

\* Where every lookup is answered, overlapping runs write no file for a chain that
\* already carried the module (deploy.ts:8-10).
THEOREM HeldGetsNone == ASSUME Unanswered = FALSE PROVE Spec => []HeldGetsNoFile
<1>1. Init => Remembers
  BY DEF Init, Remembers, Building
<1>2. DeployOK /\ Remembers /\ [Next]_vars => Remembers'
  BY NextRemembers DEF DeployOK
<1>3. Remembers => HeldGetsNoFile
  BY DEF Remembers, HeldGetsNoFile, Building
<1> QED
  BY <1>1, <1>2, <1>3, Inductive, PTL DEF Spec

CalmOK == DeployOK /\ Kept /\ Calm /\ NoneCompete /\ LosesOnlyToACopy

LEMMA InitCalm == Init => CalmOK
<1> SUFFICES ASSUME Init PROVE CalmOK
  OBVIOUS
<1>1. DeployOK
  BY InitOK
<1>2. Calm
  BY DEF Init, Calm, DeadAside, CalmAt
<1>3. NoneCompete /\ LosesOnlyToACopy
  BY DEF Init, NoneCompete, LosesOnlyToACopy, Checked, Resting
<1>4. Kept
  BY MarkAssumption DEF Init, Kept, ProofIsNeverLost, Resting
<1> QED
  BY <1>1, <1>2, <1>3, <1>4 DEF CalmOK

LEMMA CalmInductive == ASSUME OneRun PROVE Spec => []CalmOK
<1>1. CalmOK /\ [Next]_vars => CalmOK'
  BY NextOK, NextKept, NextCalm, NextCompete, NextLoses DEF CalmOK, DeployOK
<1> QED
  BY <1>1, InitCalm, PTL DEF Spec

\* One run at a time: no command that may land, or has landed, ever loses its file,
\* whether a run dies between a copy and a removal, inside a write, or after it
\* submitted (deploy.ts:61-63, lib.ts:482-484).
THEOREM ProofKept == ASSUME OneRun PROVE Spec => []ProofIsNeverLost
<1>1. CalmOK => ProofIsNeverLost
  BY DEF CalmOK, Kept
<1> QED
  BY <1>1, CalmInductive, PTL

\* One run at a time: where a command of the operator's holds the name, the file that
\* proves it is on disk (deploy.ts:61-63, 79).
THEOREM HeldProven == ASSUME OneRun PROVE Spec => []HeldIsProven
<1>1. ProofIsNeverLost => HeldIsProven
  BY DEF ProofIsNeverLost, HeldIsProven
<1> QED
  BY <1>1, ProofKept, PTL

\* One run at a time: no step takes a deploy file off the disk, as its removal finds at
\* the path the very file that was copied, or one that was never written whole
\* (deploy.ts:12, lib.ts:485-499).
THEOREM FilesKept == ASSUME OneRun PROVE Spec => NoFileVanishes
<1>1. CalmOK /\ [Next]_vars => [OnDisk \subseteq OnDisk']_vars
  BY NextKept DEF CalmOK, DeployOK
<1> QED
  BY <1>1, CalmInductive, PTL DEF Spec, NoFileVanishes

\* One run at a time: a chain never has two commands that can still take its name,
\* through any sequence of runs, deaths and lookups that fail (deploy.ts:12-14).
THEOREM OneLive == ASSUME OneRun PROVE Spec => []OneLiveCommand
<1>1. CalmOK => OneLiveCommand
  BY OneIsLive DEF CalmOK, DeployOK
<1> QED
  BY <1>1, CalmInductive, PTL

\* One run at a time: what lies in superseded/ can no longer land anywhere
\* (deploy.ts:12-15).
THEOREM SupersededDead == ASSUME OneRun PROVE Spec => []SupersededIsDead
<1>1. CalmOK => SupersededIsDead
  BY DEF CalmOK, Calm, DeadAside, SupersededIsDead
<1> QED
  BY <1>1, CalmInductive, PTL

\* One run at a time: the ceremony, with its files, crashes and late commands, is a race
\* the operator enters with one ticket at a time (deploy.ts:8-15).
THEOREM Implements == ASSUME OneRun PROVE Spec => ImplementsRace
<1>1. CalmOK /\ [Next]_vars => [Race!Next]_Race!vars
  BY StepRefines DEF CalmOK, DeployOK
<1> QED
  BY <1>1, InitRefines, CalmInductive, PTL DEF Spec, ImplementsRace, Race!Spec

\* One run at a time: no command of the operator's fails because of another, even
\* where the chain's files were made by runs that could not see it land
\* (send-signed.ts:130-131, 199).
THEOREM LosesToACopy == ASSUME OneRun PROVE Spec => []LosesOnlyToACopy
<1>1. CalmOK => LosesOnlyToACopy
  BY DEF CalmOK
<1> QED
  BY <1>1, CalmInductive, PTL

\* One run at a time: a chain is reported LOST only where a copy holds the name
\* (deploy.ts:8-10).
THEOREM LostReported == ASSUME OneRun PROVE Spec => []LostIsNotOurs
<1>1. CalmOK => LostIsNotOurs
  BY DEF CalmOK, Calm, CalmAt, LostIsNotOurs
<1> QED
  BY <1>1, CalmInductive, PTL
=============================================================================
