# block-history, specified

TLA+ modules for the block-history repository: the Pact module that records each chain's own block headers,
the feeder that keeps it supplied, the ceremony that puts it on every chain, the checks that stand between a
file of unknown origin and a signature, and the tools that keep the keys, check the record, empty the
feeder's account and provision its machine. TLC checks the modules on small instances; TLAPS proves their
safety properties for every value of the constants. `PROJECT.json` maps each definition to the lines
it models.

## 1. Inventory

| Part | State it keeps | Operations | Talks to |
|---|---|---|---|
| `block-history.pact` | tables `attested` (height to hash, time, payer) and `latest` | `attest`; reads `get-attested`, `has-attested`, `latest` and their shorthands; deploy | the chain engine's `(chain-data)` |
| `feeder.ts` | counters per chain and per extra host, last height, anchor, timers, back-off | startup check, header stream, `attest`, `fanOut`, waiting timers, sampled poll, `report` and `beat`, `stop` | the node (stream, submit, poll), extra hosts, a ping URL |
| `deploy.ts` | deploy files of one network: one path per chain and `superseded/` | per chain: describe, ownership, fate, plan, move aside, write or send | the node, the disk |
| `send-signed.ts` | nothing of its own | read files, status, sign, preflight all, submit all, poll | the node, the disk |
| `lib.ts` | key files | commands, ownership, file fate, superseding, retries, headers, parsing | the node, the disk |
| `preflight.ts`, `oracle.ts`, `balances.ts`, `stream-check.ts` | nothing | read-only checks of the chains | the node |
| `sweep.ts` | nothing | read balances, preflight, transfer, read again | the node, systemd |
| `keygen.ts`, `key-backup.ts` | key and backup files | create, save, check, restore | the disk |
| `provision-droplet.sh`, the service unit | a machine | install, pin, configure, restart | git, npm, systemd |

The parts interact through the chains (a command the deploy tools send installs the module, the attests the
feeder sends call it, the oracle and other readers read it) and through the disk (deploy files are the proof
of ownership that `deploy`, `preflight` and `send-signed` read).

What is hard here, part by part:

* **The module.** Transactions run in a block that can be orphaned, several recorders race in one block,
  `latest` is written without a comparison, the row of height h lives in block h + 1, and the deploy
  transaction can write to the tables. It is correct when every row is what its own fork holds, rows are
  permanent on their fork, `latest` is the highest row, and `attest` never aborts for a reason a recorder
  can meet.
* **The feeder.** Attests, sends to extra hosts, polls, timers, disconnections and a shutdown interleave in
  one process. It is correct when each attest is counted once and gives its place under the cap back, timers
  live only on an open connection, and the process always reconnects or ends.
* **The deploy ceremony.** Files, two tools, a command that can land long after the tool that sent it gave
  up, crashes between two system calls, concurrent runs, and a name anyone may take first. It is correct
  when no proof of ownership is ever lost, no chain has two commands that can both land, and what a run
  reports of a chain is so.
* **The sweep.** A transfer a run gave up on can land while the next run holds a plan made before it did;
  any request may go unanswered; the feeder may come back and spend. It is correct when "complete" is true
  of every chain, and when no re-run burns gas on a second transfer.
* **The oracle.** It compares rows and headers read by separate requests from a chain that moves between
  them. It is correct when it accuses no right module, when what it calls consistent stays so, and when it
  calls nothing consistent that it did not read.
* **Provisioning.** The script dies anywhere and is run again, beside systemd's restarts and the operator.
  It is correct when a running feeder ends on the pinned commit, a stopped one stays stopped, the operator's
  settings survive, and a re-run repairs what an interruption left.
* **Relayed files.** A command file may come from anyone: another's signature, a wider scope, writes of its
  own behind the module's text, a text that two JSON readers understand differently. It is correct when the
  gas key signs the deploy's own command and nothing else, when what is submitted is what was judged, and
  when the checks that sign a file and the checks that later read it as proof of ownership agree.
* **Key files.** Processes test for a file and create it in two steps, die inside a write, and a backup
  reads the key twice with two passphrases typed in between. It is correct when no key an account was funded
  for is overwritten, and every backup opens to the key it is named for.

## 2. Modules

| Module | What it is |
|---|---|
| `BlockRecord` | what the module promises, abstractly: a fork that grows and is rewound, and a set of remembered blocks |
| `BlockHistory` | `block-history.pact` on a chain that reorganises; implements `BlockRecord` |
| `BlockHistoryProofs` | TLAPS proofs about `BlockHistory` |
| `Feeder` | `feeder.ts`, one action per stretch of code between two awaits |
| `NameRace` | what the ceremony promises, abstractly: one race per name, which the operator enters with one ticket at a time |
| `DeployCeremony` | `deploy.ts` and `send-signed.ts` around the deploy files, the network and the chains; implements `NameRace` when runs do not overlap |
| `Sweep` | `sweep.ts` beside the chains and a feeder |
| `SweepProofs` | TLAPS proofs about `Sweep` |
| `Provision` | `provision-droplet.sh` and the service unit, beside systemd and the operator |
| `Oracle` | `oracle.ts` and `lib.ts`'s canonical headers, on one chain that moves |
| `Relay` | `send-signed.ts` and the checks of `lib.ts`, on files nobody vouches for |
| `KeyFiles` | `keygen.ts`, `key-backup.ts` and `loadOrCreateKey`, in several processes |
| `FeederProofs`, `DeployProofs`, `ProvisionProofs`, `OracleProofs`, `RelayProofs`, `KeyFilesProofs` | TLAPS proofs about those |
| `MCBlockHistory`, `MCFeeder`, `MCDeploy`, `MCSweep`, `MCProvision`, `MCOracle`, `MCRelay`, `MCKeyFiles` | small instances for TLC |

### BlockHistory

`chain` is the sequence of closed blocks of the current fork; the open block has height `Len(chain)` and
`(chain-data)` shows it the block before. `world` is the database as the open block sees it. `base[i]` is
the database as the block of height i - 1 found it, which is what `Reorg` goes back to: the engine's rewind,
together with the Pact database, to a block of the same chain. `settled` counts the blocks that `Depth`
confirmations have made final, `accepted` holds what an off-chain reader took for final.

`Deploy` installs the module and leaves one of `Plantings` in its tables: a deploy transaction may run any
code besides. A second `Deploy` would be an upgrade, which `GOVERNANCE` refuses. `Attest` is the whole
function: its three outcomes (abort, already recorded, recorded) are `Aborts`, `AlreadyRecorded` and
`Recordable`. `world.planted` and `world.events` are histories that only the properties read. `Accept` is
the reader of the module's header comment: it acts on the row of h only once block h + 1, which wrote the
row, is final.

Data that is abstracted: a row key is its height (the padded decimal is a bijection on the accepted range),
a header is a hash and a time, documentation strings and error texts are left out. A reorganisation that
jumps to a longer fork is a `Reorg` followed by `Mine` steps, so readers here see the prefixes as well,
which adds behaviours and removes none.

### Feeder

The process has one thread, so the code between two awaits is one action. `pc` is where `main()` is;
`attests[c]` holds each attest of chain c with its phase (building, submitting, submitted, error), its
sampled poll and the extra hosts that have not answered; the counters are the code's own. `heard` is a
history: the chains this connection brought a header for. Everything outside is nondeterministic: what the
stream announces (any height, again or from another fork), how each request ends and in which order, when a
signal arrives. Time is left out, so a timer fires when it is set. Header times are left out: `anchor` is
the height of the header a waiting attest would be anchored to. `MAX_INFLIGHT`, `SAMPLE_POLL` and `WAITING`
are the environment's settings.

### DeployCeremony

A command is its chain and its creation time: the builder derives every other byte from these. `path[c]` and
`superseded` are the disk; `wire` are submitted commands on their way (a process may be dead or have been
told of a failure when one arrives), `pool` those the node has, `holder[c]` who holds the module's name on
c: nobody, a copy, or one of the operator's commands. A command the node mines when the name is taken fails.

A deploy run walks each chain through describe, own, status, time and build, with one action per await of
`deployChain`; `mind` is what its local variables hold between the awaits, and `files` the snapshot of the
deploy files read at its start. `Run` holds the runs that may overlap: they are processes, so what one does
to the disk is one action per system call. `supersede` copies the file at the path (`Aside`) and then
removes the file at the path (`Unlink`), which need not be the same one. `record` creates a file where there
is none (`Create`) and then writes it (`Fill`); until then the path carries the mark of the run that created
it, a file that cannot be read, proves nothing and is never judged expired. A file removed in between takes
its content with it. `Die` ends a run between any two of these steps, since every error it does not handle
ends the process. `send` is a send-signed run, whose refusals and interruptions are `SendDies`. Each run is
started in one of the modes of `Mode`: `deploy --unsigned`, or the direct deploy of a devnet. `Unanswered`
says whether a describe-module lookup may fail without an answer.

`NameRace` knows only holders and tickets. A chain's tickets are its deploy files that can still take its
name (`TicketsOf`): on disk, at the path or aside, not expired, the name free. Writing a file is entering
the race, a command or a copy that lands ends it, the clock lets tickets expire, and every other step is a
stutter.

Left out: files the tools did not write (the code keeps those and proves nothing from them), keys,
signatures, fees, balances, chain reorganisations after a deploy, and when the source becomes public: a copy
may land at any time. One clock stands for every chain's.

### Sweep

`from[c]` and `to[c]` are the two balances of chain c in the smallest unit; `pending`, `landed` and `burned`
are the transfers that can still be mined, that succeeded and that failed. `at[c]` is where a run is on c:
`Read` and `plan`, `Check` (build, sign and preflight, once every balance is read), `Send` (`sendBuilt`'s
own preflight), `Submit`, `Wait`; chains go on independently from `Send` on, and `End` is the verdict. A run
that meets an error outside the parallel part is `Die`. `Land` is coin's transfer: it needs `Fee` to buy its
gas, gives back what it does not use, and burns all of it when the amount is not there. `trouble` is a
history of what has gone wrong so far, a request without an answer or a feeder that ran, which the
properties condition on. Left out: deposits to the feeder's account, reorganisations, keys, decimal parsing,
and hosts without systemd.

### Provision

One action per step of the script that changes state; `Begin` is steps 0 to 7, of which only the test for a
running feeder matters here. `deps` is the commit `node_modules` was installed from; `Deps` creates the
directory, `Npm` completes it. `ReadEnv` reads the heartbeat URL back and truncates `.env`, as the shell
does before `cat` runs; `WriteEnv` writes it. `Die` may strike at each step of `KillSteps`. `Crashes` lets
the feeder's process exit by itself, after which systemd waits (`restarting`), restarts it on whatever code
is checked out, or gives up. The operator edits `.env`, starts and stops the service: between runs of the
script, and with `Meddles` during one. `told` is a history of what they last asked for.

### Oracle

A block is the sequence of the labels of its ancestors and its own, so ancestry is the prefix order. `known`
are the blocks the node has, `tip` the one its canonical fork ends in; `Learn` brings a block on that fork
or beside it, at most `Depth` blocks back. The row of h is the block of height h of the open block's fork,
which is what `BlockHistory` establishes, or missing; at a height in `wrong` it names any block of that
height, of whatever fork, or none. `Cut` takes the range `--from` and `--to` may ask for, down to the
negative ends of a chain that has just begun; an empty one is not read, and `TakeRange` gives it the verdict
that its count of heights, which may be negative, gets in `main`. `Cut`, `Top`, `Headers`, each batch of
`Rows` and `Compare` are separate steps of the check, with the chain moving between them; rows and headers
are fetched in either order, as the code does concurrently.

### Relay

`DeployCeremony` is about *when* things happen and takes every file for one the deploy tool wrote; `Relay`
is about *what* a file is. A command is a record of the fields the checks tell apart, each with the value
this run expects ("ours") or another; `form` says whether the text is exactly the JSON the tools write, and
`atNode` what the node reads in it, which an exact form makes the same as what is read here. `Build` is
`buildUnsignedGasOnly`, and `Signable`, `Verified`, `Relayable`, `Spendable`, `Proves` and `Ownership` are
`signGasSlot`, `verifySigned`, `relayKind`, `spentKind`, `proofChain` and `ownership`, with the order of
their tests dropped where they only refuse.

A run loads files of the deploy directory, as the glob of the documentation does, and judges all of them
(`Load`); the code takes any path, and judges a file from elsewhere alike, but that file is not there to
prove anything when the run is over, so `SignedIsOurs` does not speak of it. The run then asks for the
status of each (`Skip`, `Pend`), signs or verifies (`Sign`), has the node simulate each body (`Preflight`)
and with --send submits all (`Submit`). Whatever the code refuses ends the run (`End`). Beside it, submitted
commands land at any time in their window, strangers land whatever they can sign or find signed, and the
clock runs. `signed`, `sent` and `heard` are histories. A node that installs another module under another
namespace takes no name of ours (`TakesTheName`); the reasons of a refusal, gas, fees and the host are left
out.

### KeyFiles

`keyAt` and `backupAt` are the files; `job[p]` is the tool a process runs and how far it has come. One
action per call whose order another process can see: the test for a file, its creation (`Create`, with or
without the exclusive flag), the end of its write (`Finish`, `Sealed`), a typed passphrase. A file being
written, or whose writer died, is `Torn`. `Seal` reads the key file again after both passphrases, as the
code does. `Die` ends a process anywhere, `MachineDies` takes the disk; the operator moves key files aside
and puts them, or a wrong pair, back; a blob at rest is altered. A key pair is its secret, and the cipher
is what it promises: it opens with its passphrase, unaltered, or not at all. `made`, `announced`, `away`,
`acting`, `saved` and `restored` are histories.

## 3. Runs

| Run | Instance | Shows |
|---|---|---|
| `history` | 2 hashes, 2 times, 2 payers, keys for 3 heights, 5 blocks, finality after 2, deploys that plant nothing, a row, or a row without a hash and a `latest` above all heights | fork-consistency, `latest`, events, totality, permanence, accepted rows stand, and the refinement of `BlockRecord` |
| `feeder` | 1 chain, 1 extra host, cap 1, 3 attests, every second one polled, 2 heights, back-off up to 2 s, with fairness | counters, caps, timers, anchors, sampling, and liveness |
| `deploy` | 1 chain, one run at a time in either mode, a send, 4 instants, time to live 1, lookups may fail | single live command, races, LOST, no proof is lost, and the refinement of `NameRace` |
| `deploy_proof` | two runs that overlap, 3 instants, time to live 1 | **violation**: a command holds a name and its file is gone |
| `sweep` | 2 chains, gas 2, balances 0, 2, 3 and 7, 2 runs | "complete" is true, no second transfer is mined, no balance makes a calm run fail |
| `provision` | 2 commits, 3 runs, the script dies at any step but `write`, the process crashes | updates, the heartbeat URL, a stopped feeder |
| `provision_missed_update` | the process crashes just before an update | **violation**: the old commit keeps running |
| `provision_rerun` | the script dies in `npm ci` or the key generation | **violation**: a re-run can stop, or always refuses |
| `oracle` | 2 children of a block, heights up to 5, 8 blocks, forks of 2, rows 2 at a time | no false alarm, no verdict that does not last, no broken walk |
| `oracle_empty` | the same with 5 blocks | **violation**: a range that was not read is called consistent |
| `relay` | 2 chains, any 2 of 25 files, 2 instants, runs in all four modes, strangers | what is signed, submitted and taken for proof is what was judged |
| `key_files` | 1 key path, 1 backup path, 2 keys, 2 processes, on a devnet and off it | no announced key is overwritten, every backup gives its key back |

The passing runs have from 3,000 to 2.7 million distinct states and take at most three minutes each.

Why the bounds are enough. *History*: five blocks pass the last key (height 3 has none), leave room for a
reorganisation of every depth, and for a block to be final with another behind it; two hashes and times tell
forks apart; two payers tell a row's writer from a duplicate's. *Feeder*: with a cap of 1 a second attest
meets the cap while the first is open and a third finds the place given back, or given back twice; the first
and third of three are polled; one height above the first lets the stream repeat, skip and go on; timers and
anchors are kept per chain and set and cleared for all at once, so one chain that is heard on one connection
and silent on the next is the case that matters. *Deploy*: the chains are independent but for the process
they share, so one chain carries every interleaving of its commands; with a time to live of 1 and 4 instants
a command expires, is regenerated, expires again, and lands at its last moment; where two runs overlap
(`deploy_proof`), 3 instants let one command expire and another land. *Sweep*: the balances are none, the
exact gas, one unit more, and enough for two transfers' gas; two chains let one fail beside another, two
runs let a second plan meet the first's pending transfer. *Provision*: two commits are an old and a new one;
three runs install, are interrupted and repair. *Oracle*: five heights hold a range, the two blocks the cut
stays behind the tip, and a fork of two beside them; with two rows a request, a range is read in parts.
*Relay*: the properties relate one file to another at most, so two files at a time suffice, and each of the
files differs from the deploy's own in the one field, or the pair of fields, that one check is for; a
command expires at the second instant. *Key files*: the races are between two processes at one path; the
second key is the one that would overwrite, or be passed off as, the first.

Deadlock is checked except where the system stops: the feeder exits, the oracle ends, the script's runs are
bounded, every command has landed or expired, every key has been made.

**Fairness** is assumed only in `feeder`, and only of what the process or its runtime does by itself:
requests end by their 25 s deadline, sleeps and the 60 s report timer fire, a stop aborts the stream, and
the HTTP client gives up on a connection it cannot open. Nothing is assumed of the node: it need not answer,
keep the stream up or announce headers, and nothing makes a signal arrive. Note that an *open* stream that
has gone silent has no deadline in `consumeStream`; `StreamComesBack` speaks of streams that ended.

### What the violations say

* `lib.ts:495-497` copies the file at a path and then removes the file at that path. Two runs judge the same
  expired file. The first copies and removes it and creates a fresh one. The second copies what it finds, at
  that moment an unreadable beginning, the first writes and submits its command, and the second removes the
  file. The command lands, and nothing on disk proves that the chain is the operator's: every later run
  reports it LOST. `deploy.ts:62-63` promises that no such file is ever deleted, and `deploy.ts:79` thinks
  of the very pair of runs. Two unsigned runs and a send do the same to each other.
* `oracle.ts:45` counts the heights of a range as `to - from + 1`, which is negative where the range begins
  two heights or more above its end (a `--from` above the tip, or a chain that has just begun), and lines 81
  and 83 test it for zero. The verdict is "CONSISTENT" and the exit code 0, where line 12 has 3 for "zero
  heights inspected". With several chains the counts are added up, so a negative one can also cancel the
  heights that were read on another.
* `provision-droplet.sh:60` asks whether the feeder is active, and a unit in systemd's 30 s wait before a
  restart is not. If it is restarted before the checkout, the old commit keeps running after an update that
  reports success, which line 259 sets out to exclude.
* `provision-droplet.sh:192` takes a `node_modules` that exists for an installation. After an interrupted
  `npm ci` every re-run can stop at the typecheck; after an interrupted key generation every re-run refuses
  the partial file.

### What else the models show

These follow from the models, by changing one constant or stating one more invariant, and are not runs of
their own. Section 4 has, for most of them, the theorem that holds without the fault.

* `feeder.ts:155` polls when `seq % SAMPLE_POLL === 1`. For 1 that is never true, though the option is "poll
  1 in N" (line 15). `SampledOneInN` fails with `SAMPLE_POLL = 1`; it is proved for every other value, as is
  that at 1 nothing is polled (`SampledUnlessOne`, `NoneSampledAtOne`).
* `deploy.ts:134` moves aside the file at the path *now*, which need not be the one judged before two
  awaits. With two overlapping runs the second moves the first's fresh file aside and writes another; both
  can land, and the later one burns its gas. `OneLiveCommand`, `SupersededIsDead` and `ImplementsRace` fail
  with `Run = {r1, r2}`, and `ProofIsNeverLost` with them.
* A run that dies inside the write of a new file leaves one that cannot be read (`deploy.ts:80`). Every
  later run keeps it and writes nothing for its chain until someone moves it by hand or the chain is LOST,
  which is what the code says of a file it cannot judge; nothing was sent, so no proof is lost.
* send-signed accepts a file from any path. One that is kept outside the deploy directory is signed and
  deploys the module like any other, and a later run then reports the chain LOST: only files of the
  directory are proof (`lib.ts:449-470`).
* `deploy.ts:69` reads the files once; a chain that another run's file created meanwhile is reported LOST
  (`LostIsNotOurs` with two runs). A later run reports it correctly, if the file is still there.
* `deploy.ts:125` takes any failure of describe-module for "no such module" (`HeldGetsNoFile` with
  `Unanswered = TRUE`). `feeder.ts:115-117` and the ownership lookup distinguish the two.
* `lib.ts:73-78` tests for a key file and then writes it without the exclusive flag. On a devnet, where
  missing keys are made, two commands can each make a key at one path: one of them then acts under a key
  that is not the one on disk, and a `keygen` at that path can lose its key (`AnnouncedIsKept` without its
  `~devnet`, and `EveryKeyIsKept`). Elsewhere `loadOrCreateKey` creates nothing, which is why the property
  holds.
* `preflight.ts:50` takes an unanswered describe-module for an absent module, as `deploy.ts:125` does; the
  dry run that follows would then be refused by the module's governance.
* `provision-droplet.sh:209` truncates `.env` while the heartbeat URL is only in the shell's memory
  (`HeartbeatKept` with `write` in `KillSteps`).
* `provision-droplet.sh:261`: `systemctl restart` starts a unit the operator stopped while the script ran
  (`StoppedStaysStopped` with `Meddles = TRUE`).
* An update keeps the dependencies of the commit installed first (`Deps`), where the repository's README
  speaks of a reinstall; it rewrites every setting of `.env` but the URL; and its banner says the feeder is
  stopped when it has just been restarted.
* A fork that replaces three blocks between the oracle's cut and its reads makes it report a right module
  (`NoFalseAlarm` with `Depth = 3`), and one after its verdict takes back rows it called consistent
  (`VerdictLasts`): the two blocks it stays behind the tip are its whole margin.
* The feeder's reconnection wait is reset only when `consumeStream` returns, which it does only when
  stopping (`feeder.ts:300`), so after early failures it stays long. A stop waits 2 s for polls that may
  take 180 s (`feeder.ts:310`).

## 4. Proofs

Every theorem is proved from the assumptions its module declares (marks are no values, bounds are naturals,
sets of chains and hosts of the feeder are finite) and from those named here. In each case the property
itself is not inductive; the table names what was added to make it so.

| Module | Theorems | Invariant |
|---|---|---|
| `BlockHistoryProofs` | `TypeCorrect`, `ForkConsistency`, `LatestCorrect`, `EventsCorrect`, `AttestTotal`, `RowsPermanent`, `AcceptedStand`, `Implements` | `HistoryOK`, `WrittenOK` |
| `SweepProofs` | `CompleteIsSwept`, `NoGasIsBurned`, `CalmSucceeds`, `PaidOnce` | `SweepOK`, `CalmOK`, `PaidOK` |
| `FeederProofs` | `TypeCorrect`, `AttestsCounted`, `SendsCounted`, `ReactiveOnce`, `TimersConnected`, `WaitingAnchored`, `ExitTells`; `SampledUnlessOne` if `SAMPLE_POLL # 1`, `NoneSampledAtOne` if it is 1 | `FeederOK`, `PollsOK` |
| `DeployProofs` | `TypeCorrect`, `OursReported`; `HeldGetsNone` if every lookup is answered; `ProofKept`, `HeldProven`, `FilesKept`, `OneLive`, `SupersededDead`, `LosesToACopy`, `LostReported`, `Implements` if runs do not overlap (`OneRun`) | `DeployOK`, `Remembers`, `CalmOK` |
| `ProvisionProofs` | `TypeCorrect`, `Updated`; `UrlKept` if no run dies in `write`; `StaysStopped` if the operator does not meddle; `TakesEffect` if moreover the process does not crash; `OnlyDependenciesStop` if also no run dies in `npm` or `key`; `RerunRepairs` if there is one commit besides | `UrlSomewhere`, `ToldToRun`, `Noticed`, `Whole` |
| `OracleProofs` | `TypeCorrect`, `Unbreakable`; `NoAlarm` and `VerdictStands` if `Depth <= 2` | `NodeOK`, `CheckOK`, `StableOK`, `LastingOK` |
| `RelayProofs` | `OwnershipEarned`, `SignedOurs`, `RelayedJudged`, `ChecksLeak`, `RerunSkips` | `RelayOK` |
| `KeyFilesProofs` | `SavedRestorable`, `RestoredSaved`, `ActsUnderHeld`, `AnnouncedKept`, `KeptOffDevnet`; `KeptAlone` if there is one process | `SavesOK`, `Held`, `Lone` |

The conditions are the faults themselves: without one of them, its theorem fails as a violation run or an
observation of section 3 shows; with it, nothing else goes wrong. While the operator leaves the service
alone, an old commit is left running only by a feeder that was down when its update began (`TakesEffect`),
and a re-run is stopped only by a feeder that does not stay up, an interrupted `npm ci` or key generation,
or the dependencies of another commit (`OnlyDependenciesStop`); `SAMPLE_POLL = 1` is the one setting that
samples nothing. The oracle's condition is the code's own constant: the check stays two blocks behind the
tip.

Some of the properties proved here are not among the runs', and were checked on the same instances before
they were proved: `DestinationIsPaidOnce` (`sweep`), `ExitCodeTells` (`feeder`), `SupersededIsDead`,
`NoFileVanishes` and `OursIsOurs` (`deploy`; the last also with two runs that overlap), `HeldGetsNoFile`
(likewise, with every lookup answered) and `EveryKeyIsKept` (`key_files`, with one process, or off a
devnet).

**The module.** `Reorg` brings back `base[k + 1]`, of which no property says anything. `HistoryOK` therefore
says of *every* saved state what it says of the open block, each relative to its own height: rows that
attest wrote lie below it and match the fork's prefix, `latest` and the events match those rows, and planted
rows are untouched. `Mine` extends the fork without touching the prefixes that the saved states are about;
`Reorg` shortens it to exactly the prefix that `base[k + 1]` speaks of; `Attest` records a height above
every recorded one, since the open block's predecessor is, which is why `latest` needs no comparison.
`WrittenOK` adds when a row is written: it is in every state from the block after its own on and in none
before, so a state that `Depth` confirmations have made final holds every accepted row, and no `Reorg` goes
back past it. `Implements` maps each step to one of `BlockRecord`'s or to a stutter.

**The sweep.** Balances only shrink, so a plan or a transfer in flight, made as all but the gas, covers the
balance ever after (`PlansCover`). A transfer that lands therefore takes everything but the gas it did not
use, and leaves less than the gas of another: that is why "moved" is true of a chain whoever else spends
from it. Without the feeder the plan is exact until some transfer of the chain lands, after which the
balance cannot buy gas, so a second transfer can only expire. `CalmSucceeds` follows a run in which nothing
has gone wrong through both preflights to the node: its plan is still exact at each (`CalmOK`), so neither
refuses and the transfer succeeds. `PaidOnce` needs that a chain that has paid once has less than the gas of
another transfer left (`PaidOK`), with the feeder spending or not.

**The feeder.** The counters equal cardinalities: `inflight` is the number of attests being built or
submitted, and `submitted` and `submitErrors` count the rest, so each action moves one attest from one set
to another. `PollsOK` does the same for the polls, whose failures are what the exit code is computed from.
For the extra hosts the counting takes `NothingSentEarly`: an attest that is still being built has been
sent nowhere. `ReactiveBelow` says that what a header claimed lies at or below the last height of its chain,
which is what keeps a height announced again from being attested again. `AnchorsHeard` ties every anchor to
the present connection.

**The deploy ceremony.** Overlapping runs leave `DeployOK`: what a run holds is of its chain (`HasFile`),
and a chain is reported ours by the status of a command, whatever has become of its file. With one run,
`Calm` says what the run's memory is still worth: the file judged is the one at the path, the file about to
be removed has its copy, the file about to be written is still the run's own, and what lies in `superseded/`
can no longer land (`DeadAside`). The middle two are what `ProofKept` and `FilesKept` need (`DiskGrows`),
with the fact that what a send has in hand is on disk (`Kept`): a command reaches the wire only from a file,
and a file leaves its path only for `superseded/`. Time only grows, so what was judged expired at the
chain's time stays so; that is the step from a stale status to `OneLive`. `NoneCompete` says that no command
in flight faces another of the operator's. `Implements` maps every step to one of `NameRace`'s or to a
stutter, and `DeadAside` is what it rests on: a file is recorded only where the chain's path is empty, so
with everything aside dead the chain has no ticket when the operator enters.

**Provisioning.** What survives a death is proved of the disk, not of the script: the URL is in `.env`, or
in the variable of a live run that is about to write it (`UrlSomewhere`); a unit runs only if it was last
told to (`ToldToRun`). Without crashes and without meddling, the test for a running feeder sees every unit
that runs (`Noticed`), so the restart that follows reaches it; and files are whole at every step but the two
that make them (`Whole`).

**The oracle.** Ancestry is the prefix order of sequences, so the node's blocks form a tree (`NodeOK`) and
whatever was fetched is a chain below `top` (`CheckOK`). While forks are at most two deep, every block at or
below the cut is an ancestor of all later tips (`StableOK`), so rows and headers read at different times are
of one fork. The same distance keeps the rows of a verdict on every later fork: the tip stays two blocks
above the range, and a fork of two replaces none of it (`LastingOK`).

**Relayed files.** `RelayOK` says of the commands in hand that they were judged, of those signed that they
pass both lists of checks, and of the chains that whoever holds the name holds it by a command that
succeeded (`HolderOK`). `SignedOurs` is where the two lists meet: what `signGasSlot` accepts is rebuilt
exactly, so `proofChain` accepts it too.

**Key files.** `SavesOK` follows a blob from the key that was read first to the write: what `Seal` opened is
what is written. `Held` says that off a devnet every key file on disk names an announced key, no process is
making a key for itself, and a file that is being written is torn and has one writer; exclusive creation is
what makes it so. On a devnet the same is true of a process that is alone (`Lone`): between its test for a
file and the creation nothing else can put one there.

Only model-checked: the liveness properties `AttestsEnd`, `StopEnds`, `StreamComesBack` and
`HeadersAreClaimed`, since liveness under fairness is out of the prover's reach. Every other property of a
passing run has its theorem, and those of the violation runs have theirs where the fault is excluded, but
for `ConsistentInspects`, whose fault no constant excludes.

## 5. Not modelled, and what is left

* `preflight.ts`: read-only. Its ownership verdict is `Ownership` of `Relay`, from the same files and
  lookups; the rest is one reading per chain, printed.
* `balances.ts`, `stream-check.ts`: read and print.
* `tools-check.ts`, `devnet-negatives.ts`, the Pact tests, the devnet and CI: tests and configuration.
* The bytes: building, hashing and signing commands, the two header encodings, decimal amounts, the shapes a
  key file may have, the padded decimal of a row key.
* In `deploy.ts` the devnet faucet and the summary; in `lib.ts` the node's URLs, gas and balances; in
  `provision-droplet.sh` swap, packages, the firewall, sshd, Node, logs and containers: each sets something
  up once and no property here depends on it.
* The feeder's log file and time: how long a wait is, and the two seconds a stop leaves to polls.

What could be added: the feeders and the module composed (what a feeder's attests record, and why a block is
missed).

## 6. Running

    tlc -workers 2 -config MCBlockHistory.cfg MCBlockHistory
    tlapm BlockHistoryProofs.tla

Each run of `PROJECT.json` names its module and configuration. A mutant there is a plausible bug in the
code: the run must find the property violated when the named definition is replaced by it.
