# Verification of SecAFS, its conversation rollback and attested TLS

This directory holds TLA+ specifications of SecAFS (`src/solutions/secafs`) and of the
remote attestation library (`src/solutions/cca-rats-tls`), the TLC configurations that
check them on small instances, and TLAPS proofs of the properties that matter most. Paths
below are relative to `src/solutions/secafs` unless they start with `src/`.

SecAFS is a POSIX-like filesystem kept in the tables of a PostgreSQL or openGauss
database. It is mounted through FUSE or NFS, may lie over a directory of the host
(overlay), and a ptrace sandbox can run programs on top of it. An assistant's
conversation has its own volume; the OpenClaw plugin takes a snapshot of the volume per
turn and can roll files and transcript back to a turn. What can go wrong lies between
statements, awaits and processes: transactions that read a counter before it moves, a
replay that must bring rows back exactly, operations that run statement by statement,
handlers that check one state and act on another, replies that a kernel remembers for
ever, and a rollback that changes three stores one after another while the gateway may
die.

The attestation library is a second product: two programs negotiate TLS with certificates
that carry a report of the machine's firmware, and the samples beside it hand a disk key
to a machine that has proved what it booted. There the hazards are two negotiations that
share a report directory, messages that are retried, and evidence that is older than what
it is used for.

## 1. Parts of the system

| Component | State | Correct when | Modules |
|---|---|---|---|
| Snapshot engine (`sdk/rust/src/snapshot`) | undo tables, `fs_snapshots`, `fs_volume_state` | a snapshot taken at rest can be restored exactly, whatever follows | `Snapshot` |
| File contents (`filesystem/secafs.rs`) | `fs_data` chunks, `fs_inode.size` | the chunks are the bytes of a flat file and reads return them | `FileData`, `FileRead` |
| Directory tree (`filesystem/secafs.rs`) | `fs_inode`, `fs_dentry`, `fs_symlink`, dentry cache, handles | entries resolve, an inode goes with its last name, the tree is connected | `Namespace`, `NamespaceSteps` |
| Conversation rollback, mount keeper, auto-mount (plugin) | session entry with the marker, transcript, mount state | files and transcript agree at rest; a started rollback is finished; a lost mount comes back | `Rollback` |
| Ptrace sandbox (`sandbox/src`) | one descriptor table per process, mount table | virtual descriptors behave as POSIX asks and reach their files | `FdTable`, `Sandbox`, `SandboxCalls`, `PosixFds` |
| NFS server and adapter (`cli/src/nfsserve`, `cli/src/nfs.rs`) | connections, tracker, calls under way | calls run once, handles keep their file, checks add up to POSIX's | `NfsPermissions`, `AgentNfs`, `NfsServer` over `FsOps` |
| Overlay (`filesystem/overlayfs.rs`, `hostfs_linux.rs`) | delta, whiteouts, origins, number maps | a request changes the merged tree as it would change a plain one | `HostFs`, `Overlay`, `OverlayMount` over `FsOps` |
| FUSE adapter and dispatcher (`cli/src/fuse.rs`, `cli/src/fuser`) | session, open handles; the kernel's caches | what the kernel remembers for ever stays right | `Fuse` over `FsOps` |
| Attested TLS (`src/solutions/cca-rats-tls`) | handles, handshakes, report directories; the sample programs' sessions | a verified peer is a sound machine that speaks for this connection; the key goes to what was measured | `RatlsEvidence`, `Ratls`, `RatlsPolicy`, `RatlsSample` |
| Mount daemon, sessions, RPC client (`cli/src/rpc`, plugin) | mount table, session entries | | in part: the calls `Rollback` makes |
| Connection pool, volumes, key-value store, tool-call log, command line, other SDKs | | | not modelled, or in part |

`PROJECT.json` lists every component with its status, including the separate products
under `src/solutions` that are not modelled, and under `hazards` the places that a test
would hardly reach, with the properties that cover them or the reason none does.

## 2. Modules

### Snapshot (`Snapshot`, `MCSnapshot`)

One volume. `Row` stands for the rows of the five journalled tables, `TableIx` for
their place in the order of the replay, `Root` for the inode row of the volume's
root. Every session has an open transaction `txn[s]`: its writes (`new`) and the
undo rows its triggers inserted (`log`), invisible to others until `CommitTxn`; a
row it wrote is locked for the others. `vstate` is the row of `fs_volume_state`.

| Action | Code |
|---|---|
| `Mount`, `Unmount`, `UnmountBusy`, `SessionEnd` | mount table of `cli/src/rpc/backend.rs`; a busy mount outlives its entry |
| `Write` with `CaptureUndo` | one statement and its trigger (`triggers.rs`); the tag is the counter at that moment |
| `CommitTxn`, `RollbackTxn` | the end of the session's transaction |
| `Enable`, `DisableStep` | `state.rs`; disable is seven autocommitted statements |
| `CommitRead`, `CommitInsert`, `CommitFail` | `snapshots.rs`: reads, then writes that may meet a key |
| `RestoreBegin`, `ReplayOne`, `NextTable`, `RestoreFinish`, `RestoreFail` | `restore.rs`: table by table, newest undo row first; deleting the root row cascades |
| `DaemonCrash` | everything not committed is gone |

`exact` and `image` are history: the snapshots that were committed at rest (no open
transaction, no restore, counter as read, no younger undo row) and the rows then.
`restore.quiet` says that no session and no disable ran beside a restore.

### FileData, FileRead

One file: `chunks` (rows of `fs_data` by index), `size`, and the history variable
`bytes`, the flat file. Writes and truncations by handle and by path are four actions,
each a transaction in the code; a mount serves one request at a time. `FileRead` has
the loops of `SecAFSFile::pread`, `SecAFS::pread` and `read_file` as folds over the
selected rows.

### Namespace, NamespaceSteps

`Namespace` has an action per operation on the tables, the dentry cache and the open
handles of one mount. Path operations resolve through the cache first, and through
symlinks where the code does. `Reset` is another opening of the database, which sets the
inode sequence back; `OtherMount` a second mount; `Restart` a new instance. Three history
variables name what the code does not do as a plain tree would:

- `drift`: the links of a directory that were miscounted, by a rename over an empty
  directory (the parent keeps the link of the one replaced) and by path operations that
  take a symlink to a directory for the directory;
- `ghosts`: names a path rename of a file onto itself leaves in the cache. The rename
  deletes the row and the inode of its target, which is its source, and then caches the
  name (`secafs.rs:2385-2411`, `2480`); `strayed`: a path operation acted on such a name;
- `late`: numbers that a handle wrote chunks for after their file was deleted.

`NamespaceSteps` extends it: each client has a `task` with the statement it is at,
other clients run between any two statements, and `Crash` leaves what was executed.
`create_file` and `rename` are transactions after their first lookups. `skew` counts what
a client that died had still to count or uncount; `raced` says that a removal or a rename
overlapped another client's operation. Nothing in the code makes that safe, and the
properties are about what happens before.

### Rollback

One conversation: its session entry (`store`), its volume behind the daemon (`vol`:
mount, files, undo log, snapshots, counter), its transcript (`chat`). Each process
of the gateway (a request of the client, an eager snapshot, the scanner, reconcile)
is at a step in `task` with the copy of the rollback state it loaded; every await
ends a step. `Call` gives a call of the daemon its three outcomes: carried out and
answered, not carried out, carried out with the answer lost. The phases are shared
by `handleRestore` and `reconcile`, with their differences in what they tolerate.

`Restored` follows the engine: it replays what the undo log has after the target,
and later snapshots go only if the row of the top directory is among the replayed
ones (`Turn` chooses whether a turn touches it). A snapshot left behind blocks the
next commit (`Committable`).

Assumed of the person at the client: one request at a time and none before a
starting gateway has reconciled; rollbacks to messages they see; the toggle is not
used while an unfinished rollback is marked. The two key forms of a session are one
entry. Files are the id of the last turn that changed them: a turn's writes and its
message are one step (`Turn`), and a run that fails has written nothing. A run that fails
after it has written and a file saved with `secafs.fs.write` change files that belong to
no message of the transcript, and are not modelled.

`Trajectory` says whether the conversation has a trajectory file beside its transcript.
The safety properties are proved for both. `Resumes` holds without one, as run `rollback`
has it, and fails with one, which is run `rollback_trajectory`.

### Sandbox (`FdTable`, `Sandbox`, `SandboxCalls`, `PosixFds`, `MCSandbox`)

`FdTable` has the methods of the descriptor table as operators on its value; the heap
`free_fds` is a bag. `Sandbox` has the handlers that change a table, cut at every system
call they inject into the guest; handlers of two tasks interleave there. The kernel's own
tables are external (least free number). A number that is in no table goes to the kernel
as it is: `RawClose`, `RawDup`, `RawDup2` and `RawDupFrom` are those branches of close,
dup, dup2/dup3 and fcntl, and they meet whatever kernel descriptor has that number.
`disturbed` records that one of these hit an open kernel descriptor, that an exec closed
one, that a clone3 with CLONE_FILES and without CLONE_THREAD made two tables over one
kernel table, or that a step fell into the window of another handler's dup or fork. The
run follows such a behaviour further, but for the last call, because the numbers
themselves stay as POSIX asks.

`SandboxCalls` has what the other handlers turn descriptors, directories and paths into,
as operators compared in every state. `handle_pselect6` takes the table before and after
the wait, two sets and any bound. `PosixFds` is the abstract specification: tables are
maps from open numbers to what they stand for, a new number is the least that is free
from `Lowest` on. With `Lowest = 0` that is POSIX, and the code does not meet it: a
standard descriptor that was closed is not handed out again (run `sandbox_lowest`). With
`Lowest = FirstUser` `Sandbox` refines it (`ActsAsPosix`), `OpenFds` and `Requests` being
the mapping.

### NFS (`FsOps`, `NfsPermissions`, `AgentNfs`, `NfsServer`, `MCNfs`)

`FsOps` has the inode operations of SecAFS as functions of a filesystem value, shared
with the overlay; `AgentNfs` the adapter's operations and the file handles;
`NfsPermissions` the rules of `permissions.rs`. In `NfsServer` every call is a task; each
await of its handler is a step, and steps of tasks interleave. Connections send records
in fragments, again, or die; the tracker forgets completed calls after its retention
period (`Age`); `Restart` starts a server of a new generation on a database opened again.
`seen` has the filesystems there were since the record of a call came, so that `Lawful`
can say, in every interleaving, that a change was allowed at some moment of its call.

### Overlay (`HostFs`, `Overlay`, `OverlayMount`, `MCOverlay`)

`Overlay` has every operation of `OverlayFS` on one record: inode map, reverse map, path
map, whiteouts, origins, the cache of the base, and the database. `trail` collects the
database after each operation of the SecAFS below it, so that a crash can leave any of
them; the statements of one such operation are `NamespaceSteps`.
`OverlayMount` is the kernel that uses it: the numbers it was given (`dcache`), lookup
counts, one request at a time, restarts. The build does not serve READDIRPLUS, so readdir
leaves the kernel nothing. `tree` is what the merged tree shows at every path.

`met` collects what keeps a request from being carried out as on a plain tree: `stale`,
the kernel used a number that was out of date (numbers of directories go out of date when
they are copied up or renamed), and six limits of the code with current numbers. A name is
looked up in a directory where the base has another file (`over a file`). A directory that
was copied up is listed or emptied under the number of the base's (`eclipsed`). A file is
renamed out of a directory that only the base has (`out of the base`). A directory of the
base is renamed (`base directory`), something is renamed onto a directory (`onto a
directory`), or old whiteouts lie where a directory is moved to (`whiteouts below`).
`InDir`, `Empties` and `Renames` say which request meets which. Behaviours are followed
until the first of them.

### FUSE (`Fuse`, `MCFuse`)

The adapter answers every request with names and attributes that never expire and never
takes one back, so what a process sees is what the kernel derives from old replies.
`Fuse` has a step per handler over the value of `FsOps`, behind the dispatcher's checks
(`dispatch_req`: the access control of the session, the first request, requests it does
not know), the options of a mount and the two ways of mounting. The kernel is external
and modelled as Linux does it: `dcache`, `icache`, `files` and, with write-back, `dirty`.
It keeps an inode while a name or an open file of it is left, forgets the attributes of
a directory it changed an entry of, counts links down itself, and looks up both names
before a rename. The build speaks ABI 7.18, in which the dispatcher has no READDIRPLUS
and no RENAME2. `torn` marks inodes with a `setattr` that stopped half way or a buffered
write that failed: what the kernel holds for them is stale, and nothing is claimed.

### Attested TLS (`RatlsEvidence`, `Ratls`, `RatlsPolicy`, `RatlsSample`, `MCRatls`)

Cryptography is perfect: a digest is its input, a signature the name of its key, a
certificate a record. `RatlsEvidence` has the configurations and their validation (in
Rust and from C), the claims, the evidence and its checks. `Ratls` has the handshakes of
both ends cut at the TLS messages, at the write of `inblob` and at the read of `outblob`;
endpoints on one machine share the report directory. A link may be lost at any point, a
server may ask for a second ClientHello, an application may negotiate again on a handle
it has used, or release it. `RatlsPolicy` has the platform policy, the boot log with its
replay into registers, the firmware baseline and the IMA log; `RatlsSample` the programs
`cca-server` and `cca-client` with their options, frames and the key they hand over.
`Measure` is the server's machine booting further while a session runs. OpenSSL, the
kernel's report directory and the network are external.

## 3. Runs

| Run | Instance | Checks |
|---|---|---|
| `snapshot` | a dentry row and the root row, one value (present or absent), two sessions, two labels, two snapshots, two undo rows, a disable whose statements interleave with the sessions | `Recoverable`: for every exact snapshot and row, the oldest undo row tagged after the snapshot holds the contents of that time, or the row has not changed. `CounterAhead`: the counter is above every snapshot that must be restorable. `RestoreExact`: a quiet restore of an exact snapshot leaves exactly its image |
| `file_data` | chunks of three bytes, files up to seven, bytes 0 and 1 | `Mirror`: byte by byte, the chunks are the flat file. `NoTail`: no chunk reaches beyond `size`. `ReadsBack`: a handle reads any range as the flat file has it; reads by path do for files without holes |
| `namespace` | two names, three inodes, the database opened again once, one open handle, one name that only the cache has | `LinksCounted`: a file has as many links as names, and at least one. `DirsLinked`: the links of a directory are exactly its own, its name's, its subdirectories' and the `drift`. `Tree`. `CacheCoherent`: the cache agrees with the table, but for `ghosts`. `RowsOwned`: no symlink row or chunk outlives its inode, but for `late` chunks |
| `steps` | two clients, every operation, two deaths, three inodes | `CrashSafe`: rows leak, but no entry loses its directory, no directory gets a second name and none with entries is removed; an entry loses its inode only where a death left the count short. `QuietLinks`: counts are exact but for `skew`. `OneWinner`: of several clients that insert one name one goes on |
| `rollback` | three messages, two deaths of the gateway, one failure (a call, the daemon or the mount), idle unmount on | `AtRest`: with no rollback marked, running or resumed, the files are those of the last message, unless an agent worked on a volume between restoring and truncating (`torn`). `SnapshotsPaired`: every snapshot below the counter brings back the files right after its message. `TargetsInChat`: that message is in the transcript, in the same order. Liveness: `Resumes`, `KeeperRemounts` |
| `rollback_trajectory` | the same with a trajectory file | `Resumes` is violated: `reconcile` cannot cut the trajectory, at this start and at every later one |
| `sandbox` | three tasks, three descriptors, three kernel descriptors, four calls, a virtual mount below a bind mount | `FreeExact`, `KernelBacked`, `ReachesOwnFile`, `SelectExact`, `PathsTranslated`, and the refinement `ActsAsPosix` |
| `sandbox_lowest` | one task, three calls | `LowestAvailable` is violated: after `close(0)` the next open gives a larger number |
| `nfs` | root and two users, two connections, single calls of every procedure, pairs of the calls that change the tree, retransmissions, a restart | `AtMostOnce`, `HandlesNeverAlias`, `SetIdCleared`, `ListingExact`, `Lawful` |
| `overlay` | two names, paths of two components, three requests after three lookups, crashes after any operation of the delta | `ListsTree`: readdir lists the names of the tree, and the mountpoint, which only lookup hides. `NumbersAgree`. `StableNumbers`: a file keeps its number through copy-ups until a restart. `ActsOnTree`, `CrashKeepsOthers` |
| `fuse` | two names, three users, one mount of the volume or of the root with one of three sets of options (one is refused), two requests that change the database, one open file, with and without write-back | `KernelViewExact`: names, attributes and handles the kernel holds are those of the rows, and only users whom the options admit made anything |
| `ratls` | two connections: a pair of C applications, two pairs side by side, or the sample programs; seven pairs of machines, sound and unsound | `PeerAttested`: a verified peer is a sound machine, and its evidence names this connection's key, random and key share. `FailsForCause`: a negotiation fails only with a cause. `KeyOnlyToMeasured`: the key reaches a machine whose log explains its attested registers |

Why the bounds are enough for the cases that matter. Two snapshots let one be restored
below another, and an undo row written twice needs two undo rows. Files of seven bytes in
chunks of three have two full chunks and a partial one, so every kind of gap and remainder
occurs. Three inodes are a directory inside the root with a file to move in and out, two
directories of which one replaces the other, or two names of one file beside a directory;
in `steps` they are what two clients can add at the same time, or what is left after a
death between two statements and used by the operation after it. Three messages allow a rollback, a turn after it, and its snapshot; two
deaths allow one of them to hit the resumption. For all of these the general case of the
safety properties is proved (section 5). Three tasks and three descriptors allow a gap, a
reused number, a handler that meets another's and a fork beside both. Two calls are what
a handler can meet between its awaits. In `fuse` the database starts with a volume and a
file in it, so two changes allow a link and an unlink of it, a rename over it, or an
entry made below a directory that was made before; each is followed by every order of
lookups, forgets and reads. Two connections are what can meet in a report directory, or a
negotiation and the one after it on the same handle. Three requests on a warm overlay allow a copy-up, a removal and a
re-creation, or a rename of what was made.

Some runs leave states unexplored by a constraint: `snapshot` does not follow a disable
beside a commit or a restore (`PurgesApart`; the proofs cover these too), `nfs` combines
ageing, fragments, a second connection and a restart with few calls only (`Bounded`), `namespace` follows a behaviour up to
the first path operation on a name that only the cache has, with one such name, one open
handle and a drift of one, `steps` up to the first race, `overlay` up to the first request
outside `Fitting`. `sandbox` cuts the last call of a disturbed behaviour short. Where a
property says "until", the states beyond are those it makes no claim about.

Symmetry is used for sessions, requests and labels of `Snapshot`, for names of
`Namespace`, names and clients of `NamespaceSteps`, for the tasks of `Sandbox` but the first (no definition names one of the others), and for two pairs of
`Ratls` with the same configurations; none of these runs checks liveness, and
`ActsAsPosix` is a safety property. Deadlock checking is off where the bounds stop every
action; it is on for `file_data`, `rollback` and `ratls`.

Each property has a mutant in `PROJECT.json`: a definition changed the way a plausible bug
would change the code (replay oldest first, counter not set back, marker not asked for),
under which TLC finds the property violated. The two runs that expect a violation state
what a comment of the code says and the code does not do; `PROJECT.json` quotes the lines
under `findings`.

`Lawful` has one exception, `IdleChown`: a SETATTR that names the owner a file already has
is let through whoever sends it, and clears the set-id bits
(`nfs_handlers.rs:1720-1735`, `1821-1827`), although the comment there has only an owner
do so. Everything else that changes was allowed by POSIX at a moment of the call.

## 4. Fairness

- `Rollback`: `WF_vars(BootStep)` and `WF_vars(ScanStep)`. The event loop of a live
  gateway continues what it awaits, every call is answered or times out after ten seconds,
  `reconcile` runs at start-up, and `setInterval` starts scans for as long as the gateway
  lives. Nothing is assumed of the client, of crashes or of failures; those are bounded by
  `MaxCrash` and `MaxFail`, so that `Resumes` speaks of a start after the last failure
  (`fails = MaxFail`).

No other specification assumes fairness; their properties are safety properties.

## 5. Proofs

TLAPS proves these for every value of the constants, under the assumptions named in the
modules (`RowAssumption`, `ValueAssumption`, `SessionAssumption`, `BoundAssumption`;
`ChunkAssumption`, `ByteAssumption`, `SizeAssumption`; `FdAssumption`, `TaskAssumption`;
`BoundsAssumption`, `OptionsAssumption`; `FsAssumption`: the databases a server is started
on are well formed).

| Theorem | Statement | Inductive invariant |
|---|---|---|
| `SnapshotProofs!TypeCorrect` | `Spec => []TypeOK` | `TypeOK` |
| `SnapshotProofs!UndoLogSuffices` | `Spec => []Recoverable` | `IInv` |
| `SnapshotProofs!CounterStaysAhead` | `Spec => []CounterAhead` | `IInv` |
| `SnapshotProofs!RestoreBringsBack` | `Spec => RestoreExact` | `IInv` |
| `FileDataProofs!ChunksMirrorFile` | `Spec => []Mirror` | `IInv` |
| `FileDataProofs!NothingBeyondEnd` | `Spec => []NoTail` | `IInv` |
| `NamespaceProofs!LinksStayCounted` | `Spec => []LinksCounted` | `InOrder` |
| `NamespaceProofs!DirsStayLinked` | `Spec => []DirsLinked` | `InOrder` |
| `NamespaceProofs!StaysATree` | `Spec => []Tree` | `InOrder` |
| `NamespaceProofs!CacheStaysCoherent` | `Spec => []CacheCoherent` | `CacheCoherent` |
| `NamespaceProofs!RowsStayOwned` | `Spec => []RowsOwned` | `Rows` |
| `StepsProofs!OneClientWins` | `StepSpec => []OneWinner` | `Sound`, until `raced` |
| `StepsProofs!QuietLinksExact` | `StepSpec => []QuietLinks` | `Sound`, until `raced` |
| `StepsProofs!CrashesAreSafe` | `StepSpec => []CrashSafe` | `Sound`, until `raced` |
| `RollbackProofs!FilesMatchTranscript` | `Spec => []AtRest` | `RInv` |
| `RollbackProofs!SnapshotsStayPaired` | `Spec => []SnapshotsPaired` | `RInv` |
| `RollbackProofs!TargetsStayInChat` | `Spec => []TargetsInChat` | `RInv` |
| `SandboxProofs!HeapsExact` | `Spec => []FreeExact` | `SInv` |
| `SandboxProofs!ImplementsPosix` | `Spec => ActsAsPosix` | `SInv` |
| `SandboxProofs!DescriptorsStayBacked` | `Spec => []KernelBacked` | `SInv`, `KInv` |
| `SandboxProofs!CallsReachOwnFile` | `Spec => []ReachesOwnFile` | `SInv`, `KInv` |
| `SandboxProofs!SelectAnswersExactly` | `Spec => []SelectExact` | `SInv`, `KInv` |
| `NfsProofs!CallsRunOnce` | `Spec => []AtMostOnce` | `Inv` |
| `NfsProofs!HandlesAreExact` | `Spec => []HandlesNeverAlias` | `Inv` |
| `NfsProofs!WritesClearSetId` | `Spec => []SetIdCleared` | `Inv` |

**Snapshot.** `Recoverable` is not inductive: it speaks of committed undo rows, and
a step of a session moves rows and undo rows together only at its COMMIT. `IInv` adds

- `LocksExclusive`, `LogsLocked`: one writer per row, which logs only what it locked;
- `IdsFresh`: undo ids of committed and open transactions come from one sequence;
- `TagsOrdered`: beyond an exact snapshot, the tags of a row grow with its ids;
- `PendingOldest`: the undo rows of an open transaction for a locked row are tagged
  after every exact snapshot, are younger than all committed ones, and the oldest of
  them holds the committed contents, so that a COMMIT keeps `Recoverable`;
- `RestoreInv`: a quiet restore runs alone, and what it has written over the rows
  together with what it has still to replay amounts to a replay of the whole log
  (`Replaying`). At the end nothing is left to replay, which is `RestoreExact`.

`SnapshotProofs` has the steps of sessions and commits first, then those of a restore.

**FileData.** `IInv` is `TypeOK`, `NoTail` and `Mirror`: a write overlays the chunk
it finds, and an extension relies on nothing being stored beyond the end. The lemmas
are about the arithmetic of chunks (the chunk of an offset is unique and grows with
it) and about single rows; each operation is then shown to change exactly the bytes
that the flat file changes.

**Namespace.** `Tables` is a type invariant with `EntriesValid`, `DirsNamedOnce`,
`FileLinks`, `DirLinks` and `Reached`, and `InOrder` says that they hold until `strayed`.
They need one another: a rename that replaces a file decides by its count whether the
inode goes, a directory may be removed because it has no entries, and a moved subtree
stays reachable because the kernel refuses a move below itself. `Reached` says of the tree
what induction over paths would: whatever has a name is in every set that holds the root
and is closed under entries. A set that refutes it after a step is turned into one that
refutes it before. Counting uses the cardinality facts of `FiniteSetTheorems`, one entry
at a time (`RenameTables` for the three inodes a rename changes). `CacheCoherent` is
inductive by itself, and a rename of a file onto itself is one of its cases. `Rows` adds
to `RowsOwned` that numbers in use were given out and that chunks of what is no file were
written late.

**NamespaceSteps.** The three theorems have no hypothesis on what clients do or when they
die; what they claim ends with the first race. `Sound` says until then what each client's
statement knows of the rows (`Knows`), that an operation that removes or moves a name is
alone (`Alone`), that two links still to be counted are of different names (`Apart`), and
that the count of a file is the number of its names less those still to be counted, with
those still to be uncounted and the `skew` that deaths left (`Counted`). From the same
clause follows which entries can lose their inode: a row goes only when its balance is
not positive, so a name that is left has a negative skew.

**Rollback.** `AtRest` says nothing while a rollback runs, so it is far from inductive.
`RInv` says for every step a process can be at what marker, undo log and transcript have
in common: the target of a marked rollback stays a snapshot below the counter with its
message in the transcript (`MarkerOK`); once the files are restored they and the counter
are the target's until the transcript is cut; a process that goes through the phases
holds the marker the store has (`ProcOK`); only one of the client, its eager snapshot and
reconcile is at work (`OneActive`); snapshots that a restore left behind belong to
messages that are cut (`LeftBehind`). A restore replays the oldest undo row after its
target (`Oldest`); the order of the undo log (`LogOrdered`) makes a second restore, after
an answer that was lost, find the same files. The scanner needs no clause of its own: it
mounts and unmounts, and changes files only through what `torn` records.

**Sandbox.** `SInv` types tables and requests and says that every heap is exact: it holds
each closed number below `next_vfd` once. That makes the number `allocate` pops the least
that is free, which is what `PosixFds` asks. `SandboxProofs` proves it of each method of
the table, and then maps each step of each handler to a step of `PosixFds` or to a
stutter. Handlers may interleave in any way; no assumption on `disturbed` is used, and the
raw calls stutter.

`KernelBacked` needs to know what lies behind the numbers while a handler is between two
injected calls. `KInv` says it, as long as nothing was disturbed, of the group of tasks
that use one table (`Kin`): entries and what handlers hold (a descriptor opened and not
entered yet, or taken out and not closed yet) together are the kernel descriptors, each
once (`GroupOK`); a handler in a window is alone in it (`Alone`). A fork makes a group,
and its child is without a table for a step: `ChildrenOK` says that it is in its parent's
group or has a copy of a kernel table in which nobody held anything, `IdsOK` that a number
no task has used yet is nobody's table, `SidesOK` that tasks share a descriptor table
exactly when they share a kernel table. The proof showed that a fork while another thread
is in any handler (`Busy`) leaves the child a kernel descriptor without a number, which is
why `disturbed` records it. `ReachesOwnFile` and `SelectExact` follow state by state: the
number a call passes to the kernel is the entry's, and no two entries share one, so of the
numbers that stood for the same kernel descriptor before and after the wait none answers
for another.

**NFS.** `FsProofs` says of every operation of `FsOps`, and of every operation of the
adapter, what it may change: `Frame(f, g, X, E)` says that from `f` to `g` only the fields
in `X` and the entries in `E` changed, that inode numbers are handed out once and that
the directory tree stays well formed. `Inv` adds to the three properties that a call that
ran and is not old is still remembered by the tracker, or its connection is closed with no
record waiting (`Tracked`); that a handle of this generation names a number that was given
and, if the inode is there, the one it was made for (`HandlesOK`); and that a file a user
wrote has no set-id bits or a task stands before the call that takes them off
(`WrittenOK`). Each step of each handler is shown to be `Sound`: it moves one task,
changes the filesystem by a `Frame`, gives out handles only of what is there, and leaves
`WrittenOK`. Handles survive a restart although numbers then return, because the
generation in a handle is older.

**Only model-checked.** `Resumes` and `KeeperRemounts`: liveness under fairness is out of
the prover's reach. `ReadsBack`: a fold over rows, which needs
induction over data. So do `PathsTranslated` (the order of mounts is built by a fold) and
`ListingExact` (pages of a listing are appended one by one). `Lawful` compares every
handler with an independent definition of what POSIX permits, entry by entry; the case
split is what TLC does well, and no invariant would make it shorter. The five properties of
the overlay follow numbers along paths of any
length. `KernelViewExact` rests on the kernel's walk up a path (`Above`) and on the
functional updates `@@` and `:>` that its caches are written with, which the provers do not
expand. The attestation properties speak of logs and claims that are replayed and searched
by recursive functions.

## 6. Not modelled

Times of files; concurrent writers of one file (each operation of `FileData` is one
step); entries made by path below a file (`secafs.rs:1100`); a restore under a live dentry
cache; files changed by a run that then fails or by `secafs.fs.write`; several conversations, sessions opened, ended and destroyed;
overlapping scans and client requests; the components that `PROJECT.json` marks
`not_modelled`, with the reason given there. `Snapshot` takes a statement's transaction to
belong to one session; that the pool shares sessions between tasks is listed as a hazard.
The writing operations of `HostFS`, which nothing calls, and the wire formats of NFS are
left out.
Of FUSE, `statfs`, the overlay below a mount, and waiting for a mount to appear; of
attested TLS, the encodings (CBOR, DER, TLS records) beyond the checks the decoders make,
and the errors of OpenSSL about certificates that are malformed or too deeply chained. Of
NFS, counts below the 128 bytes that a listing subtracts from them (`nfs_handlers.rs:964`,
`1112`), and another opener that sets the inode sequence back under a live server. The
calls of the sandbox that pass a number or a path on as the guest gave it are named at
`ReachesOwnFile` and `OneHostPath`, which leave them out.
