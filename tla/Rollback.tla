------------------------------ MODULE Rollback ------------------------------
(***************************************************************************)
(* How the OpenClaw plugin rolls one conversation back: its transcript and *)
(* the files of its volume, which no transaction spans.                    *)
(*                                                                         *)
(* handleRestore (rollback-orchestration.ts) works in phases and keeps a   *)
(* marker of the finished ones in the session store; reconcile             *)
(* (reconcile.ts) resumes from the marker when the gateway starts.  Beside *)
(* them run the hooks of a prompt (auto-mount-hook.ts, rollback-hook.ts),  *)
(* the mount keeper and idle unmount (idle-scanner.ts) and the switch of   *)
(* the feature (gateway-methods.ts).  Every await is the end of a step: a  *)
(* process works on the copy of the store it loaded, the gateway may die   *)
(* between any two steps, and a call of the daemon may fail, before or     *)
(* after the daemon has carried it out.                                    *)
(*                                                                         *)
(* The methods of the daemon are one step each here; Snapshot.tla has      *)
(* their statements.                                                       *)
(* Assumed of the person at the client: they wait for the answer to a      *)
(* request, and for a starting gateway, before the next one; they roll     *)
(* back to messages they see; and they do not switch the feature while an  *)
(* unfinished rollback is marked.  Assumed of what changes files: only an  *)
(* agent that then answers.  A run that fails after it has written, and a  *)
(* file saved from the editor (secafs.fs.write), change files that belong  *)
(* to no message; the next snapshot has them, and a rollback undoes them.  *)
(***************************************************************************)
EXTENDS Naturals

CONSTANTS
  MaxMsg,       \* messages the assistant writes
  MaxCrash,     \* times the gateway dies
  MaxFail,      \* failed calls, deaths of the daemon and mounts the kernel loses
  Trajectory,   \* the conversation has a trajectory file; Resumes needs there to be none
  IdleUnmount   \* idleUnmountSeconds > 0

ASSUME BoundsAssumption == MaxMsg \in Nat /\ MaxCrash \in Nat /\ MaxFail \in Nat
ASSUME OptionsAssumption == Trajectory \in BOOLEAN /\ IdleUnmount \in BOOLEAN

VARIABLES
  store,    \* the session entry: mountState, and rb for secafsRollback
  vol,      \* the volume: mount, files, undo log, snapshots, next snapshot, enabled
  chat,     \* the assistant's messages in the transcript, with the files after each (history)
  written,  \* how many messages were ever written; the id of the last
  torn,     \* history: a turn changed files between phases 3 and 4 of a rollback
  task,     \* every process of the gateway: the step it is at, and its copy of rb
  crashes, fails

vars == <<store, vol, chat, written, torn, task, crashes, fails>>

\* A prompt, rollback or switch of the client, its eager snapshot (one of these
\* at a time), the scanner, and reconcile.
Proc == {"client", "eager", "scan", "boot"}

Unmarked == [on |-> FALSE, snap |-> 0, msg |-> 0, fs |-> FALSE, jsonl |-> FALSE]

\* secafsRollback after setEnabled(false), and the copy of an idle process.
Off == [enabled |-> FALSE, last |-> 0, marker |-> Unmarked]

Idle == [at |-> "idle", rb |-> Off]

Init ==
  /\ store = [mounted |-> TRUE, rb |-> [Off EXCEPT !.enabled = TRUE]]
  /\ vol = [mount |-> "live", files |-> 0, undo |-> {}, snaps |-> {}, next |-> 1, enabled |-> TRUE]
  /\ chat = [m \in {} |-> 0] /\ written = 0 /\ torn = FALSE
  /\ task = [p \in Proc |-> Idle]
  /\ crashes = 0 /\ fails = 0

-----------------------------------------------------------------------------
(* The daemon.                                                             *)

\* mount answers with the entry it has, a dead one too.
Mounted(v) == [v EXCEPT !.mount = IF @ = "none" THEN "live" ELSE @]

Unmounted(v) == [v EXCEPT !.mount = "none"]

SnapOf(v, t) == {s \in v.snaps : s.id = t}

NewSnap(v, m) ==
  [v EXCEPT !.snaps = @ \cup {[id |-> v.next, label |-> m]}, !.next = @ + 1]

\* Mutant: a second commit of a label makes a second snapshot.
CommittedAgain(v, m) == NewSnap(v, m)

\* snapshot.commit is idempotent in its label.
Committed(v, m) == IF \E s \in v.snaps : s.label = m THEN v ELSE NewSnap(v, m)

\* snapshot.commit fails on a volume that is not enabled, and on the primary key
\* of a snapshot that an earlier restore has left behind.
Committable(v, m) ==
  v.enabled /\ \A s \in v.snaps : s.id = v.next => \E t \in v.snaps : t.label = m

UndoAfter(v, t) == {u \in v.undo : u.tag > t}

Oldest(U) == CHOOSE u \in U : \A w \in U : u.msg <= w.msg

\* The files that a replay of the undo log after snapshot t leaves: newest entry first,
\* so the oldest has the last word.
Reverted(v, t) == IF UndoAfter(v, t) = {} THEN v.files ELSE Oldest(UndoAfter(v, t)).before

\* snapshot.restore does not ask whether its target exists.  Later snapshots go with
\* the row of the volume's top directory, if that is among the replayed rows.
Restored(v, t) ==
  [v EXCEPT !.files = Reverted(v, t),
            !.undo = @ \ UndoAfter(v, t),
            !.snaps = IF \E u \in UndoAfter(v, t) : u.top THEN {s \in @ : s.id <= t} ELSE @,
            !.next = t + 1]

Disabled(v) == [v EXCEPT !.undo = {}, !.snaps = {}, !.next = 1, !.enabled = FALSE]

\* A call with this effect on the daemon, and what the caller does when it is
\* answered and when it fails: unreachable daemon, or no answer within 10 s.
Call(effect, ok, err) ==
  \/ vol' = effect /\ ok /\ UNCHANGED fails
  \/ vol' \in {vol, effect} /\ err /\ fails < MaxFail /\ fails' = fails + 1

\* The daemon dies and is started again by its service manager.
DaemonCrash ==
  /\ fails < MaxFail /\ fails' = fails + 1
  /\ vol' = Unmounted(vol)
  /\ UNCHANGED <<store, chat, written, torn, task, crashes>>

\* The kernel loses the mount; the daemon still lists it.
MountDies ==
  /\ vol.mount = "live" /\ fails < MaxFail /\ fails' = fails + 1
  /\ vol' = [vol EXCEPT !.mount = "dead"]
  /\ UNCHANGED <<store, chat, written, torn, task, crashes>>

-----------------------------------------------------------------------------
At(p, s) == task[p].at = s

\* Process p goes on to step s with this copy of rb, as long as it needs one.
Take(p, s, rb) ==
  task' = [task EXCEPT ![p] = [at |-> s, rb |-> IF s \in {"idle", "turn"} THEN Off ELSE rb]]

GoTo(p, s) == Take(p, s, task[p].rb)

\* A patch of secafsRollback.
Patch(rb) == store' = [store EXCEPT !.rb = rb]

\* The client may send a request.
Free == At("client", "idle") /\ At("eager", "idle") /\ At("boot", "idle")

InChat(m) == m \in DOMAIN chat

LastMsg ==
  IF DOMAIN chat = {} THEN 0 ELSE CHOOSE m \in DOMAIN chat : \A x \in DOMAIN chat : x <= m

\* truncateJsonlAfterMessage on the transcript, for a message that is in it.
Cut(m) == [x \in {y \in DOMAIN chat : y <= m} |-> chat[x]]

-----------------------------------------------------------------------------
(* A prompt: the volume is mounted if the store says it is not, the turn   *)
(* before gets its snapshot, then the agent works.                         *)

\* before_prompt_build.
Prompt ==
  /\ Free
  /\ GoTo("client", IF store.mounted THEN "hook" ELSE "automount")
  /\ UNCHANGED <<store, vol, chat, written, torn, crashes, fails>>

AutoMount ==
  /\ At("client", "automount")
  /\ Call(Mounted(vol), GoTo("client", "automounted"), GoTo("client", "hook"))
  /\ UNCHANGED <<store, chat, written, torn, crashes>>

AutoMounted ==
  /\ At("client", "automounted")
  /\ store' = [store EXCEPT !.mounted = TRUE]
  /\ GoTo("client", "hook")
  /\ UNCHANGED <<vol, chat, written, torn, crashes, fails>>

\* secafs.rollback.snapshot: the same snapshot, asked for after a reply.
SnapshotNow ==
  /\ Free
  /\ GoTo("eager", "hook")
  /\ UNCHANGED <<store, vol, chat, written, torn, crashes, fails>>

\* After the hook the agent works; an eager snapshot is all that was asked for.
Hooked(p) == IF p = "client" THEN "turn" ELSE "idle"

\* Mutant: turns are snapshotted while a rollback is marked.
HookLoadMarked(p) ==
  /\ At(p, "hook")
  /\ Take(p, IF store.rb.enabled /\ LastMsg \notin {0, store.rb.last} THEN "commit" ELSE Hooked(p),
          store.rb)
  /\ UNCHANGED <<store, vol, chat, written, torn, crashes, fails>>

\* The last assistant message needs a snapshot unless the feature is off, a
\* rollback is marked, or it is the one snapshotted last.
HookLoad(p) ==
  /\ At(p, "hook")
  /\ Take(p, IF /\ store.rb.enabled /\ ~store.rb.marker.on
                /\ LastMsg \notin {0, store.rb.last} THEN "commit" ELSE Hooked(p), store.rb)
  /\ UNCHANGED <<store, vol, chat, written, torn, crashes, fails>>

HookCommit(p) ==
  /\ At(p, "commit")
  /\ IF Committable(vol, LastMsg)
     THEN Call(Committed(vol, LastMsg), GoTo(p, "committed"), GoTo(p, Hooked(p)))
     ELSE GoTo(p, Hooked(p)) /\ UNCHANGED <<vol, fails>>
  /\ UNCHANGED <<store, chat, written, torn, crashes>>

HookPatch(p) ==
  /\ At(p, "committed")
  /\ Patch([task[p].rb EXCEPT !.last = LastMsg])
  /\ GoTo(p, Hooked(p))
  /\ UNCHANGED <<vol, chat, written, torn, crashes, fails>>

\* The files of message m reach a mounted volume, and its undo log if that is
\* enabled (no restore reaches rows from before the first snapshot: left out);
\* top: entries of its top directory are among the changes.
Written(v, m, top) ==
  IF v.mount # "live" THEN v
  ELSE [v EXCEPT !.files = m,
                 !.undo = IF v.enabled /\ v.next > 1
                          THEN @ \cup {[msg |-> m, tag |-> v.next, before |-> v.files, top |-> top]}
                          ELSE @]

\* The agent works and answers: its writes and its message are one step.
Turn(top) ==
  /\ At("client", "turn") /\ written < MaxMsg
  /\ LET m == written + 1 IN
     /\ vol' = Written(vol, m, top)
     /\ chat' = [x \in DOMAIN chat \cup {m} |-> IF x = m THEN vol'.files ELSE chat[x]]
     /\ written' = m
     /\ torn' = (torn \/ (vol.mount = "live" /\ store.rb.marker.fs /\ ~store.rb.marker.jsonl))
  /\ GoTo("client", "idle")
  /\ UNCHANGED <<store, crashes, fails>>

\* The run fails before it has written.
NoTurn ==
  /\ At("client", "turn")
  /\ GoTo("client", "idle")
  /\ UNCHANGED <<store, vol, chat, written, torn, crashes, fails>>

-----------------------------------------------------------------------------
(* secafs.rollback.setEnabled, called by the toggle of the session.        *)

SetEnabled(on) ==
  /\ Free /\ ~store.rb.marker.on
  /\ on # store.rb.enabled
  /\ Take("client", IF on THEN "enable" ELSE "disable", store.rb)
  /\ UNCHANGED <<store, vol, chat, written, torn, crashes, fails>>

EnableCall ==
  /\ At("client", "enable")
  /\ Call([vol EXCEPT !.enabled = TRUE], GoTo("client", "enabled"), GoTo("client", "idle"))
  /\ UNCHANGED <<store, chat, written, torn, crashes>>

DisableCall ==
  /\ At("client", "disable")
  /\ Call(Disabled(vol), GoTo("client", "disabled"), GoTo("client", "idle"))
  /\ UNCHANGED <<store, chat, written, torn, crashes>>

SwitchPatch ==
  /\ \/ At("client", "enabled") /\ Patch([task["client"].rb EXCEPT !.enabled = TRUE])
     \/ At("client", "disabled") /\ Patch(Off)
  /\ GoTo("client", "idle")
  /\ UNCHANGED <<vol, chat, written, torn, crashes, fails>>

-----------------------------------------------------------------------------
(* The phases of a rollback, for handleRestore ("client") and reconcile    *)
(* ("boot").  The marker of the rollback is in the copy of the process.    *)

Goal(p) == task[p].rb.marker

\* handleRestore: refused while a rollback is marked; the target is in the list
\* and its message on the screen.
RestoreStart(t) ==
  /\ Free /\ ~store.rb.marker.on
  /\ SnapOf(vol, t) # {}
  /\ LET s == CHOOSE s \in SnapOf(vol, t) : TRUE IN
     /\ InChat(s.label)
     /\ Take("client", "mark",
          [store.rb EXCEPT !.marker = [Unmarked EXCEPT !.on = TRUE, !.snap = t, !.msg = s.label]])
  /\ UNCHANGED <<store, vol, chat, written, torn, crashes, fails>>

Mark ==
  /\ At("client", "mark")
  /\ Patch(task["client"].rb)
  /\ GoTo("client", "unmount")
  /\ UNCHANGED <<vol, chat, written, torn, crashes, fails>>

\* reconcile ignores the error of unmount; handleRestore gives up and leaves
\* the marker.
UnmountStep(p) ==
  /\ At(p, "unmount")
  /\ Call(Unmounted(vol), GoTo(p, "restore"), GoTo(p, IF p = "boot" THEN "restore" ELSE "idle"))
  /\ UNCHANGED <<store, chat, written, torn, crashes>>

RestoreStep(p) ==
  /\ At(p, "restore")
  /\ Call(Restored(vol, Goal(p).snap), GoTo(p, "restored"), GoTo(p, "idle"))
  /\ UNCHANGED <<store, chat, written, torn, crashes>>

MarkRestored(p) ==
  /\ At(p, "restored")
  /\ LET rb == [task[p].rb EXCEPT !.marker.fs = TRUE] IN Patch(rb) /\ Take(p, "truncate", rb)
  /\ UNCHANGED <<vol, chat, written, torn, crashes, fails>>

\* Throws when the message is not in the transcript.
Truncate(p) ==
  /\ At(p, "truncate")
  /\ \/ InChat(Goal(p).msg) /\ chat' = Cut(Goal(p).msg) /\ GoTo(p, "trajectory")
     \/ ~InChat(Goal(p).msg) /\ GoTo(p, "idle") /\ UNCHANGED chat
  /\ UNCHANGED <<store, vol, written, torn, crashes, fails>>

\* The trajectory never has the id of a message: handleRestore tolerates that,
\* reconcile throws unless the file is missing.
TruncateTrajectory(p) ==
  /\ At(p, "trajectory")
  /\ GoTo(p, IF p = "boot" /\ Trajectory THEN "idle" ELSE "truncated")
  /\ UNCHANGED <<store, vol, chat, written, torn, crashes, fails>>

MarkTruncated(p) ==
  /\ At(p, "truncated")
  /\ LET rb == [task[p].rb EXCEPT !.marker.jsonl = TRUE] IN Patch(rb) /\ Take(p, "mount", rb)
  /\ UNCHANGED <<vol, chat, written, torn, crashes, fails>>

MountStep(p) ==
  /\ At(p, "mount")
  /\ Call(Mounted(vol), GoTo(p, "finish"), GoTo(p, IF p = "boot" THEN "finish" ELSE "idle"))
  /\ UNCHANGED <<store, chat, written, torn, crashes>>

Finish(p) ==
  /\ At(p, "finish")
  /\ Patch([enabled |-> TRUE, last |-> Goal(p).msg, marker |-> Unmarked])
  /\ GoTo(p, "idle")
  /\ UNCHANGED <<vol, chat, written, torn, crashes, fails>>

-----------------------------------------------------------------------------
(* The gateway dies with everything it was doing; a new one reconciles.    *)

GatewayCrash ==
  /\ crashes < MaxCrash /\ crashes' = crashes + 1
  /\ task' = [p \in Proc |-> IF p = "boot" THEN [Idle EXCEPT !.at = "list"] ELSE Idle]
  /\ UNCHANGED <<store, vol, chat, written, torn, fails>>

\* The volume belongs to a session, so it is no orphan.
BootList ==
  /\ At("boot", "list")
  /\ Call(vol, GoTo("boot", "load"), GoTo("boot", "idle"))
  /\ UNCHANGED <<store, chat, written, torn, crashes>>

\* Mutant: restored files are taken for a finished rollback.
BootLoadRestored ==
  /\ At("boot", "load")
  /\ Take("boot", IF ~store.rb.marker.on THEN "idle"
                 ELSE IF ~store.rb.marker.fs THEN "unmount" ELSE "mount",
          store.rb)
  /\ UNCHANGED <<store, vol, chat, written, torn, crashes, fails>>

\* Mutant: a rollback whose files are not restored is not resumed.
BootLoadHalf ==
  /\ At("boot", "load")
  /\ Take("boot", IF ~store.rb.marker.on \/ ~store.rb.marker.fs THEN "idle"
                 ELSE IF ~store.rb.marker.jsonl THEN "truncate" ELSE "mount",
          store.rb)
  /\ UNCHANGED <<store, vol, chat, written, torn, crashes, fails>>

\* The first phase that the marker does not say is done.
BootLoad ==
  /\ At("boot", "load")
  /\ Take("boot", IF ~store.rb.marker.on THEN "idle"
                 ELSE IF ~store.rb.marker.fs THEN "unmount"
                 ELSE IF ~store.rb.marker.jsonl THEN "truncate" ELSE "mount",
          store.rb)
  /\ UNCHANGED <<store, vol, chat, written, torn, crashes, fails>>

-----------------------------------------------------------------------------
(* scanOnce, every idleScanSeconds.                                        *)

\* Both duties are for an entry that is mounted by the store that the scan loads
\* here, and in no rollback.
ScanLoad ==
  /\ At("scan", "idle") /\ store.mounted /\ ~store.rb.marker.on
  /\ GoTo("scan", "list")
  /\ UNCHANGED <<store, vol, chat, written, torn, crashes, fails>>

\* Duty 2, after the keeper's: the entry is old enough to unmount, or it is not.
Duty2 ==
  \/ GoTo("scan", "idle")
  \/ IdleUnmount /\ GoTo("scan", "idleunmount")

\* A failed list skips the keeper's duty.
ScanList ==
  /\ At("scan", "list")
  /\ Call(vol, GoTo("scan", IF vol.mount = "none" THEN "unmount" ELSE "probe"),
               Duty2)
  /\ UNCHANGED <<store, chat, written, torn, crashes>>

\* Mutant: a listed mount is taken to be alive.
ScanProbeNone ==
  /\ At("scan", "probe")
  /\ Duty2
  /\ UNCHANGED <<store, vol, chat, written, torn, crashes, fails>>

\* A mount the daemon lists may be one the kernel has lost.
ScanProbe ==
  /\ At("scan", "probe")
  /\ IF vol.mount = "live" THEN Duty2 ELSE GoTo("scan", "unmount")
  /\ UNCHANGED <<store, vol, chat, written, torn, crashes, fails>>

ScanUnmount ==
  /\ At("scan", "unmount")
  /\ Call(Unmounted(vol), GoTo("scan", "mount"), GoTo("scan", "mount"))
  /\ UNCHANGED <<store, chat, written, torn, crashes>>

ScanMount ==
  /\ At("scan", "mount")
  /\ Call(Mounted(vol), Duty2, Duty2)
  /\ UNCHANGED <<store, chat, written, torn, crashes>>

IdleUnmountCall ==
  /\ At("scan", "idleunmount")
  /\ Call(Unmounted(vol), GoTo("scan", "idlepatch"), GoTo("scan", "idle"))
  /\ UNCHANGED <<store, chat, written, torn, crashes>>

IdlePatch ==
  /\ At("scan", "idlepatch")
  /\ store' = [store EXCEPT !.mounted = FALSE]
  /\ GoTo("scan", "idle")
  /\ UNCHANGED <<vol, chat, written, torn, crashes, fails>>

-----------------------------------------------------------------------------
Hook(p) == HookLoad(p) \/ HookCommit(p) \/ HookPatch(p)

ClientStep ==
  \/ AutoMount \/ AutoMounted \/ Hook("client") \/ Hook("eager") \/ NoTurn
  \/ \E top \in BOOLEAN : Turn(top)
  \/ EnableCall \/ DisableCall \/ SwitchPatch \/ Mark

Phase(p) ==
  \/ UnmountStep(p) \/ RestoreStep(p) \/ MarkRestored(p) \/ Truncate(p)
  \/ TruncateTrajectory(p) \/ MarkTruncated(p) \/ MountStep(p) \/ Finish(p)

BootStep == BootList \/ BootLoad \/ Phase("boot")

ScanStep ==
  \/ ScanLoad \/ ScanList \/ ScanProbe \/ ScanUnmount \/ ScanMount
  \/ IdleUnmountCall \/ IdlePatch

Next ==
  \/ Prompt \/ SnapshotNow
  \/ \E on \in BOOLEAN : SetEnabled(on)
  \/ \E t \in 1..MaxMsg : RestoreStart(t)
  \/ ClientStep \/ Phase("client")
  \/ BootStep
  \/ ScanStep
  \/ GatewayCrash \/ DaemonCrash \/ MountDies

\* The event loop of a live gateway runs every process that can go on: what is
\* awaited is answered or times out.
Spec == Init /\ [][Next]_vars /\ WF_vars(BootStep) /\ WF_vars(ScanStep)

-----------------------------------------------------------------------------
Msg == 1..MaxMsg

\* The files that belong to the end of the transcript.
Expected == IF DOMAIN chat = {} THEN 0 ELSE chat[LastMsg]

\* Whenever no rollback is marked, running or being resumed, the files are those
\* of the last message of the transcript, whatever crashed or failed before, as
\* long as no agent worked on a volume whose rollback was restored and not yet
\* truncated (handleRestore and reconcile).
AtRest == Free /\ ~store.rb.marker.on /\ ~torn => vol.files = Expected

\* The snapshots below the counter; a restore may leave others behind.
Kept == {s \in vol.snaps : s.id < vol.next}

\* A snapshot brings back the files right after the message it is labelled with,
\* although it is taken at the start of a later turn (snapshotOnTurnEnd), with the
\* same proviso.
SnapshotsPaired ==
  torn \/ \A s \in Kept : InChat(s.label) => Restored(vol, s.id).files = chat[s.label]

\* Every snapshot below the counter can be rolled back to: its message is in the
\* transcript, and later snapshots belong to later messages, so that undoing files
\* and cutting the transcript agree (handleRestore, phases 3 and 4).
TargetsInChat ==
  \A s \in Kept :
    /\ InChat(s.label)
    /\ \A t \in Kept : s.id < t.id => s.label < t.label

\* Once calls of the daemon no longer fail, a starting gateway finishes the
\* rollback it finds marked: "Also resumes any in-progress rollbacks
\* idempotently, picking up from whatever phase was last completed" (reconcile).
\* It holds of a conversation without a trajectory file and fails with one.
Resumes == (~At("boot", "idle") /\ store.rb.marker.on /\ fails = MaxFail) ~> ~store.rb.marker.on

\* A conversation that the store calls mounted gets its mount back, unless it is
\* unmounted on purpose or a rollback is marked (the mount keeper of scanOnce).
KeeperRemounts ==
  store.mounted ~> (vol.mount = "live" \/ ~store.mounted \/ store.rb.marker.on)
=============================================================================
