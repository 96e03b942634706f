----------------------------- MODULE WorkerHost -----------------------------
(***************************************************************************)
(* One Worker: its slots, the llama-server processes behind them, and the  *)
(* cache of model files.  The goroutines that work on a slot at the same   *)
(* time are the subject: an assignment per profile, the watcher of every   *)
(* server, a task with the recovery that follows its failure, and the      *)
(* eviction of an artifact, which the read loop runs itself.               *)
(*                                                                         *)
(* A step ends where a goroutine waits (for a download, a process, a       *)
(* stream, a file) or where it lets go of what it has read: between an     *)
(* admission and its slot, a plan and its execution, a copy of the cache   *)
(* and the write of it.  A message is received when the read loop is free. *)
(***************************************************************************)
EXTENDS Naturals, FiniteSets

CONSTANTS
    Slots, Profiles, Artifacts, Tasks,
    Servers,         \* 1..n: names for llama-server processes, used again
    ModelOf,         \* the model artifact of each profile
    NoSlot, NoProfile, NoArtifact, NoTask, NoServer,
    MaxRestarts,     \* maxRuntimeRestartAttempts
    MaxDownloads,    \* WorkerConfig.MaxConcurrentDownloads
    MaxAssignments,  \* bound: assignments that are not satisfied on arrival
    MaxFailures,     \* bound: servers that die or do not become ready in time
    MaxEvents        \* bound: evictions, p2p_config messages, restarts of the Worker

\* One download at a time, as configured by default: downloads of one artifact
\* share its .tmp file.  A profile, a server and a task have names of their own kind.
ASSUME HostConstants ==
    /\ Servers \subseteq Nat /\ ModelOf \in [Profiles -> Artifacts]
    /\ IsFiniteSet(Profiles) /\ IsFiniteSet(Servers) /\ IsFiniteSet(Tasks)
    /\ Profiles \cap Servers = {} /\ Profiles \cap Tasks = {} /\ Servers \cap Tasks = {}
    /\ MaxDownloads = 1
    /\ {MaxRestarts, MaxAssignments, MaxFailures, MaxEvents} \subseteq Nat
    /\ NoSlot \notin Slots /\ NoProfile \notin Profiles /\ NoArtifact \notin Artifacts
    /\ NoTask \notin Tasks /\ NoServer \notin Servers

\* The states in which assignmentAlreadySatisfied takes a slot to be on its way;
\* "cached" is passed through at once.
InProgress == {"download_queued", "downloading", "loading", "warming"}
SlotStates == InProgress \cup {"idle", "ready", "serving", "error"}

\* A goroutine is named by what it works for: a profile (its assignment), a
\* server (its watcher) or a task (executeTask, then recoverRuntimeSlot).
Threads == Profiles \cup Servers \cup Tasks

\* Starting a server, shared by the three kinds of goroutine.
StartPC == {"spawn", "wait"}
\* On the way to a state of the slot that ends the work.
SettlePC == StartPC \cup {"cache", "queue", "download", "write", "verify", "ready",
                          "reserve", "admitted", "stream", "streamed", "recover"}
ThreadPC == SettlePC \cup {"idle", "watch"}

VARIABLES
    slot,        \* Worker.slots
    cache,       \* Worker.cache and cacheState: the artifacts with a path
    file,        \* the files in CacheDir
    saved,       \* the cache in the state file
    p2p,         \* whether Worker.p2p runs
    seeding,     \* anacrolixWorkerP2P.torrents
    assigns, warm,
    cooldown,    \* the profiles whose assignment failed in the last 5 minutes
    runtimes, restarts,
    server,      \* the processes
    thread, evict,
    left,        \* bounded events that may still happen
    since,       \* history: restarts of a slot's runtime since the Manager or an
                 \* eviction had it start anew
    excused,     \* history: servers that died while their slot was serving and that
                 \* no task has looked at since
    overlapped,  \* history: slots that two goroutines work on, or have left unsettled
    clashed,     \* history: slots where a start meets another start or an eviction,
                 \* or has lost a server by it
    inherited,   \* history: what the cache still holds on the word of the state file
    alone        \* history: no eviction has met work for its artifact

vars == <<slot, cache, file, saved, p2p, seeding, assigns, warm, cooldown, runtimes, restarts,
          server, thread, evict, left, since, excused, overlapped, clashed, inherited, alone>>
files == <<cache, file, saved, p2p, seeding>>
plans == <<assigns, warm, cooldown>>
procs == <<runtimes, restarts, server, since, excused>>

SlotRecord == [state : SlotStates, profile : Profiles \cup {NoProfile},
               model : Artifacts \cup {NoArtifact}, task : Tasks \cup {NoTask}]
IdleSlot == [state |-> "idle", profile |-> NoProfile, model |-> NoArtifact, task |-> NoTask]

ThreadRecord == [pc : ThreadPC, slot : Slots \cup {NoSlot}, profile : Profiles \cup {NoProfile},
                 server : Servers \cup {NoServer}, snap : SUBSET Artifacts]
IdleThread == [pc |-> "idle", slot |-> NoSlot, profile |-> NoProfile, server |-> NoServer, snap |-> {}]

NoEviction == [pc |-> "idle", artifact |-> NoArtifact, path |-> FALSE, slots |-> {},
               servers |-> {}, profiles |-> {}, snap |-> {}]

TypeOK ==
    /\ slot \in [Slots -> SlotRecord]
    /\ cache \subseteq Artifacts /\ saved \subseteq Artifacts /\ seeding \subseteq Artifacts
    /\ file \in [Artifacts -> {"none", "good", "bad"}]
    /\ p2p \in BOOLEAN /\ (~p2p => seeding = {})
    /\ assigns \subseteq Profiles /\ warm \subseteq Profiles /\ cooldown \subseteq Profiles
    /\ runtimes \in [Slots -> Servers \cup {NoServer}]
    /\ restarts \in [Slots -> 0..MaxRestarts]
    /\ server \in [Servers -> [alive : BOOLEAN, profile : Profiles \cup {NoProfile}]]
    /\ thread \in [Threads -> ThreadRecord]
    /\ evict \in [pc : {"idle", "stop", "remove", "apply", "write"},
                  artifact : Artifacts \cup {NoArtifact}, path : BOOLEAN, slots : SUBSET Slots,
                  servers : SUBSET Servers, profiles : SUBSET Profiles, snap : SUBSET Artifacts]
    /\ left \in [assignments : 0..MaxAssignments, failures : 0..MaxFailures, events : 0..MaxEvents]
    /\ since \in [Slots -> Nat]
    /\ excused \subseteq Servers
    /\ overlapped \subseteq Slots /\ clashed \subseteq Slots /\ inherited \subseteq cache
    /\ alone \in BOOLEAN

Fresh == [s \in Slots |-> IdleSlot]

Init ==
    /\ slot = Fresh
    /\ cache = {} /\ file = [a \in Artifacts |-> "none"] /\ saved = {}
    /\ p2p = TRUE /\ seeding = {}
    /\ assigns = {} /\ warm = {} /\ cooldown = {}
    /\ runtimes = [s \in Slots |-> NoServer] /\ restarts = [s \in Slots |-> 0]
    /\ server = [q \in Servers |-> [alive |-> FALSE, profile |-> NoProfile]]
    /\ thread = [x \in Threads |-> IdleThread] /\ evict = NoEviction
    /\ left = [assignments |-> MaxAssignments, failures |-> MaxFailures, events |-> MaxEvents]
    /\ since = [s \in Slots |-> 0] /\ excused = {}
    /\ overlapped = {} /\ clashed = {} /\ inherited = {} /\ alone = TRUE

-----------------------------------------------------------------------------
(* Helpers *)

Spend(event) == left' = [left EXCEPT ![event] = @ - 1]

\* warmProfileForSlot: a profile the Worker does not know, or of another runtime
\* variant than the slot's, has no model.
WarmProfileModel(s, p) ==
    IF p \in assigns \cup warm /\ (slot[s].model = NoArtifact \/ slot[s].profile = p)
    THEN ModelOf[p] ELSE NoArtifact

\* setSlotState; an assignment that only caches has no slot.
SetSlotState(s, state, p) ==
    slot' = IF s = NoSlot THEN slot
            ELSE [slot EXCEPT ![s] = [state |-> state, profile |-> p,
                                      model |-> WarmProfileModel(s, p), task |-> NoTask]]

SlotProfileCurrent(s, p) == slot[s].profile = p /\ slot[s].model = ModelOf[p]

\* runtimeServerReady, and the checks of runtimeServerForPayload.
RuntimeServerReady(s, p) ==
    runtimes[s] # NoServer /\ server[runtimes[s]] = [alive |-> TRUE, profile |-> p]

\* VerifyFileSHA256 of the cached path.
Verified(a) == a \in cache /\ file[a] = "good"

Kill(q) == [server EXCEPT ![q].alive = FALSE]

Goto(x, pc) == thread' = [thread EXCEPT ![x].pc = pc]
Finish(x) == thread' = [thread EXCEPT ![x] = IdleThread]

\* An assignment ends in failure: recordAssignmentFailure, finishAssignment.
FailJob(p) == cooldown' = cooldown \cup {p} /\ Finish(p)

ReadLoopFree == evict.pc = "idle"
-----------------------------------------------------------------------------
(* Assignments *)

\* assignmentAlreadySatisfied asks the first slot in map order that holds the
\* profile; queueAssignment starts the goroutine.
Deciding(p) == {s \in Slots : SlotProfileCurrent(s, p)
                              /\ slot[s].state \in InProgress \cup {"ready", "serving"}}
SatisfiedBy(s, p) == slot[s].state \in InProgress \/ RuntimeServerReady(s, p)
AlreadySatisfied(p, s) ==
    \/ p \in cooldown
    \/ thread[p].pc # "idle"
    \/ IF s = NoSlot THEN ModelOf[p] \in cache
       ELSE Deciding(p) # {} /\ \A d \in Deciding(p) : SatisfiedBy(d, p)

QueueAssignment(p, s) ==
    /\ ReadLoopFree /\ left.assignments > 0
    /\ ~AlreadySatisfied(p, s)
    /\ assigns' = assigns \cup {p}
    /\ thread' = [thread EXCEPT ![p] = [IdleThread EXCEPT !.pc = "cache", !.slot = s, !.profile = p]]
    /\ Spend("assignments")
    /\ UNCHANGED <<slot, files, warm, cooldown, procs, evict>>

\* assignmentFailureCooldown has passed.
CooldownEnds(p) ==
    /\ p \in cooldown
    /\ cooldown' = cooldown \ {p}
    /\ UNCHANGED <<slot, files, assigns, warm, procs, thread, evict, left>>

\* localFit says no: setAnySlotState.
AssignmentRejected(p) ==
    /\ thread[p].pc = "cache" /\ thread[p].slot # NoSlot
    /\ \E s \in Slots : SetSlotState(s, "idle", p)
    /\ FailJob(p)
    /\ UNCHANGED <<files, assigns, warm, procs, evict, left>>

\* artifactAlreadyCached: a file that does not verify is dropped.  The hash and what
\* follows from it are one step.
Seed(a) == IF p2p THEN seeding \cup {a} ELSE seeding
KeepVerified(a) ==
    IF Verified(a)
    THEN seeding' = Seed(a) /\ UNCHANGED <<cache, file>>
    ELSE /\ cache' = cache \ {a}
         /\ file' = IF a \in cache THEN [file EXCEPT ![a] = "none"] ELSE file
         /\ seeding' = IF a \in cache THEN seeding \ {a} ELSE seeding

\* The artifact is there ("cached"): on with "loading", or saveState at the end of
\* an assignment that only caches.
AfterCached(p) ==
    IF thread[p].slot = NoSlot
    THEN Finish(p) /\ saved' = cache
    ELSE thread' = [thread EXCEPT ![p] = [@ EXCEPT !.pc = "verify", !.snap = {}]] /\ UNCHANGED saved

\* ensureSlotCached up to the download queue.
EnsureCached(p) ==
    LET a == ModelOf[p]
    IN  /\ thread[p].pc = "cache"
        /\ KeepVerified(a)
        /\ IF Verified(a) THEN SetSlotState(thread[p].slot, "loading", p)
           ELSE IF a \notin cache THEN SetSlotState(thread[p].slot, "download_queued", p)
           ELSE UNCHANGED slot
        /\ IF Verified(a) THEN AfterCached(p) ELSE Goto(p, "queue") /\ UNCHANGED saved
        /\ UNCHANGED <<p2p, plans, procs, evict, left>>

Downloading == {p \in Profiles : thread[p].pc \in {"download", "write"}}

\* acquireDownloadSlot, and the second look at the cache.
AcquireDownloadSlot(p) ==
    LET a == ModelOf[p]
    IN  /\ thread[p].pc = "queue" /\ Cardinality(Downloading) < MaxDownloads
        /\ KeepVerified(a)
        /\ SetSlotState(thread[p].slot, IF Verified(a) THEN "loading" ELSE "downloading", p)
        /\ IF Verified(a) THEN AfterCached(p) ELSE Goto(p, "download") /\ UNCHANGED saved
        /\ UNCHANGED <<p2p, plans, procs, evict, left>>

\* The cache learns of a file that is in place, and peers may ask for it; saveState
\* copies the cache under the lock.  Seeding and the write of the state file succeed.
RecordArtifact(p, content) ==
    /\ file' = [file EXCEPT ![ModelOf[p]] = content]
    /\ cache' = cache \cup {ModelOf[p]}
    /\ seeding' = Seed(ModelOf[p])
    /\ thread' = [thread EXCEPT ![p].pc = "write", ![p].snap = cache']

\* Mutant: the digest of the download is not compared.
DownloadArtifact_Unverified(p) ==
    /\ thread[p].pc = "download"
    /\ \E content \in {"good", "bad"} : RecordArtifact(p, content)
    /\ UNCHANGED <<slot, saved, p2p, plans, procs, evict, left>>

\* downloadArtifact: from peers or over HTTP, verified and moved into place.
DownloadArtifact(p) ==
    /\ thread[p].pc = "download"
    /\ RecordArtifact(p, "good")
    /\ UNCHANGED <<slot, saved, p2p, plans, procs, evict, left>>

\* Refused, broken off or with another digest.  A torrent that was given up leaves
\* what it had written at the target.
DownloadFails(p) ==
    /\ thread[p].pc = "download"
    /\ \E content \in {file[ModelOf[p]]} \cup IF p2p THEN {"bad"} ELSE {} :
            file' = [file EXCEPT ![ModelOf[p]] = content]
    /\ SetSlotState(thread[p].slot, "error", p)
    /\ FailJob(p)
    /\ UNCHANGED <<cache, saved, p2p, seeding, assigns, warm, procs, evict, left>>

\* saveState writes its copy without the lock; an assignment that only caches ends
\* with another save.
WriteState(p) ==
    /\ thread[p].pc = "write"
    /\ saved' = IF thread[p].slot = NoSlot THEN cache ELSE thread[p].snap
    /\ SetSlotState(thread[p].slot, "loading", p)
    /\ IF thread[p].slot = NoSlot THEN Finish(p)
       ELSE thread' = [thread EXCEPT ![p] = [@ EXCEPT !.pc = "verify", !.snap = {}]]
    /\ UNCHANGED <<cache, file, p2p, seeding, plans, procs, evict, left>>

\* Mutant: the server that is there is forgotten, not stopped.
StopRuntimeServer_Forgets(s) ==
    /\ runtimes' = [runtimes EXCEPT ![s] = NoServer]
    /\ UNCHANGED server

StopRuntimeServer(s) ==
    /\ runtimes' = [runtimes EXCEPT ![s] = NoServer]
    /\ server' = IF runtimes[s] = NoServer THEN server ELSE Kill(runtimes[s])

\* Mutant: the slot is not told that verification failed.
EnsureSlotWarm_Silent(p) ==
    LET s == thread[p].slot
    IN  /\ thread[p].pc = "verify"
        /\ IF p \in assigns /\ Verified(ModelOf[p])
           THEN /\ SetSlotState(s, "warming", p)
                /\ IF RuntimeServerReady(s, p)
                   THEN Goto(p, "ready") /\ UNCHANGED <<runtimes, server>>
                   ELSE Goto(p, "spawn") /\ StopRuntimeServer(s)
                /\ UNCHANGED cooldown
           ELSE FailJob(p) /\ UNCHANGED <<slot, runtimes, server>>
        /\ UNCHANGED <<files, assigns, warm, restarts, since, excused, evict, left>>

\* ensureSlotWarm: verifyProfileArtifacts, then ensureRuntimeServer, which begins a
\* start by stopping what is there.
EnsureSlotWarm(p) ==
    LET s == thread[p].slot
    IN  /\ thread[p].pc = "verify"
        /\ IF p \in assigns /\ Verified(ModelOf[p])
           THEN /\ SetSlotState(s, "warming", p)
                /\ IF RuntimeServerReady(s, p)
                   THEN Goto(p, "ready") /\ UNCHANGED <<runtimes, server>>
                   ELSE Goto(p, "spawn") /\ StopRuntimeServer(s)
                /\ UNCHANGED cooldown
           ELSE SetSlotState(s, "error", p) /\ FailJob(p) /\ UNCHANGED <<runtimes, server>>
        /\ UNCHANGED <<files, assigns, warm, restarts, since, excused, evict, left>>

-----------------------------------------------------------------------------
(* startRuntimeServerForSlot, for an assignment, a watcher or a recovery *)

\* Names of processes that nobody refers to any more are used again.
Unused == {q \in Servers : /\ ~server[q].alive /\ thread[q].pc = "idle" /\ q \notin evict.servers
                           /\ \A s \in Slots : runtimes[s] # q
                           /\ \A x \in Threads : thread[x].server # q}

\* The start has failed: "error", and the end of an assignment.
MarkBroken(x) ==
    /\ SetSlotState(thread[x].slot, "error", thread[x].profile)
    /\ IF x \in Profiles THEN FailJob(x) ELSE Finish(x) /\ UNCHANGED cooldown

\* startLlamaServer: runtimeCommandInputs, then the process, which does not live
\* without its model file.
StartLlamaServer(x) ==
    LET p == thread[x].profile
    IN  /\ thread[x].pc = "spawn"
        /\ IF p \in assigns /\ ModelOf[p] \in cache
           THEN \E q \in Unused :
                  /\ \A r \in Unused : q <= r
                  /\ server' = [server EXCEPT ![q] = [alive |-> file[ModelOf[p]] # "none", profile |-> p]]
                  /\ thread' = [thread EXCEPT ![x].pc = "wait", ![x].server = q]
                  /\ UNCHANGED <<slot, cooldown>>
           ELSE MarkBroken(x) /\ UNCHANGED server
        /\ UNCHANGED <<files, assigns, warm, runtimes, restarts, since, excused, evict, left>>

\* Mutant: every start gives the slot its restarts back.
InstallServer_AlwaysResets(x) ==
    LET s == thread[x].slot
        q == thread[x].server
    IN  /\ thread[x].pc = "wait" /\ server[q].alive
        /\ runtimes' = [runtimes EXCEPT ![s] = q]
        /\ warm' = warm \cup {thread[x].profile}
        /\ restarts' = [restarts EXCEPT ![s] = 0]
        /\ since' = IF x \in Profiles THEN [since EXCEPT ![s] = 0] ELSE since
        /\ thread' = [thread EXCEPT ![x] = [@ EXCEPT !.pc = "ready", !.server = NoServer],
                                    ![q] = [thread[x] EXCEPT !.pc = "watch", !.server = NoServer]]
        /\ UNCHANGED <<slot, files, assigns, cooldown, server, excused, evict, left>>

\* It became ready: it replaces whatever another start has put there meanwhile.
InstallServer(x) ==
    LET s == thread[x].slot
        q == thread[x].server
    IN  /\ thread[x].pc = "wait" /\ server[q].alive
        /\ runtimes' = [runtimes EXCEPT ![s] = q]
        /\ warm' = warm \cup {thread[x].profile}
        /\ restarts' = IF x \in Profiles THEN [restarts EXCEPT ![s] = 0] ELSE restarts
        /\ since' = IF x \in Profiles THEN [since EXCEPT ![s] = 0] ELSE since
        /\ thread' = [thread EXCEPT ![x] = [@ EXCEPT !.pc = "ready", !.server = NoServer],
                                    ![q] = [thread[x] EXCEPT !.pc = "watch", !.server = NoServer]]
        /\ UNCHANGED <<slot, files, assigns, cooldown, server, excused, evict, left>>

\* It died, or RuntimeStartWait or the third port conflict came first: proc.stop.
StartFails(x) ==
    /\ thread[x].pc = "wait"
    /\ IF server[thread[x].server].alive THEN left.failures > 0 /\ Spend("failures") ELSE UNCHANGED left
    /\ server' = Kill(thread[x].server)
    /\ MarkBroken(x)
    /\ UNCHANGED <<files, assigns, warm, runtimes, restarts, since, excused, evict>>

\* For an assignment, saveState follows.
MarkReady(x) ==
    /\ thread[x].pc = "ready"
    /\ SetSlotState(thread[x].slot, "ready", thread[x].profile)
    /\ saved' = IF x \in Profiles THEN cache ELSE saved
    /\ Finish(x)
    /\ UNCHANGED <<cache, file, p2p, seeding, plans, procs, evict, left>>

-----------------------------------------------------------------------------
(* Servers that die, their watchers, and tasks *)

ServerDies(q) ==
    /\ server[q].alive /\ left.failures > 0
    /\ server' = Kill(q)
    /\ Spend("failures")
    /\ UNCHANGED <<slot, files, plans, runtimes, restarts, since, excused, thread, evict>>

\* claimExitedRuntime: a server that was replaced is nobody's concern, one whose
\* slot is serving is left to the task.
ClaimExitedRuntime(q) ==
    LET s == thread[q].slot
    IN  /\ thread[q].pc = "watch" /\ ~server[q].alive
        /\ IF runtimes[s] = q /\ slot[s].state # "serving"
           THEN /\ runtimes' = [runtimes EXCEPT ![s] = NoServer]
                /\ Goto(q, "reserve")
                /\ UNCHANGED excused
           ELSE /\ Finish(q)
                /\ excused' = IF runtimes[s] = q THEN excused \cup {q} ELSE excused
                /\ UNCHANGED runtimes
        /\ UNCHANGED <<slot, files, plans, restarts, server, since, evict, left>>

\* reserveRuntimeRestart, for a watcher or for recoverRuntimeSlot, and the stop
\* that restartRuntimeServer begins with.
ReserveRestart(x) ==
    LET s == thread[x].slot
    IN  /\ thread[x].pc = "reserve"
        /\ IF restarts[s] < MaxRestarts
           THEN /\ restarts' = [restarts EXCEPT ![s] = @ + 1]
                /\ since' = [since EXCEPT ![s] = @ + 1]
                /\ SetSlotState(s, "warming", thread[x].profile)
                /\ StopRuntimeServer(s)
                /\ Goto(x, "spawn")
           ELSE /\ SetSlotState(s, "error", thread[x].profile)
                /\ IF x \in Tasks THEN StopRuntimeServer(s) ELSE UNCHANGED <<runtimes, server>>
                /\ Finish(x)
                /\ UNCHANGED <<restarts, since>>
        /\ UNCHANGED <<files, plans, excused, evict, left>>

\* A task received earlier: registerActiveAttempt and admitTask.
AdmitTask(t, s, p) ==
    /\ thread[t].pc = "idle"
    /\ slot[s].task = NoTask /\ slot[s].state = "ready" /\ SlotProfileCurrent(s, p)
    /\ p \in assigns /\ Verified(ModelOf[p])
    /\ thread' = [thread EXCEPT ![t] = [IdleThread EXCEPT !.pc = "admitted", !.slot = s, !.profile = p]]
    /\ UNCHANGED <<slot, files, plans, procs, evict, left>>

\* setSlotServing, then runtimeServerForPayload.
ServeTask(t) ==
    LET s == thread[t].slot
        p == thread[t].profile
    IN  /\ thread[t].pc = "admitted"
        /\ slot' = [slot EXCEPT ![s] = [state |-> "serving", profile |-> p,
                                        model |-> WarmProfileModel(s, p), task |-> t]]
        /\ thread' = [thread EXCEPT ![t] =
                IF RuntimeServerReady(s, p)
                THEN [@ EXCEPT !.pc = "stream", !.server = runtimes[s]] ELSE [@ EXCEPT !.pc = "recover"]]
        /\ UNCHANGED <<files, plans, procs, evict, left>>

\* The stream ends as it should, or with an error: the server's, or a cancellation.
StreamEnds(t) ==
    /\ thread[t].pc = "stream"
    /\ thread' = [thread EXCEPT ![t].pc = "streamed", ![t].server = NoServer]
    /\ server[thread[t].server].alive
    /\ UNCHANGED <<slot, files, plans, procs, evict, left>>

StreamFails(t) ==
    /\ thread[t].pc = "stream"
    /\ thread' = [thread EXCEPT ![t].pc = "recover", ![t].server = NoServer]
    /\ UNCHANGED <<slot, files, plans, procs, evict, left>>

CompleteTask(t) ==
    /\ thread[t].pc = "streamed"
    /\ SetSlotState(thread[t].slot, "ready", thread[t].profile)
    /\ Finish(t)
    /\ UNCHANGED <<files, plans, procs, evict, left>>

\* Mutant: the recovery trusts the table.
RecoverRuntimeSlot_Trusting(t) ==
    LET s == thread[t].slot
    IN  /\ thread[t].pc = "recover"
        /\ excused' = excused \ {runtimes[s]}
        /\ Goto(t, IF runtimes[s] # NoServer THEN "ready" ELSE "reserve")
        /\ UNCHANGED <<slot, files, plans, runtimes, restarts, server, since, evict, left>>

\* recoverRuntimeSlot: runtimeServerHealthy, which a live server may also fail.
RecoverRuntimeSlot(t) ==
    LET s == thread[t].slot
    IN  /\ thread[t].pc = "recover"
        /\ excused' = excused \ {runtimes[s]}
        /\ \/ RuntimeServerReady(s, thread[t].profile) /\ Goto(t, "ready")
           \/ Goto(t, "reserve")
        /\ UNCHANGED <<slot, files, plans, runtimes, restarts, server, since, evict, left>>

-----------------------------------------------------------------------------
(* Evictions, peers, updates and restarts *)

\* slotUsesArtifactLocked.
SlotUsesArtifact(s, a) ==
    \/ slot[s].model = a
    \/ slot[s].profile \in assigns \cup warm /\ ModelOf[slot[s].profile] = a

\* planArtifactEviction.
PlanEviction(a) ==
    LET using == {s \in Slots : SlotUsesArtifact(s, a)}
    IN  /\ ReadLoopFree /\ left.events > 0
        /\ Spend("events")
        /\ IF \E s \in using : slot[s].state = "serving" \/ slot[s].task # NoTask
           THEN UNCHANGED evict
           ELSE evict' = [pc |-> "stop", artifact |-> a, path |-> a \in cache, slots |-> using,
                          servers |-> {runtimes[s] : s \in using} \ {NoServer},
                          profiles |-> {p \in assigns \cup warm : ModelOf[p] = a}, snap |-> {}]
        /\ UNCHANGED <<slot, files, plans, procs, thread>>

\* Mutant: the eviction leaves the servers running.
StopEvicted_None ==
    /\ evict.pc = "stop"
    /\ evict' = [evict EXCEPT !.pc = "remove"]
    /\ UNCHANGED <<slot, files, plans, procs, thread, left>>

StopEvicted ==
    /\ evict.pc = "stop"
    /\ server' = [q \in Servers |-> [server[q] EXCEPT !.alive = @ /\ q \notin evict.servers]]
    /\ evict' = [evict EXCEPT !.pc = "remove"]
    /\ UNCHANGED <<slot, files, plans, runtimes, restarts, since, excused, thread, left>>

\* StopSeeding, then os.Remove, which may fail.
RemoveEvicted ==
    /\ evict.pc = "remove"
    /\ seeding' = seeding \ {evict.artifact}
    /\ \/ /\ file' = IF evict.path THEN [file EXCEPT ![evict.artifact] = "none"] ELSE file
          /\ evict' = [evict EXCEPT !.pc = "apply"]
       \/ evict.path /\ evict' = NoEviction /\ UNCHANGED file
    /\ UNCHANGED <<slot, cache, saved, p2p, plans, procs, thread, left>>

\* applyArtifactEviction, and saveState's copy.
ApplyEviction ==
    /\ evict.pc = "apply"
    /\ cache' = cache \ {evict.artifact}
    /\ assigns' = assigns \ evict.profiles /\ warm' = warm \ evict.profiles
    /\ runtimes' = [s \in Slots |-> IF s \in evict.slots THEN NoServer ELSE runtimes[s]]
    /\ restarts' = [s \in Slots |-> IF s \in evict.slots THEN 0 ELSE restarts[s]]
    /\ since' = [s \in Slots |-> IF s \in evict.slots THEN 0 ELSE since[s]]
    /\ slot' = [s \in Slots |-> IF s \in evict.slots THEN IdleSlot ELSE slot[s]]
    /\ evict' = [evict EXCEPT !.pc = "write", !.snap = cache']
    /\ UNCHANGED <<file, saved, p2p, seeding, cooldown, server, excused, thread, left>>

\* The state file is written, and "evicted" is reported; the write succeeds.
ReportEvicted ==
    /\ evict.pc = "write"
    /\ saved' = evict.snap
    /\ evict' = NoEviction
    /\ UNCHANGED <<slot, cache, file, p2p, seeding, plans, procs, thread, left>>

\* Mutant: the torrents outlive the client.
ApplyP2PConfig_KeepsTorrents(enabled) ==
    /\ ReadLoopFree /\ left.events > 0 /\ enabled # p2p
    /\ p2p' = enabled
    /\ seeding' = IF enabled THEN cache ELSE seeding
    /\ Spend("events")
    /\ UNCHANGED <<slot, cache, file, saved, plans, procs, thread, evict>>

\* applyP2PConfig; reseedCachedArtifacts.
ApplyP2PConfig(enabled) ==
    /\ ReadLoopFree /\ left.events > 0 /\ enabled # p2p
    /\ p2p' = enabled
    /\ seeding' = IF enabled THEN cache ELSE {}
    /\ Spend("events")
    /\ UNCHANGED <<slot, cache, file, saved, plans, procs, thread, evict>>

\* NewWorker: the state file's cache, and nothing else, survives.  Servers of a
\* Worker that crashed, or replaced itself, are not its successor's.
NewWorker ==
    /\ slot' = Fresh
    /\ cache' = saved /\ p2p' = TRUE /\ seeding' = saved
    /\ assigns' = {} /\ warm' = {} /\ cooldown' = {}
    /\ runtimes' = [s \in Slots |-> NoServer] /\ restarts' = [s \in Slots |-> 0]
    /\ server' = [q \in Servers |-> [alive |-> FALSE, profile |-> NoProfile]]
    /\ since' = [s \in Slots |-> 0] /\ excused' = {}
    /\ thread' = [x \in Threads |-> IdleThread]
    /\ evict' = NoEviction
    /\ overlapped' = {} /\ clashed' = {} /\ inherited' = saved /\ alone' = TRUE
    /\ UNCHANGED <<file, saved>>

\* The process ends: Run returns and stops the servers, or it crashes, or
\* handleUpdate, which has waited for the registered attempts before its download
\* and lets new ones in, replaces it by another (installAndRestart).
Restart == left.events > 0 /\ Spend("events") /\ NewWorker

-----------------------------------------------------------------------------
JobStep(p) ==
    \/ \E s \in Slots \cup {NoSlot} : QueueAssignment(p, s)
    \/ CooldownEnds(p) \/ AssignmentRejected(p)
    \/ EnsureCached(p) \/ AcquireDownloadSlot(p)
    \/ DownloadArtifact(p) \/ DownloadFails(p) \/ WriteState(p)
    \/ EnsureSlotWarm(p)

StartStep(x) ==
    \/ StartLlamaServer(x) \/ InstallServer(x) \/ StartFails(x)
    \/ MarkReady(x)

TaskStep(t) ==
    \/ \E s \in Slots, p \in Profiles : AdmitTask(t, s, p)
    \/ ServeTask(t)
    \/ StreamEnds(t) \/ StreamFails(t) \/ CompleteTask(t) \/ RecoverRuntimeSlot(t)

EvictStep ==
    \/ \E a \in Artifacts : PlanEviction(a)
    \/ StopEvicted \/ RemoveEvicted \/ ApplyEviction \/ ReportEvicted

Step ==
    \/ \E p \in Profiles : JobStep(p)
    \/ \E x \in Threads : StartStep(x)
    \/ \E x \in Servers \cup Tasks : ReserveRestart(x)
    \/ \E q \in Servers : ServerDies(q) \/ ClaimExitedRuntime(q)
    \/ \E t \in Tasks : TaskStep(t)
    \/ EvictStep
    \/ \E enabled \in BOOLEAN : ApplyP2PConfig(enabled)

\* What the history variables record of the state a step leads to: work that
\* overlaps, until the slot is at rest; starts that clash, until they are over and
\* nothing they have lost is alive.
Working(s) == {x \in Threads : thread[x].slot = s /\ thread[x].pc \in SettlePC}
Starting(s) == {x \in Working(s) : thread[x].pc \in StartPC}
Evicting(s) == evict.pc # "idle" /\ s \in evict.slots
Lost(q) == /\ server[q].alive
           /\ \A s \in Slots : runtimes[s] # q
           /\ \A x \in Threads : thread[x].server = q => thread[x].pc # "wait"
Overlap == {s \in Slots : Cardinality(Working(s)) > 1 \/ (Working(s) # {} /\ Evicting(s))}
Unsettled == {s \in Slots : Working(s) # {} \/ slot[s].state \notin {"idle", "error"}}
Clash == {s \in Slots : Cardinality(Starting(s)) > 1 \/ (Starting(s) # {} /\ Evicting(s))}
Clashing == {s \in Slots : Starting(s) # {} \/ Evicting(s) \/ \E q \in Servers : Lost(q) /\ thread[q].slot = s}
Undisturbed == \A x \in Threads : thread[x].pc \in SettlePC => ModelOf[thread[x].profile] # evict.artifact

Next ==
    \/ /\ Step
       /\ overlapped' = (overlapped \cup Overlap') \cap Unsettled'
       /\ clashed' = (clashed \cup Clash') \cap Clashing'
       /\ inherited' = inherited \cap cache'
       /\ alone' = (alone /\ (evict'.pc = "idle" \/ Undisturbed'))
    \/ Restart

Spec == Init /\ [][Next]_vars

-----------------------------------------------------------------------------
(* Properties *)

\* No slot is left in a state that assignmentAlreadySatisfied takes for progress,
\* or as serving, without a goroutine that will move it on: the Manager's next
\* assignment would be ignored for ever.  Whatever dies, fails, is evicted or
\* overlaps.
SlotHasOwner ==
    \A s \in Slots : slot[s].state \in InProgress \cup {"serving"} =>
        \E x \in Threads : thread[x].slot = s /\ thread[x].pc \in SettlePC

\* A slot that says ready has a server of its profile, unless goroutines have
\* overlapped on it: the server lives, or its watcher is about to find it dead, or
\* it died while the slot was serving, which watchRuntimeServer leaves to the task
\* and a task that ends well does not look at.
ReadyIsServed ==
    \A s \in Slots \ overlapped : slot[s].state = "ready" =>
        \/ \E q \in Servers : thread[q].pc = "reserve" /\ thread[q].slot = s
        \/ /\ runtimes[s] # NoServer /\ server[runtimes[s]].profile = slot[s].profile
           /\ server[runtimes[s]].alive \/ thread[runtimes[s]].pc = "watch" \/ runtimes[s] \in excused

\* startRuntimeServerForSlot loses no process: a live server is in the table, or its
\* start is under way, unless a start has met another start or an eviction of
\* the same slot.
NoLostServer == \A q \in Servers : Lost(q) => thread[q].slot \in clashed

\* The watcher and recoverRuntimeSlot share one limit: between two fresh starts (an
\* assignment, an eviction) a slot's server is restarted at most
\* maxRuntimeRestartAttempts times, whoever asks.
RestartsAreLimited == \A s \in Slots : since[s] <= MaxRestarts

\* What a Worker itself has put in its cache has the digest it should, after any
\* sequence of broken downloads and evictions.  The state file is less reliable:
\* saveState writes without the lock, an older copy may be written last, and the
\* next Worker may find a path to a file that was evicted or only begun.
CacheIsVerified == \A a \in cache \ inherited : file[a] # "bad"

\* When the Worker reports "evicted", the slots that planArtifactEviction found using
\* the artifact run nothing, but what a start that met the eviction has lost; and if
\* no work for the artifact met the eviction, nothing of it is left: no path, no file,
\* no seed.  (A server whose slot already speaks of another profile is not found.)
EvictionLeavesNothing ==
    [][ReportEvicted =>
        /\ \A q \in Servers : server[q].alive => thread[q].slot \notin evict.slots \ clashed
        /\ alone => /\ evict.artifact \notin cache \cup seeding
                    /\ evict.path => file[evict.artifact] = "none"]_vars
=============================================================================
