-------------------------- MODULE WorkerHostProofs --------------------------
(***************************************************************************)
(* What holds of one Worker however its goroutines interleave: the safety  *)
(* properties of module WorkerHost, for any number of slots, profiles,     *)
(* artifacts, tasks, servers and failures.                                 *)
(*                                                                         *)
(* A step of a goroutine moves one thread and says something of at most    *)
(* one slot (Tidy), starting a server apart.  The properties follow from   *)
(* an invariant on who refers to a server: the start that waits for it,    *)
(* its watcher and the table, and from what the history variables must     *)
(* have recorded whenever two of them disagree.                            *)
(***************************************************************************)
EXTENDS WorkerHost, FiniteSetTheorems, TLAPS

-----------------------------------------------------------------------------
(* The invariant: types and threads *)

EvictRecord == [pc : {"idle", "stop", "remove", "apply", "write"},
                artifact : Artifacts \cup {NoArtifact}, path : BOOLEAN, slots : SUBSET Slots,
                servers : SUBSET Servers, profiles : SUBSET Profiles, snap : SUBSET Artifacts]
LeftRecord == [assignments : 0..MaxAssignments, failures : 0..MaxFailures, events : 0..MaxEvents]

\* The type invariant without the history variables.
FilesTyped ==
    /\ cache \subseteq Artifacts /\ saved \subseteq Artifacts /\ seeding \subseteq Artifacts
    /\ file \in [Artifacts -> {"none", "good", "bad"}]
    /\ p2p \in BOOLEAN /\ (~p2p => seeding = {})
PlansTyped == assigns \subseteq Profiles /\ warm \subseteq Profiles /\ cooldown \subseteq Profiles
ProcsTyped ==
    /\ runtimes \in [Slots -> Servers \cup {NoServer}]
    /\ restarts \in [Slots -> 0..MaxRestarts]
    /\ server \in [Servers -> [alive : BOOLEAN, profile : Profiles \cup {NoProfile}]]
    /\ excused \subseteq Servers
Typed ==
    /\ slot \in [Slots -> SlotRecord]
    /\ FilesTyped /\ PlansTyped /\ ProcsTyped
    /\ thread \in [Threads -> ThreadRecord]
    /\ evict \in EvictRecord /\ left \in LeftRecord

\* An assignment that has not got its artifact yet, and perhaps no slot.
EarlyPC == {"cache", "queue", "download", "write"}

\* What a thread holds, by where it is and by what it works for.
ThreadOK(x, r) ==
    /\ r.pc = "idle" => r = IdleThread
    /\ r.pc # "idle" => r.profile \in Profiles /\ (x \in Profiles => r.profile = x)
    /\ r.pc \notin EarlyPC \cup {"idle"} => r.slot \in Slots
    /\ r.pc \in EarlyPC \cup {"verify"} => x \in Profiles
    /\ r.pc = "watch" => x \in Servers
    /\ r.pc = "reserve" => x \in Servers \cup Tasks
    /\ r.pc \in {"admitted", "stream", "streamed", "recover"} => x \in Tasks
    /\ r.pc = "wait" => r.server \in Servers
    /\ r.server # NoServer => r.pc \in {"wait", "stream"}

Base == Typed /\ \A x \in Threads : ThreadOK(x, thread[x])

-----------------------------------------------------------------------------
(* What a step of one goroutine does *)

\* Where a slot's server is taken for granted.
ServedPC == {"ready", "stream", "streamed"}

\* Thread x goes on with r.  The slot it works on shows its progress, or how it
\* ended; another slot may be made idle.
Tidy(x, r) ==
    /\ ThreadOK(x, r) /\ r.pc # "watch"
    /\ thread[x].pc = "idle" => r.pc \in {"cache", "admitted"}
    /\ thread[x].pc # "idle" => r.pc \notin {"cache", "admitted"}
    /\ thread[x].pc # "idle" /\ r.pc # "idle" => r.slot = thread[x].slot /\ r.profile = thread[x].profile
    /\ \A s \in Slots :
          \/ slot'[s] = slot[s]
          \/ slot'[s].state = "idle"
          \/ s = thread[x].slot /\ r.pc # "idle" /\ slot'[s].state \in InProgress \cup {"serving"}
          \/ s = thread[x].slot /\ r.pc = "idle" /\ slot'[s].state = "error"
          \/ /\ s = thread[x].slot /\ r.pc = "idle" /\ slot'[s].state = "ready"
             /\ slot'[s].profile = thread[x].profile /\ thread[x].pc \in ServedPC
    /\ r.pc = "idle" /\ thread[x].pc \notin {"cache", "watch"} /\ thread[x].slot \in Slots =>
          \/ slot'[thread[x].slot].state \in {"idle", "error"}
          \/ slot'[thread[x].slot].state = "ready" /\ thread[x].pc \in ServedPC
    /\ thread[x].slot \in Slots /\ slot'[thread[x].slot].state = "ready" =>
          \/ r.pc \in {"idle", "cache", "queue", "admitted"}
          \/ thread[x].pc \notin {"idle", "cache", "queue", "admitted", "reserve"}

Moved(x, r) == thread' = [thread EXCEPT ![x] = r]

\* It concerns no server.
Quiet(x, r) ==
    /\ UNCHANGED <<runtimes, server, evict, restarts, since>>
    /\ thread[x].pc \notin {"wait", "watch"} /\ r.pc \notin {"wait", "spawn"}
    /\ x \in Servers => thread[x].pc # "idle"
    /\ r.server = NoServer \/ \E s \in Slots : r.server = runtimes[s]
    /\ r.pc \in ServedPC => thread[x].pc \in ServedPC \/ RuntimeServerReady(r.slot, r.profile)
    /\ excused' = excused \/ (thread[x].pc = "recover" /\ excused' = excused \ {runtimes[thread[x].slot]})

\* Files change for the artifact that a thread works for.
Worked(a) == \E x \in Threads : thread[x].pc \in SettlePC /\ ModelOf[thread[x].profile] = a
FilesWorked ==
    \A a \in Artifacts :
        \/ Worked(a)
        \/ /\ a \in cache' => a \in cache
           /\ a \in seeding' => a \in seeding
           /\ file'[a] \in {file[a], "none"}

\* What is in the cache is as good as it was.
FilesSound == \A a \in cache' : file'[a] = "good" \/ (a \in cache /\ file'[a] \in {file[a], "none"})

\* A download begins when there is none, of what is not in the cache.
Downloads(x, r) ==
    /\ r.pc = "download" => Downloading = {} /\ ModelOf[x] \notin cache'
    /\ r.pc = "write" => thread[x].pc = "download"
    /\ cache' \subseteq cache \/ (x \in Profiles /\ thread[x].pc = "download")

QuietStep(x, r) ==
    /\ Moved(x, r) /\ Tidy(x, r) /\ Quiet(x, r)
    /\ FilesWorked /\ FilesSound /\ Downloads(x, r)

\* At most one thread downloads, and what it downloads is not in the cache.
DownloadsOK ==
    /\ \A p, r \in Downloading : p = r
    /\ \A p \in Profiles : thread[p].pc = "download" => ModelOf[p] \notin cache

-----------------------------------------------------------------------------
(* Types *)

LEMMA TypedParts ==
    TypeOK <=> /\ Typed /\ since \in [Slots -> Nat] /\ overlapped \subseteq Slots /\ clashed \subseteq Slots
               /\ inherited \subseteq cache /\ alone \in BOOLEAN
    BY DEF TypeOK, Typed, FilesTyped, PlansTyped, ProcsTyped, EvictRecord, LeftRecord

\* setSlotState writes a slot, or nothing.
LEMMA SlotSet ==
    ASSUME Typed, NEW s \in Slots \cup {NoSlot}, NEW state \in SlotStates, NEW p \in Profiles,
           SetSlotState(s, state, p)
    PROVE  /\ slot' \in [Slots -> SlotRecord]
           /\ \A u \in Slots : u # s => slot'[u] = slot[u]
           /\ s \in Slots => slot'[s].state = state /\ slot'[s].profile = p
           /\ s \notin Slots => UNCHANGED slot
<1>1. WarmProfileModel(s, p) \in Artifacts \cup {NoArtifact}
    BY HostConstants DEF WarmProfileModel
<1>2. slot \in [Slots -> SlotRecord]
    BY DEF Typed
<1> DEFINE r == [state |-> state, profile |-> p, model |-> WarmProfileModel(s, p), task |-> NoTask]
<1>3. r \in SlotRecord /\ r.state = state /\ r.profile = p
    BY <1>1 DEF SlotRecord
<1>4. slot' = IF s = NoSlot THEN slot ELSE [slot EXCEPT ![s] = r]
    BY DEF SetSlotState
<1> HIDE DEF r
<1>5. NoSlot \notin Slots
    BY HostConstants
<1> QED
    BY <1>2, <1>3, <1>4, <1>5

LEMMA ThreadTyped ==
    ASSUME Typed, NEW x \in Threads PROVE thread[x] \in ThreadRecord
    BY DEF Typed

\* The records that threads go on with.
LEMMA IdleOK == ASSUME NEW x PROVE ThreadOK(x, IdleThread) /\ IdleThread \in ThreadRecord
    BY HostConstants DEF ThreadOK, IdleThread, EarlyPC, ThreadRecord, ThreadPC, SettlePC, StartPC

LEMMA PcMoved ==
    ASSUME NEW r \in ThreadRecord, NEW pc \in ThreadPC, NEW r2, r2 = [r EXCEPT !.pc = pc]
    PROVE  /\ r2 \in ThreadRecord /\ r2.pc = pc /\ r2.slot = r.slot /\ r2.profile = r.profile
           /\ r2.server = r.server
    BY DEF ThreadRecord

LEMMA MovedTyped ==
    ASSUME Typed, NEW x \in Threads, NEW r \in ThreadRecord, thread' = [thread EXCEPT ![x] = r]
    PROVE  /\ thread' \in [Threads -> ThreadRecord] /\ thread'[x] = r
           /\ \A y \in Threads : y # x => thread'[y] = thread[y]
    BY DEF Typed

LEMMA MoveProfile ==
    ASSUME NEW p \in Profiles PROVE p \in Threads /\ p \notin Servers /\ p \notin Tasks
    BY HostConstants DEF Threads

LEMMA MoveTask ==
    ASSUME NEW t \in Tasks PROVE t \in Threads /\ t \notin Servers /\ t \notin Profiles
    BY HostConstants DEF Threads

\* Steps that do not touch the files.
LEMMA FilesStay ==
    ASSUME Typed, UNCHANGED <<cache, file, seeding>> PROVE FilesWorked /\ FilesSound
    BY DEF FilesWorked, FilesSound, Typed, FilesTyped

\* The Manager's assignment starts its goroutine.
LEMMA QueueAssignmentQuiet ==
    ASSUME Base, NEW p \in Profiles, NEW s \in Slots \cup {NoSlot}, QueueAssignment(p, s)
    PROVE Typed' /\ \E x \in Threads, r \in ThreadRecord : QuietStep(x, r)
<1> DEFINE r == [IdleThread EXCEPT !.pc = "cache", !.slot = s, !.profile = p]
<1>1. /\ thread' = [thread EXCEPT ![p] = r] /\ assigns' = assigns \cup {p} /\ left.assignments > 0
      /\ left' = [left EXCEPT !.assignments = @ - 1] /\ thread[p].pc = "idle"
      /\ UNCHANGED <<slot, files, warm, cooldown, procs, evict>>
    BY DEF QueueAssignment, Spend, AlreadySatisfied
<1>2. r \in ThreadRecord /\ r.pc = "cache" /\ r.slot = s /\ r.profile = p /\ r.server = NoServer
    BY DEF IdleThread, ThreadRecord, ThreadPC, SettlePC, StartPC
<1> HIDE DEF r
<1>3. p \in Threads /\ p \notin Servers
    BY MoveProfile
<1>4. left' \in LeftRecord
    BY <1>1, HostConstants DEF Base, Typed, LeftRecord
<1>5. thread' \in [Threads -> ThreadRecord]
    BY <1>1, <1>2, <1>3, MovedTyped DEF Base
<1>6. Typed'
    BY <1>1, <1>4, <1>5 DEF Base, Typed, FilesTyped, PlansTyped, ProcsTyped, files, procs
<1>7. thread[p] = IdleThread
    BY <1>1, <1>3 DEF Base, ThreadOK
<1>8. ThreadOK(p, r)
    BY <1>2 DEF ThreadOK, EarlyPC
<1>9. Tidy(p, r)
    BY <1>1, <1>2, <1>7, <1>8, HostConstants DEF Tidy, IdleThread
<1>10. Quiet(p, r) /\ Downloads(p, r)
    BY <1>1, <1>2, <1>3 DEF Quiet, Downloads, procs, files, ServedPC
<1>11. FilesWorked /\ FilesSound
    BY <1>1, FilesStay DEF files, Base
<1> QED
    BY <1>1, <1>2, <1>3, <1>6, <1>9, <1>10, <1>11 DEF QuietStep, Moved


-----------------------------------------------------------------------------
(* Steps that concern no server *)

\* A thread goes on and its slot shows progress.
LEMMA GoTidy ==
    ASSUME Base, NEW x \in Threads, NEW r \in ThreadRecord, ThreadOK(x, r), thread[x].pc # "idle",
           r.pc \notin {"idle", "cache", "admitted", "watch"},
           r.slot = thread[x].slot, r.profile = thread[x].profile,
           NEW state \in InProgress \cup {"serving"}, SetSlotState(thread[x].slot, state, thread[x].profile)
    PROVE Tidy(x, r) /\ slot' \in [Slots -> SlotRecord]
<1> DEFINE s == thread[x].slot
<1>1. s \in Slots \cup {NoSlot} /\ thread[x].profile \in Profiles
    BY ThreadTyped DEF Base, ThreadOK, ThreadRecord
<1>2. state \in SlotStates /\ Typed
    BY DEF SlotStates, InProgress, Base
<1>3. /\ slot' \in [Slots -> SlotRecord]
      /\ \A u \in Slots : u # s => slot'[u] = slot[u]
      /\ s \in Slots => slot'[s].state = state
    BY <1>1, <1>2, SlotSet
<1>4. state \notin {"ready", "idle"}
    BY DEF InProgress
<1> QED
    BY <1>3, <1>4 DEF Tidy

\* It goes on and its slot stays as it is.
LEMMA StayTidy ==
    ASSUME Base, NEW x \in Threads, NEW r \in ThreadRecord, ThreadOK(x, r), thread[x].pc # "idle",
           r.pc \notin {"idle", "cache", "admitted", "watch"},
           r.slot = thread[x].slot, r.profile = thread[x].profile, UNCHANGED slot,
           r.pc = "queue" \/ thread[x].pc \notin {"cache", "queue", "admitted", "reserve"}
    PROVE Tidy(x, r)
    BY DEF Tidy

\* It ends and its slot shows how.
LEMMA EndTidy ==
    ASSUME Base, NEW x \in Threads, thread[x].pc # "idle", NEW state \in {"error", "ready"},
           state = "ready" => thread[x].pc \in ServedPC,
           SetSlotState(thread[x].slot, state, thread[x].profile)
    PROVE Tidy(x, IdleThread) /\ slot' \in [Slots -> SlotRecord]
<1> DEFINE s == thread[x].slot
<1>1. s \in Slots \cup {NoSlot} /\ thread[x].profile \in Profiles
    BY ThreadTyped DEF Base, ThreadOK, ThreadRecord
<1>2. state \in SlotStates /\ Typed
    BY DEF SlotStates, Base
<1>3. /\ slot' \in [Slots -> SlotRecord]
      /\ \A u \in Slots : u # s => slot'[u] = slot[u]
      /\ s \in Slots => slot'[s].state = state /\ slot'[s].profile = thread[x].profile
    BY <1>1, <1>2, SlotSet
<1>4. ThreadOK(x, IdleThread) /\ IdleThread.pc = "idle"
    BY IdleOK DEF IdleThread
<1> HIDE DEF s
<1>5. \A u \in Slots : \/ slot'[u] = slot[u]
                       \/ u = s /\ slot'[u].state = "error"
                       \/ /\ u = s /\ slot'[u].state = "ready"
                          /\ slot'[u].profile = thread[x].profile /\ thread[x].pc \in ServedPC
    BY <1>3
<1>6. s \in Slots => slot'[s].state \in {"error", "ready"}
    BY <1>3
<1> QED
    BY <1>3, <1>4, <1>5, <1>6 DEF Tidy, s

\* It ends without a slot.
LEMMA EndCacheTidy ==
    ASSUME Base, NEW x \in Threads, thread[x].pc # "idle", thread[x].slot = NoSlot, UNCHANGED slot
    PROVE Tidy(x, IdleThread)
<1>1. ThreadOK(x, IdleThread) /\ IdleThread.pc = "idle" /\ NoSlot \notin Slots
    BY IdleOK, HostConstants DEF IdleThread
<1> QED
    BY <1>1 DEF Tidy

\* The servers are as they were.
LEMMA QuietMove ==
    ASSUME Base, NEW x \in Threads, NEW r, UNCHANGED <<procs, evict>>,
           thread[x].pc \notin {"idle", "wait", "watch"}, r.pc \notin {"wait", "spawn"}, r.server = NoServer,
           r.pc \in ServedPC => thread[x].pc \in ServedPC \/ RuntimeServerReady(r.slot, r.profile)
    PROVE Quiet(x, r)
    BY DEF Quiet, procs

\* localFit says no.
LEMMA AssignmentRejectedQuiet ==
    ASSUME Base, NEW p \in Profiles, AssignmentRejected(p)
    PROVE Typed' /\ \E x \in Threads, r \in ThreadRecord : QuietStep(x, r)
<1>1. /\ thread' = [thread EXCEPT ![p] = IdleThread] /\ cooldown' = cooldown \cup {p} /\ thread[p].pc = "cache"
      /\ UNCHANGED <<files, assigns, warm, procs, evict, left>>
    BY DEF AssignmentRejected, FailJob, Finish
<1>2. PICK s \in Slots : SetSlotState(s, "idle", p)
    BY DEF AssignmentRejected
<1>3. p \in Threads
    BY MoveProfile
<1>4. Typed /\ s \in Slots \cup {NoSlot} /\ "idle" \in SlotStates
    BY DEF Base, SlotStates
<1>5. /\ slot' \in [Slots -> SlotRecord] /\ \A u \in Slots : u # s => slot'[u] = slot[u]
      /\ slot'[s].state = "idle"
    BY <1>2, <1>4, SlotSet
<1>6. ThreadOK(p, IdleThread) /\ IdleThread \in ThreadRecord /\ IdleThread.pc = "idle" /\ IdleThread.server = NoServer
    BY IdleOK DEF IdleThread
<1>7. thread' \in [Threads -> ThreadRecord]
    BY <1>1, <1>3, <1>4, <1>6, MovedTyped
<1>8. Typed'
    BY <1>1, <1>4, <1>5, <1>7 DEF Typed, FilesTyped, PlansTyped, ProcsTyped, files, procs
<1>9. \A u \in Slots : slot'[u] = slot[u] \/ slot'[u].state = "idle"
    BY <1>5
<1>10. Tidy(p, IdleThread)
    BY <1>1, <1>6, <1>9 DEF Tidy
<1>11. Quiet(p, IdleThread)
    BY <1>1, <1>3, <1>6, QuietMove DEF ServedPC
<1>12. FilesWorked /\ FilesSound /\ Downloads(p, IdleThread)
    BY <1>1, <1>4, <1>6, FilesStay DEF files, Downloads
<1> QED
    BY <1>1, <1>3, <1>6, <1>8, <1>10, <1>11, <1>12 DEF QuietStep, Moved


\* artifactAlreadyCached keeps the artifact of a thread that works for it, or drops it.
LEMMA KeepVerifiedFiles ==
    ASSUME Base, NEW p \in Profiles, thread[p].pc \in {"cache", "queue"}, KeepVerified(ModelOf[p]),
           UNCHANGED p2p, saved' = saved \/ saved' = cache
    PROVE  /\ FilesWorked /\ FilesSound /\ FilesTyped' /\ cache' \subseteq cache
           /\ ~Verified(ModelOf[p]) => ModelOf[p] \notin cache'
<1> DEFINE a == ModelOf[p]
<1>1. a \in Artifacts /\ p \in Threads
    BY HostConstants, MoveProfile
<1>2. /\ cache \subseteq Artifacts /\ saved \subseteq Artifacts /\ seeding \subseteq Artifacts
      /\ file \in [Artifacts -> {"none", "good", "bad"}] /\ p2p \in BOOLEAN /\ (~p2p => seeding = {})
    BY DEF Base, Typed, FilesTyped
<1>3. Worked(a)
    BY <1>1 DEF Worked, Base, ThreadOK, SettlePC
<1> HIDE DEF a
<1>4. CASE Verified(a)
    <2>1. seeding' = Seed(a) /\ UNCHANGED <<cache, file>>
        BY <1>4 DEF KeepVerified, a
    <2>2. seeding' \subseteq seeding \cup {a} /\ (~p2p => seeding' = seeding)
        BY <2>1 DEF Seed
    <2>3. FilesWorked
        BY <1>2, <1>3, <2>1, <2>2 DEF FilesWorked
    <2>4. FilesSound
        BY <1>2, <2>1 DEF FilesSound
    <2>5. FilesTyped'
        BY <1>1, <1>2, <2>1, <2>2 DEF FilesTyped
    <2> QED
        BY <1>4, <2>1, <2>3, <2>4, <2>5 DEF a
<1>5. CASE ~Verified(a)
    <2>1. /\ cache' = cache \ {a}
          /\ file' = IF a \in cache THEN [file EXCEPT ![a] = "none"] ELSE file
          /\ seeding' = IF a \in cache THEN seeding \ {a} ELSE seeding
        BY <1>5 DEF KeepVerified, a
    <2>2. \A b \in Artifacts : file'[b] \in {file[b], "none"}
        BY <1>2, <2>1
    <2>3. FilesWorked
        BY <2>1, <2>2 DEF FilesWorked
    <2>4. FilesSound
        BY <1>2, <2>1, <2>2 DEF FilesSound
    <2>5. FilesTyped'
        BY <1>2, <2>1 DEF FilesTyped
    <2> QED
        BY <1>5, <2>1, <2>3, <2>4, <2>5 DEF a
<1> QED
    BY <1>4, <1>5

\* The record of an assignment that has its artifact.
LEMMA VerifyOK ==
    ASSUME Base, NEW p \in Profiles, thread[p].pc \in EarlyPC, thread[p].slot # NoSlot, NEW r,
           r = [thread[p] EXCEPT !.pc = "verify", !.snap = {}]
    PROVE  /\ r \in ThreadRecord /\ ThreadOK(p, r) /\ r.pc = "verify" /\ r.server = NoServer
           /\ r.slot = thread[p].slot /\ r.profile = thread[p].profile
<1>1. p \in Threads /\ p \notin Servers /\ p \notin Tasks /\ thread[p] \in ThreadRecord /\ ThreadOK(p, thread[p])
    BY MoveProfile, ThreadTyped DEF Base
<1>2. /\ r \in ThreadRecord /\ r.pc = "verify" /\ r.server = thread[p].server
      /\ r.slot = thread[p].slot /\ r.profile = thread[p].profile
    BY <1>1 DEF ThreadRecord, ThreadPC, SettlePC
<1>3. thread[p].slot \in Slots /\ thread[p].server = NoServer /\ thread[p].profile = p
    BY <1>1 DEF ThreadOK, EarlyPC, ThreadRecord
<1> QED
    BY <1>1, <1>2, <1>3 DEF ThreadOK, EarlyPC

\* The artifact is there.
LEMMA CachedQuiet ==
    ASSUME Base, NEW p \in Profiles, thread[p].pc \in {"cache", "queue"}, KeepVerified(ModelOf[p]), AfterCached(p),
           SetSlotState(thread[p].slot, "loading", p), UNCHANGED <<p2p, plans, procs, evict, left>>
    PROVE Typed' /\ \E x \in Threads, r \in ThreadRecord : QuietStep(x, r)
<1>1. /\ p \in Threads /\ Typed /\ thread[p].pc \in EarlyPC /\ thread[p].pc # "idle"
      /\ thread[p].profile = p /\ thread[p] \in ThreadRecord
    BY MoveProfile, ThreadTyped DEF Base, ThreadOK, EarlyPC
<1>2. saved' = saved \/ saved' = cache
    BY DEF AfterCached
<1>3. FilesWorked /\ FilesSound /\ FilesTyped' /\ cache' \subseteq cache
    BY <1>2, KeepVerifiedFiles
<1>4. PlansTyped' /\ ProcsTyped' /\ evict' \in EvictRecord /\ left' \in LeftRecord
    BY <1>1 DEF Typed, PlansTyped, ProcsTyped, plans, procs
<1>5. CASE thread[p].slot = NoSlot
    <2>1. thread' = [thread EXCEPT ![p] = IdleThread] /\ UNCHANGED slot
        BY <1>5 DEF AfterCached, Finish, SetSlotState
    <2>2. IdleThread \in ThreadRecord /\ IdleThread.pc = "idle" /\ IdleThread.server = NoServer
        BY IdleOK DEF IdleThread
    <2>3. Tidy(p, IdleThread)
        BY <1>1, <1>5, <2>1, EndCacheTidy
    <2>4. Quiet(p, IdleThread)
        BY <1>1, <2>2, QuietMove DEF ServedPC
    <2>5. Downloads(p, IdleThread)
        BY <1>3, <2>2 DEF Downloads
    <2>6. thread' \in [Threads -> ThreadRecord]
        BY <1>1, <2>1, <2>2, MovedTyped
    <2>7. Typed'
        BY <1>1, <1>3, <1>4, <2>1, <2>6 DEF Typed
    <2> QED
        BY <1>1, <1>3, <2>1, <2>2, <2>3, <2>4, <2>5, <2>7 DEF QuietStep, Moved
<1>6. CASE thread[p].slot # NoSlot
    <2> DEFINE r == [thread[p] EXCEPT !.pc = "verify", !.snap = {}]
    <2>1. thread' = [thread EXCEPT ![p] = r]
        BY <1>6 DEF AfterCached
    <2>2. /\ r \in ThreadRecord /\ ThreadOK(p, r) /\ r.pc = "verify" /\ r.server = NoServer
          /\ r.slot = thread[p].slot /\ r.profile = thread[p].profile
        BY <1>1, <1>6, VerifyOK
    <2> HIDE DEF r
    <2>3. SetSlotState(thread[p].slot, "loading", thread[p].profile) /\ "loading" \in InProgress \cup {"serving"}
        BY <1>1 DEF InProgress
    <2>4. Tidy(p, r) /\ slot' \in [Slots -> SlotRecord]
        BY <1>1, <2>2, <2>3, GoTidy
    <2>5. Quiet(p, r)
        BY <1>1, <2>2, QuietMove DEF ServedPC
    <2>6. Downloads(p, r)
        BY <1>3, <2>2 DEF Downloads
    <2>7. thread' \in [Threads -> ThreadRecord]
        BY <1>1, <2>1, <2>2, MovedTyped
    <2>8. Typed'
        BY <1>1, <1>3, <1>4, <2>4, <2>7 DEF Typed
    <2> QED
        BY <1>1, <1>3, <2>1, <2>2, <2>4, <2>5, <2>6, <2>8 DEF QuietStep, Moved
<1> QED
    BY <1>5, <1>6

\* The record of an assignment that goes on within its download.
LEMMA EarlyOK ==
    ASSUME Base, NEW p \in Profiles, thread[p].pc \in EarlyPC, NEW r, r.pc \in EarlyPC,
           r.server = thread[p].server, r.profile = thread[p].profile
    PROVE  ThreadOK(p, r) /\ r.server = NoServer
<1>1. p \in Threads /\ p \notin Servers /\ p \notin Tasks /\ ThreadOK(p, thread[p])
    BY MoveProfile DEF Base
<1>2. thread[p].server = NoServer /\ thread[p].profile = p
    BY <1>1 DEF ThreadOK, EarlyPC
<1> QED
    BY <1>1, <1>2 DEF ThreadOK, EarlyPC

\* ensureSlotCached up to the download queue.
LEMMA EnsureCachedQuiet ==
    ASSUME Base, NEW p \in Profiles, EnsureCached(p)
    PROVE Typed' /\ \E x \in Threads, r \in ThreadRecord : QuietStep(x, r)
<1>1. /\ thread[p].pc = "cache" /\ KeepVerified(ModelOf[p]) /\ UNCHANGED <<p2p, plans, procs, evict, left>>
    BY DEF EnsureCached
<1>2. CASE Verified(ModelOf[p])
    <2>1. SetSlotState(thread[p].slot, "loading", p) /\ AfterCached(p)
        BY <1>2 DEF EnsureCached
    <2> QED
        BY <1>1, <2>1, CachedQuiet
<1>3. CASE ~Verified(ModelOf[p])
    <2> DEFINE r == [thread[p] EXCEPT !.pc = "queue"]
    <2>1. /\ thread' = [thread EXCEPT ![p] = r] /\ UNCHANGED saved
          /\ SetSlotState(thread[p].slot, "download_queued", p) \/ UNCHANGED slot
        BY <1>3 DEF EnsureCached, Goto
    <2>2. /\ p \in Threads /\ Typed /\ thread[p].pc \in EarlyPC /\ thread[p].pc # "idle"
          /\ thread[p].profile = p
        BY <1>1, MoveProfile DEF Base, ThreadOK, EarlyPC
    <2>3. /\ r \in ThreadRecord /\ ThreadOK(p, r) /\ r.pc = "queue" /\ r.server = NoServer
          /\ r.slot = thread[p].slot /\ r.profile = thread[p].profile
        <3>1. thread[p] \in ThreadRecord
            BY <2>2, ThreadTyped
        <3>2. /\ r \in ThreadRecord /\ r.pc = "queue" /\ r.server = thread[p].server
              /\ r.slot = thread[p].slot /\ r.profile = thread[p].profile
            BY <3>1 DEF ThreadRecord, ThreadPC, SettlePC
        <3> HIDE DEF r
        <3>3. r.pc \in EarlyPC
            BY <3>2 DEF EarlyPC
        <3> QED
            BY <2>2, <3>2, <3>3, EarlyOK
    <2> HIDE DEF r
    <2>4. Tidy(p, r) /\ slot' \in [Slots -> SlotRecord]
        <3>1. CASE SetSlotState(thread[p].slot, "download_queued", p)
            <4>1. "download_queued" \in InProgress \cup {"serving"}
                BY DEF InProgress
            <4> QED
                BY <2>2, <2>3, <3>1, <4>1, GoTidy
        <3>2. CASE UNCHANGED slot
            BY <2>2, <2>3, <3>2, StayTidy DEF Typed
        <3> QED
            BY <2>1, <3>1, <3>2
    <2>5. FilesWorked /\ FilesSound /\ FilesTyped' /\ cache' \subseteq cache
        BY <1>1, <2>1, KeepVerifiedFiles
    <2>6. Quiet(p, r) /\ Downloads(p, r)
        BY <1>1, <2>2, <2>3, <2>5, QuietMove DEF ServedPC, Downloads
    <2>7. thread' \in [Threads -> ThreadRecord]
        BY <2>1, <2>2, <2>3, MovedTyped
    <2>8. Typed'
        BY <1>1, <2>2, <2>4, <2>5, <2>7 DEF Typed, PlansTyped, ProcsTyped, plans, procs
    <2> QED
        BY <2>1, <2>2, <2>3, <2>4, <2>5, <2>6, <2>8 DEF QuietStep, Moved
<1> QED
    BY <1>2, <1>3

\* Nobody downloads when the limiter lets a thread in.
LEMMA NoDownload == ASSUME Cardinality(Downloading) < MaxDownloads PROVE Downloading = {}
<1>1. IsFiniteSet(Downloading)
    BY HostConstants, FS_Subset DEF Downloading
<1>2. Cardinality(Downloading) \in Nat /\ (Cardinality(Downloading) = 0 <=> Downloading = {})
    BY <1>1, FS_CardinalityType, FS_EmptySet
<1> QED
    BY <1>2, HostConstants

\* acquireDownloadSlot, and the second look at the cache.
LEMMA AcquireDownloadSlotQuiet ==
    ASSUME Base, NEW p \in Profiles, AcquireDownloadSlot(p)
    PROVE Typed' /\ \E x \in Threads, r \in ThreadRecord : QuietStep(x, r)
<1>1. /\ thread[p].pc = "queue" /\ KeepVerified(ModelOf[p]) /\ UNCHANGED <<p2p, plans, procs, evict, left>>
      /\ Downloading = {}
    BY NoDownload DEF AcquireDownloadSlot
<1>2. CASE Verified(ModelOf[p])
    <2>1. SetSlotState(thread[p].slot, "loading", p) /\ AfterCached(p)
        BY <1>2 DEF AcquireDownloadSlot
    <2> QED
        BY <1>1, <2>1, CachedQuiet
<1>3. CASE ~Verified(ModelOf[p])
    <2> DEFINE r == [thread[p] EXCEPT !.pc = "download"]
    <2>1. /\ thread' = [thread EXCEPT ![p] = r] /\ UNCHANGED saved
          /\ SetSlotState(thread[p].slot, "downloading", p)
        BY <1>3 DEF AcquireDownloadSlot, Goto
    <2>2. /\ p \in Threads /\ Typed /\ thread[p].pc \in EarlyPC /\ thread[p].pc # "idle"
          /\ thread[p].profile = p
        BY <1>1, MoveProfile DEF Base, ThreadOK, EarlyPC
    <2>3. /\ r \in ThreadRecord /\ ThreadOK(p, r) /\ r.pc = "download" /\ r.server = NoServer
          /\ r.slot = thread[p].slot /\ r.profile = thread[p].profile
        <3>1. thread[p] \in ThreadRecord
            BY <2>2, ThreadTyped
        <3>2. /\ r \in ThreadRecord /\ r.pc = "download" /\ r.server = thread[p].server
              /\ r.slot = thread[p].slot /\ r.profile = thread[p].profile
            BY <3>1 DEF ThreadRecord, ThreadPC, SettlePC
        <3> HIDE DEF r
        <3>3. r.pc \in EarlyPC
            BY <3>2 DEF EarlyPC
        <3> QED
            BY <2>2, <3>2, <3>3, EarlyOK
    <2> HIDE DEF r
    <2>4. "downloading" \in InProgress \cup {"serving"}
        BY DEF InProgress
    <2>5. Tidy(p, r) /\ slot' \in [Slots -> SlotRecord]
        BY <2>1, <2>2, <2>3, <2>4, GoTidy
    <2>6. FilesWorked /\ FilesSound /\ FilesTyped' /\ cache' \subseteq cache /\ ModelOf[p] \notin cache'
        BY <1>1, <1>3, <2>1, KeepVerifiedFiles
    <2>7. Quiet(p, r) /\ Downloads(p, r)
        BY <1>1, <2>2, <2>3, <2>6, QuietMove DEF ServedPC, Downloads
    <2>8. thread' \in [Threads -> ThreadRecord]
        BY <2>1, <2>2, <2>3, MovedTyped
    <2>9. Typed'
        BY <1>1, <2>2, <2>5, <2>6, <2>8 DEF Typed, PlansTyped, ProcsTyped, plans, procs
    <2> QED
        BY <2>1, <2>2, <2>3, <2>5, <2>6, <2>7, <2>9 DEF QuietStep, Moved
<1> QED
    BY <1>2, <1>3

\* The download is complete and verified.
LEMMA DownloadArtifactQuiet ==
    ASSUME Base, NEW p \in Profiles, DownloadArtifact(p)
    PROVE Typed' /\ \E x \in Threads, r \in ThreadRecord : QuietStep(x, r)
<1> DEFINE a == ModelOf[p]
           r == [thread[p] EXCEPT !.pc = "write", !.snap = cache \cup {a}]
<1>1. /\ thread[p].pc = "download" /\ UNCHANGED <<slot, saved, p2p, plans, procs, evict, left>>
      /\ file' = [file EXCEPT ![a] = "good"] /\ cache' = cache \cup {a} /\ seeding' = Seed(a)
    BY DEF DownloadArtifact, RecordArtifact
<1>2. thread' = [thread EXCEPT ![p].pc = "write", ![p].snap = cache']
    BY DEF DownloadArtifact, RecordArtifact
<1>3. /\ p \in Threads /\ p \notin Servers /\ p \notin Tasks /\ Typed /\ thread[p] \in ThreadRecord
      /\ ThreadOK(p, thread[p]) /\ a \in Artifacts /\ thread \in [Threads -> ThreadRecord]
    BY MoveProfile, ThreadTyped, HostConstants DEF Base, Typed
<1>4. thread' = [thread EXCEPT ![p] = r]
    BY <1>1, <1>2, <1>3
<1>5. /\ cache \subseteq Artifacts /\ saved \subseteq Artifacts /\ seeding \subseteq Artifacts
      /\ file \in [Artifacts -> {"none", "good", "bad"}] /\ p2p \in BOOLEAN /\ (~p2p => seeding = {})
    BY <1>3 DEF Typed, FilesTyped
<1>6. /\ r \in ThreadRecord /\ r.pc = "write" /\ r.server = thread[p].server /\ r.slot = thread[p].slot
      /\ r.profile = thread[p].profile
    BY <1>3, <1>5 DEF ThreadRecord, ThreadPC, SettlePC
<1> HIDE DEF r
<1>7. thread[p].server = NoServer /\ thread[p].profile = p
    BY <1>1, <1>3 DEF ThreadOK
<1>8. ThreadOK(p, r)
    BY <1>3, <1>6, <1>7 DEF ThreadOK, EarlyPC
<1>9. Tidy(p, r)
    BY <1>1, <1>3, <1>6, <1>8, StayTidy
<1>10. Quiet(p, r) /\ Downloads(p, r)
    BY <1>1, <1>3, <1>6, <1>7, QuietMove DEF ServedPC, Downloads
<1>11. Worked(a)
    BY <1>1, <1>3, <1>7 DEF Worked, SettlePC
<1> HIDE DEF a
<1>12. seeding' \subseteq seeding \cup {a} /\ (~p2p => seeding' = seeding)
    BY <1>1 DEF Seed
<1>13. FilesWorked
    BY <1>1, <1>5, <1>11, <1>12 DEF FilesWorked
<1>14. FilesSound
    BY <1>1, <1>3, <1>5 DEF FilesSound
<1>15. FilesTyped'
    BY <1>1, <1>3, <1>5, <1>12 DEF FilesTyped
<1>16. thread' \in [Threads -> ThreadRecord]
    BY <1>3, <1>4, <1>6, MovedTyped
<1>17. Typed'
    BY <1>1, <1>3, <1>15, <1>16 DEF Typed, PlansTyped, ProcsTyped, plans, procs
<1> QED
    BY <1>3, <1>4, <1>6, <1>9, <1>10, <1>13, <1>14, <1>17 DEF QuietStep, Moved

\* The download fails, and may leave a broken file behind: not one of the cache.
LEMMA DownloadFailsQuiet ==
    ASSUME Base, DownloadsOK, NEW p \in Profiles, DownloadFails(p)
    PROVE Typed' /\ \E x \in Threads, r \in ThreadRecord : QuietStep(x, r)
<1> DEFINE a == ModelOf[p]
<1>1. /\ thread[p].pc = "download" /\ SetSlotState(thread[p].slot, "error", p)
      /\ thread' = [thread EXCEPT ![p] = IdleThread] /\ cooldown' = cooldown \cup {p}
      /\ UNCHANGED <<cache, saved, p2p, seeding, assigns, warm, procs, evict, left>>
    BY DEF DownloadFails, FailJob, Finish
<1>2. /\ p \in Threads /\ Typed /\ thread[p].profile = p /\ a \in Artifacts /\ a \notin cache
    BY <1>1, MoveProfile, HostConstants DEF Base, ThreadOK, DownloadsOK
<1>3. PICK content \in {file[a], "bad"} : file' = [file EXCEPT ![a] = content]
    BY DEF DownloadFails
<1>4. IdleThread \in ThreadRecord /\ IdleThread.pc = "idle" /\ IdleThread.server = NoServer
    BY IdleOK DEF IdleThread
<1>5. Tidy(p, IdleThread) /\ slot' \in [Slots -> SlotRecord]
    BY <1>1, <1>2, EndTidy
<1>6. Quiet(p, IdleThread) /\ Downloads(p, IdleThread)
    BY <1>1, <1>2, <1>4, QuietMove DEF ServedPC, Downloads
<1>7. Worked(a)
    BY <1>1, <1>2 DEF Worked, SettlePC
<1> HIDE DEF a
<1>8. file \in [Artifacts -> {"none", "good", "bad"}] /\ cache \subseteq Artifacts
    BY <1>2 DEF Typed, FilesTyped
<1>9. file' \in [Artifacts -> {"none", "good", "bad"}] /\ \A b \in Artifacts : b # a => file'[b] = file[b]
    BY <1>2, <1>3, <1>8
<1>10. FilesWorked /\ FilesSound
    BY <1>1, <1>2, <1>7, <1>8, <1>9 DEF FilesWorked, FilesSound
<1>11. thread' \in [Threads -> ThreadRecord]
    BY <1>1, <1>2, <1>4, MovedTyped
<1>12. Typed'
    BY <1>1, <1>2, <1>5, <1>9, <1>11 DEF Typed, FilesTyped, PlansTyped, ProcsTyped, procs
<1> QED
    BY <1>1, <1>2, <1>4, <1>5, <1>6, <1>10, <1>12 DEF QuietStep, Moved

\* saveState writes what it has copied.
LEMMA WriteStateQuiet ==
    ASSUME Base, NEW p \in Profiles, WriteState(p)
    PROVE Typed' /\ \E x \in Threads, r \in ThreadRecord : QuietStep(x, r)
<1>1. /\ thread[p].pc = "write" /\ saved' = IF thread[p].slot = NoSlot THEN cache ELSE thread[p].snap
      /\ SetSlotState(thread[p].slot, "loading", p)
      /\ UNCHANGED <<cache, file, p2p, seeding, plans, procs, evict, left>>
    BY DEF WriteState
<1>2. /\ p \in Threads /\ Typed /\ thread[p].pc \in EarlyPC /\ thread[p].pc # "idle"
      /\ thread[p].profile = p /\ thread[p] \in ThreadRecord
    BY <1>1, MoveProfile, ThreadTyped DEF Base, ThreadOK, EarlyPC
<1>3. saved' \subseteq Artifacts
    BY <1>1, <1>2 DEF ThreadRecord, Typed, FilesTyped
<1>4. FilesWorked /\ FilesSound
    BY <1>1, <1>2, FilesStay
<1>5. FilesTyped' /\ PlansTyped' /\ ProcsTyped' /\ evict' \in EvictRecord /\ left' \in LeftRecord
    BY <1>1, <1>2, <1>3 DEF Typed, FilesTyped, PlansTyped, ProcsTyped, plans, procs
<1>6. CASE thread[p].slot = NoSlot
    <2>1. thread' = [thread EXCEPT ![p] = IdleThread] /\ UNCHANGED slot
        BY <1>1, <1>6 DEF WriteState, Finish, SetSlotState
    <2>2. IdleThread \in ThreadRecord /\ IdleThread.pc = "idle" /\ IdleThread.server = NoServer
        BY IdleOK DEF IdleThread
    <2>3. Tidy(p, IdleThread)
        BY <1>2, <1>6, <2>1, EndCacheTidy
    <2>4. Quiet(p, IdleThread) /\ Downloads(p, IdleThread)
        BY <1>1, <1>2, <2>2, QuietMove DEF ServedPC, Downloads
    <2>5. thread' \in [Threads -> ThreadRecord]
        BY <1>2, <2>1, <2>2, MovedTyped
    <2>6. Typed'
        BY <1>2, <1>5, <2>1, <2>5 DEF Typed
    <2> QED
        BY <1>2, <1>4, <2>1, <2>2, <2>3, <2>4, <2>6 DEF QuietStep, Moved
<1>7. CASE thread[p].slot # NoSlot
    <2> DEFINE r == [thread[p] EXCEPT !.pc = "verify", !.snap = {}]
    <2>1. thread' = [thread EXCEPT ![p] = r]
        BY <1>7 DEF WriteState
    <2>2. /\ r \in ThreadRecord /\ ThreadOK(p, r) /\ r.pc = "verify" /\ r.server = NoServer
          /\ r.slot = thread[p].slot /\ r.profile = thread[p].profile
        BY <1>2, <1>7, VerifyOK
    <2> HIDE DEF r
    <2>3. "loading" \in InProgress \cup {"serving"}
        BY DEF InProgress
    <2>4. Tidy(p, r) /\ slot' \in [Slots -> SlotRecord]
        BY <1>1, <1>2, <2>2, <2>3, GoTidy
    <2>5. Quiet(p, r) /\ Downloads(p, r)
        BY <1>1, <1>2, <2>2, QuietMove DEF ServedPC, Downloads
    <2>6. thread' \in [Threads -> ThreadRecord]
        BY <1>2, <2>1, <2>2, MovedTyped
    <2>7. Typed'
        BY <1>2, <1>5, <2>4, <2>6 DEF Typed
    <2> QED
        BY <1>2, <1>4, <2>1, <2>2, <2>4, <2>5, <2>7 DEF QuietStep, Moved
<1> QED
    BY <1>6, <1>7


\* Thread x has its slot's server stopped before it starts another, or gives up.
StopStep(x, r) ==
    /\ Moved(x, r) /\ Tidy(x, r)
    /\ r.pc \in {"spawn", "idle"} /\ thread[x].pc \in {"verify", "reserve"} /\ r.server = NoServer
    /\ StopRuntimeServer(thread[x].slot)
    /\ UNCHANGED <<files, excused, evict>>
    /\ since = restarts => since' = restarts'

LEMMA StopTyped ==
    ASSUME Typed, NEW s \in Slots, StopRuntimeServer(s)
    PROVE  /\ runtimes' \in [Slots -> Servers \cup {NoServer}]
           /\ server' \in [Servers -> [alive : BOOLEAN, profile : Profiles \cup {NoProfile}]]
           /\ runtimes'[s] = NoServer /\ \A u \in Slots : u # s => runtimes'[u] = runtimes[u]
           /\ \A q \in Servers : /\ server'[q].profile = server[q].profile
                                 /\ server'[q].alive => server[q].alive
                                 /\ q # runtimes[s] => server'[q] = server[q]
                                 /\ q = runtimes[s] => ~server'[q].alive
<1>1. /\ runtimes \in [Slots -> Servers \cup {NoServer}]
      /\ server \in [Servers -> [alive : BOOLEAN, profile : Profiles \cup {NoProfile}]]
    BY DEF Typed, ProcsTyped
<1>2. /\ runtimes' \in [Slots -> Servers \cup {NoServer}]
      /\ runtimes'[s] = NoServer /\ \A u \in Slots : u # s => runtimes'[u] = runtimes[u]
    BY <1>1 DEF StopRuntimeServer
<1>3. CASE runtimes[s] = NoServer
    <2>1. server' = server /\ NoServer \notin Servers
        BY <1>3, HostConstants DEF StopRuntimeServer
    <2> QED
        BY <1>1, <1>2, <1>3, <2>1
<1>4. CASE runtimes[s] # NoServer
    <2>1. runtimes[s] \in Servers
        BY <1>1, <1>4
    <2> DEFINE q0 == runtimes[s]
    <2>2. server' = [server EXCEPT ![q0].alive = FALSE]
        BY <1>4 DEF StopRuntimeServer, Kill
    <2> HIDE DEF q0
    <2>3. server' \in [Servers -> [alive : BOOLEAN, profile : Profiles \cup {NoProfile}]]
        BY <1>1, <2>2
    <2>4. \A q \in Servers : /\ server'[q].profile = server[q].profile
                             /\ server'[q].alive => server[q].alive
                             /\ q # q0 => server'[q] = server[q]
                             /\ q = q0 => ~server'[q].alive
        BY <1>1, <2>2
    <2> QED
        BY <1>2, <2>3, <2>4 DEF q0
<1> QED
    BY <1>3, <1>4

\* A thread past its download goes on.
LateRecord(x, r, pc) ==
    /\ r \in ThreadRecord /\ ThreadOK(x, r) /\ r.pc = pc /\ r.server = NoServer
    /\ r.slot = thread[x].slot /\ r.profile = thread[x].profile

LEMMA LateOK ==
    ASSUME Base, NEW x \in Threads, thread[x].pc \notin EarlyPC \cup {"idle"},
           NEW r \in ThreadRecord, r.server = NoServer, r.slot = thread[x].slot, r.profile = thread[x].profile,
           \/ r.pc \in {"spawn", "ready"}
           \/ r.pc = "reserve" /\ x \in Servers \cup Tasks
           \/ r.pc \in {"admitted", "streamed", "recover"} /\ x \in Tasks
    PROVE  LateRecord(x, r, r.pc)
<1>1. thread[x].slot \in Slots /\ thread[x].profile \in Profiles /\ (x \in Profiles => thread[x].profile = x)
    BY DEF Base, ThreadOK
<1> QED
    BY <1>1 DEF ThreadOK, EarlyPC, LateRecord

\* ensureSlotWarm finds the server it wants, or has the old one stopped, or fails.
LEMMA EnsureSlotWarmSteps ==
    ASSUME Base, NEW p \in Profiles, EnsureSlotWarm(p)
    PROVE Typed' /\ \E x \in Threads, r \in ThreadRecord : QuietStep(x, r) \/ StopStep(x, r)
<1> DEFINE s == thread[p].slot
<1>1. thread[p].pc = "verify" /\ UNCHANGED <<files, assigns, warm, restarts, since, excused, evict, left>>
    BY DEF EnsureSlotWarm
<1>2. /\ p \in Threads /\ Typed /\ thread[p].profile = p /\ s \in Slots /\ thread[p] \in ThreadRecord
      /\ thread[p].server = NoServer
    BY <1>1, MoveProfile, ThreadTyped DEF Base, ThreadOK, EarlyPC
<1>3. FilesWorked /\ FilesSound
    BY <1>1, <1>2, FilesStay DEF files
<1>4. FilesTyped' /\ evict' \in EvictRecord /\ left' \in LeftRecord
    BY <1>1, <1>2 DEF Typed, FilesTyped, files
<1>5. CASE /\ SetSlotState(s, "warming", p) /\ UNCHANGED cooldown
           /\ \/ RuntimeServerReady(s, p) /\ Goto(p, "ready") /\ UNCHANGED <<runtimes, server>>
              \/ Goto(p, "spawn") /\ StopRuntimeServer(s)
    <2>1. SetSlotState(thread[p].slot, "warming", thread[p].profile) /\ "warming" \in InProgress \cup {"serving"}
        BY <1>2, <1>5 DEF InProgress
    <2>2. CASE RuntimeServerReady(s, p) /\ Goto(p, "ready") /\ UNCHANGED <<runtimes, server>>
        <3> DEFINE r == [thread[p] EXCEPT !.pc = "ready"]
        <3>1. thread' = [thread EXCEPT ![p] = r]
            BY <2>2 DEF Goto
        <3>2. /\ r \in ThreadRecord /\ r.pc = "ready" /\ r.server = NoServer
              /\ r.slot = thread[p].slot /\ r.profile = thread[p].profile
            BY <1>2 DEF ThreadRecord, ThreadPC, SettlePC
        <3> HIDE DEF r
        <3>3. ThreadOK(p, r)
            BY <1>1, <1>2, <3>2, LateOK DEF EarlyPC, LateRecord
        <3>4. Tidy(p, r) /\ slot' \in [Slots -> SlotRecord]
            BY <1>1, <1>2, <2>1, <3>2, <3>3, GoTidy
        <3>5. UNCHANGED <<procs, evict>> /\ RuntimeServerReady(r.slot, r.profile)
            BY <1>1, <1>2, <2>2, <3>2 DEF procs
        <3>6. Quiet(p, r) /\ Downloads(p, r)
            BY <1>1, <1>2, <3>2, <3>5, QuietMove DEF Downloads, files
        <3>7. thread' \in [Threads -> ThreadRecord]
            BY <1>2, <3>1, <3>2, MovedTyped
        <3>8. Typed'
            BY <1>1, <1>2, <1>4, <1>5, <3>4, <3>5, <3>7 DEF Typed, PlansTyped, ProcsTyped, procs
        <3> QED
            BY <1>2, <1>3, <3>1, <3>2, <3>4, <3>6, <3>8 DEF QuietStep, Moved
    <2>3. CASE Goto(p, "spawn") /\ StopRuntimeServer(s)
        <3> DEFINE r == [thread[p] EXCEPT !.pc = "spawn"]
        <3>1. thread' = [thread EXCEPT ![p] = r]
            BY <2>3 DEF Goto
        <3>2. /\ r \in ThreadRecord /\ r.pc = "spawn" /\ r.server = NoServer
              /\ r.slot = thread[p].slot /\ r.profile = thread[p].profile
            BY <1>2 DEF ThreadRecord, ThreadPC, SettlePC, StartPC
        <3> HIDE DEF r
        <3>3. ThreadOK(p, r)
            BY <1>1, <1>2, <3>2, LateOK DEF EarlyPC, LateRecord
        <3>4. Tidy(p, r) /\ slot' \in [Slots -> SlotRecord]
            BY <1>1, <1>2, <2>1, <3>2, <3>3, GoTidy
        <3>5. /\ runtimes' \in [Slots -> Servers \cup {NoServer}]
              /\ server' \in [Servers -> [alive : BOOLEAN, profile : Profiles \cup {NoProfile}]]
            BY <1>2, <2>3, StopTyped
        <3>6. thread' \in [Threads -> ThreadRecord]
            BY <1>2, <3>1, <3>2, MovedTyped
        <3>7. Typed'
            BY <1>1, <1>2, <1>4, <1>5, <3>4, <3>5, <3>6 DEF Typed, PlansTyped, ProcsTyped
        <3>8. StopStep(p, r)
            BY <1>1, <2>3, <3>1, <3>2, <3>4 DEF StopStep, Moved
        <3> QED
            BY <1>2, <3>2, <3>7, <3>8
    <2> QED
        BY <1>5, <2>2, <2>3
<1>6. CASE SetSlotState(s, "error", p) /\ FailJob(p) /\ UNCHANGED <<runtimes, server>>
    <2>1. thread' = [thread EXCEPT ![p] = IdleThread] /\ cooldown' = cooldown \cup {p}
        BY <1>6 DEF FailJob, Finish
    <2>2. IdleThread \in ThreadRecord /\ IdleThread.pc = "idle" /\ IdleThread.server = NoServer
        BY IdleOK DEF IdleThread
    <2>3. Tidy(p, IdleThread) /\ slot' \in [Slots -> SlotRecord]
        BY <1>1, <1>2, <1>6, EndTidy
    <2>4. UNCHANGED <<procs, evict>>
        BY <1>1, <1>6 DEF procs
    <2>5. Quiet(p, IdleThread) /\ Downloads(p, IdleThread)
        BY <1>1, <1>2, <2>2, <2>4, QuietMove DEF Downloads, files, ServedPC
    <2>6. thread' \in [Threads -> ThreadRecord]
        BY <1>2, <2>1, <2>2, MovedTyped
    <2>7. Typed'
        BY <1>1, <1>2, <1>4, <2>1, <2>3, <2>4, <2>6 DEF Typed, PlansTyped, ProcsTyped, procs
    <2> QED
        BY <1>2, <1>3, <2>1, <2>2, <2>3, <2>5, <2>7 DEF QuietStep, Moved
<1> QED
    BY <1>5, <1>6 DEF EnsureSlotWarm


\* reserveRuntimeRestart: a restart that begins with a stop, or none.
LEMMA ReserveRestartSteps ==
    ASSUME Base, NEW x \in Servers \cup Tasks, ReserveRestart(x)
    PROVE Typed' /\ \E y \in Threads, r \in ThreadRecord : QuietStep(y, r) \/ StopStep(y, r)
<1> DEFINE s == thread[x].slot
<1>1. thread[x].pc = "reserve" /\ UNCHANGED <<files, plans, excused, evict, left>>
    BY DEF ReserveRestart
<1>2. /\ x \in Threads /\ Typed /\ thread[x].profile \in Profiles /\ s \in Slots /\ thread[x] \in ThreadRecord
      /\ thread[x].server = NoServer
    BY <1>1, ThreadTyped DEF Base, ThreadOK, EarlyPC, Threads
<1>3. FilesWorked /\ FilesSound
    BY <1>1, <1>2, FilesStay DEF files
<1>4. /\ FilesTyped' /\ PlansTyped' /\ evict' \in EvictRecord /\ left' \in LeftRecord /\ excused' \subseteq Servers
      /\ restarts \in [Slots -> 0..MaxRestarts]
    BY <1>1, <1>2 DEF Typed, FilesTyped, PlansTyped, ProcsTyped, files, plans
<1>5. CASE /\ restarts[s] < MaxRestarts
           /\ restarts' = [restarts EXCEPT ![s] = @ + 1] /\ since' = [since EXCEPT ![s] = @ + 1]
           /\ SetSlotState(s, "warming", thread[x].profile) /\ StopRuntimeServer(s) /\ Goto(x, "spawn")
    <2> DEFINE r == [thread[x] EXCEPT !.pc = "spawn"]
    <2>1. thread' = [thread EXCEPT ![x] = r] /\ "warming" \in InProgress \cup {"serving"}
        BY <1>5 DEF Goto, InProgress
    <2>2. /\ r \in ThreadRecord /\ r.pc = "spawn" /\ r.server = NoServer
          /\ r.slot = thread[x].slot /\ r.profile = thread[x].profile
        BY <1>2 DEF ThreadRecord, ThreadPC, SettlePC, StartPC
    <2> HIDE DEF r
    <2>3. ThreadOK(x, r)
        BY <1>1, <1>2, <2>2, LateOK DEF EarlyPC, LateRecord
    <2>4. Tidy(x, r) /\ slot' \in [Slots -> SlotRecord]
        BY <1>1, <1>2, <1>5, <2>1, <2>2, <2>3, GoTidy
    <2>5. /\ runtimes' \in [Slots -> Servers \cup {NoServer}]
          /\ server' \in [Servers -> [alive : BOOLEAN, profile : Profiles \cup {NoProfile}]]
        BY <1>2, <1>5, StopTyped
    <2>6. thread' \in [Threads -> ThreadRecord]
        BY <1>2, <2>1, <2>2, MovedTyped
    <2>7. restarts' \in [Slots -> 0..MaxRestarts]
        BY <1>2, <1>4, <1>5, HostConstants
    <2>8. Typed'
        BY <1>4, <2>4, <2>5, <2>6, <2>7 DEF Typed, ProcsTyped
    <2>9. StopStep(x, r)
        BY <1>1, <1>5, <2>1, <2>2, <2>4 DEF StopStep, Moved
    <2> QED
        BY <1>2, <2>2, <2>8, <2>9
<1>6. CASE /\ SetSlotState(s, "error", thread[x].profile) /\ Finish(x) /\ UNCHANGED <<restarts, since>>
           /\ StopRuntimeServer(s) \/ UNCHANGED <<runtimes, server>>
    <2>1. thread' = [thread EXCEPT ![x] = IdleThread]
        BY <1>6 DEF Finish
    <2>2. IdleThread \in ThreadRecord /\ IdleThread.pc = "idle" /\ IdleThread.server = NoServer
        BY IdleOK DEF IdleThread
    <2>3. Tidy(x, IdleThread) /\ slot' \in [Slots -> SlotRecord]
        BY <1>1, <1>2, <1>6, EndTidy
    <2>4. thread' \in [Threads -> ThreadRecord]
        BY <1>2, <2>1, <2>2, MovedTyped
    <2>5. CASE StopRuntimeServer(s)
        <3>1. /\ runtimes' \in [Slots -> Servers \cup {NoServer}]
              /\ server' \in [Servers -> [alive : BOOLEAN, profile : Profiles \cup {NoProfile}]]
            BY <1>2, <2>5, StopTyped
        <3>2. Typed'
            BY <1>4, <1>6, <2>3, <2>4, <3>1 DEF Typed, ProcsTyped
        <3>3. StopStep(x, IdleThread)
            BY <1>1, <1>6, <2>1, <2>2, <2>3, <2>5 DEF StopStep, Moved
        <3> QED
            BY <1>2, <2>2, <3>2, <3>3
    <2>6. CASE UNCHANGED <<runtimes, server>>
        <3>1. UNCHANGED <<procs, evict>>
            BY <1>1, <1>6, <2>6 DEF procs
        <3>2. Quiet(x, IdleThread) /\ Downloads(x, IdleThread)
            BY <1>1, <1>2, <2>2, <3>1, QuietMove DEF Downloads, files, ServedPC
        <3>3. Typed'
            BY <1>2, <1>4, <2>3, <2>4, <3>1 DEF Typed, ProcsTyped, procs
        <3> QED
            BY <1>2, <1>3, <2>1, <2>2, <2>3, <3>2, <3>3 DEF QuietStep, Moved
    <2> QED
        BY <1>6, <2>5, <2>6
<1> QED
    BY <1>5, <1>6 DEF ReserveRestart

\* A start that fails ends its thread.
LEMMA BrokenTidy ==
    ASSUME Base, NEW x \in Threads, thread[x].pc \in StartPC, MarkBroken(x), UNCHANGED <<assigns, warm>>
    PROVE  /\ Moved(x, IdleThread) /\ Tidy(x, IdleThread) /\ slot' \in [Slots -> SlotRecord] /\ PlansTyped'
           /\ thread' \in [Threads -> ThreadRecord]
           /\ IdleThread \in ThreadRecord /\ IdleThread.pc = "idle" /\ IdleThread.server = NoServer
<1>1. thread[x].pc # "idle" /\ Typed
    BY DEF StartPC, Base
<1>2. /\ thread' = [thread EXCEPT ![x] = IdleThread]
      /\ cooldown' = cooldown \/ (x \in Profiles /\ cooldown' = cooldown \cup {x})
      /\ SetSlotState(thread[x].slot, "error", thread[x].profile)
    BY DEF MarkBroken, FailJob, Finish
<1>3. IdleThread \in ThreadRecord /\ IdleThread.pc = "idle" /\ IdleThread.server = NoServer
    BY IdleOK DEF IdleThread
<1>4. Tidy(x, IdleThread) /\ slot' \in [Slots -> SlotRecord]
    BY <1>1, <1>2, EndTidy
<1>5. PlansTyped'
    BY <1>1, <1>2 DEF Typed, PlansTyped
<1> QED
    BY <1>1, <1>2, <1>3, <1>4, <1>5, MovedTyped DEF Moved

\* The slot is ready; an assignment saves the state.
LEMMA MarkReadyQuiet ==
    ASSUME Base, NEW x \in Threads, MarkReady(x)
    PROVE Typed' /\ \E y \in Threads, r \in ThreadRecord : QuietStep(y, r)
<1>1. /\ thread[x].pc = "ready" /\ SetSlotState(thread[x].slot, "ready", thread[x].profile)
      /\ thread' = [thread EXCEPT ![x] = IdleThread] /\ saved' \in {cache, saved}
      /\ UNCHANGED <<cache, file, p2p, seeding, plans, procs, evict, left>>
    BY DEF MarkReady, Finish
<1>2. Typed /\ thread[x].pc \in ServedPC /\ thread[x].pc # "idle"
    BY <1>1 DEF Base, ServedPC
<1>3. IdleThread \in ThreadRecord /\ IdleThread.pc = "idle" /\ IdleThread.server = NoServer
    BY IdleOK DEF IdleThread
<1>4. Tidy(x, IdleThread) /\ slot' \in [Slots -> SlotRecord]
    BY <1>1, <1>2, EndTidy
<1>5. Quiet(x, IdleThread) /\ Downloads(x, IdleThread)
    BY <1>1, <1>3, QuietMove DEF Downloads, ServedPC
<1>6. FilesWorked /\ FilesSound
    BY <1>1, <1>2, FilesStay
<1>7. thread' \in [Threads -> ThreadRecord]
    BY <1>1, <1>2, <1>3, MovedTyped
<1>8. Typed'
    BY <1>1, <1>2, <1>4, <1>7 DEF Typed, FilesTyped, PlansTyped, ProcsTyped, plans, procs
<1> QED
    BY <1>1, <1>3, <1>4, <1>5, <1>6, <1>8 DEF QuietStep, Moved

\* What the steps of a task have in common.
LEMMA TaskFrame ==
    ASSUME Base, NEW t \in Tasks, NEW r \in ThreadRecord, Moved(t, r), Tidy(t, r), Quiet(t, r),
           r.pc \notin {"download", "write"}, slot' \in [Slots -> SlotRecord], excused' \subseteq excused,
           UNCHANGED <<files, plans, runtimes, restarts, server, since, evict, left>>
    PROVE Typed' /\ \E y \in Threads, z \in ThreadRecord : QuietStep(y, z)
<1>1. t \in Threads /\ Typed
    BY MoveTask DEF Base
<1>2. thread' \in [Threads -> ThreadRecord]
    BY <1>1, MovedTyped DEF Moved
<1>3. Typed'
    BY <1>1, <1>2 DEF Typed, FilesTyped, PlansTyped, ProcsTyped, files, plans
<1>4. FilesWorked /\ FilesSound /\ Downloads(t, r)
    BY <1>1, FilesStay DEF files, Downloads
<1> QED
    BY <1>1, <1>3, <1>4 DEF QuietStep


\* A task is admitted.
LEMMA AdmitTaskQuiet ==
    ASSUME Base, NEW t \in Tasks, NEW s \in Slots, NEW p \in Profiles, AdmitTask(t, s, p)
    PROVE Typed' /\ \E y \in Threads, z \in ThreadRecord : QuietStep(y, z)
<1> DEFINE r == [IdleThread EXCEPT !.pc = "admitted", !.slot = s, !.profile = p]
<1>1. /\ thread[t].pc = "idle" /\ thread' = [thread EXCEPT ![t] = r]
      /\ UNCHANGED <<slot, files, plans, procs, evict, left>>
    BY DEF AdmitTask
<1>2. r \in ThreadRecord /\ r.pc = "admitted" /\ r.slot = s /\ r.profile = p /\ r.server = NoServer
    BY DEF IdleThread, ThreadRecord, ThreadPC, SettlePC, StartPC
<1> HIDE DEF r
<1>3. t \in Threads /\ t \notin Servers /\ t \notin Profiles
    BY MoveTask
<1>4. thread[t].slot \notin Slots
    <2>1. thread[t] = IdleThread
        BY <1>1, <1>3 DEF Base, ThreadOK
    <2> QED
        BY <2>1, HostConstants DEF IdleThread
<1>5. ThreadOK(t, r)
    BY <1>2, <1>3 DEF ThreadOK, EarlyPC
<1>6. Tidy(t, r)
    BY <1>1, <1>2, <1>4, <1>5 DEF Tidy
<1>7. Quiet(t, r)
    BY <1>1, <1>2, <1>3 DEF Quiet, procs, ServedPC
<1>8. slot' \in [Slots -> SlotRecord] /\ UNCHANGED <<runtimes, restarts, server, since, excused>>
    BY <1>1 DEF Base, Typed, procs
<1> QED
    BY <1>1, <1>2, <1>6, <1>7, <1>8, TaskFrame DEF Moved

\* The slot serves the task, with its server or without.
LEMMA ServeTaskQuiet ==
    ASSUME Base, NEW t \in Tasks, ServeTask(t)
    PROVE Typed' /\ \E y \in Threads, z \in ThreadRecord : QuietStep(y, z)
<1> DEFINE s == thread[t].slot
           p == thread[t].profile
           v == [state |-> "serving", profile |-> p, model |-> WarmProfileModel(s, p), task |-> t]
<1>1. /\ thread[t].pc = "admitted" /\ slot' = [slot EXCEPT ![s] = v]
      /\ UNCHANGED <<files, plans, procs, evict, left>>
    BY DEF ServeTask
<1>2. t \in Threads /\ t \notin Servers /\ t \notin Profiles /\ Typed
    BY MoveTask DEF Base
<1>3. s \in Slots /\ p \in Profiles /\ thread[t].server = NoServer /\ thread[t] \in ThreadRecord
    BY <1>1, <1>2, ThreadTyped DEF Base, ThreadOK, EarlyPC
<1>4. slot \in [Slots -> SlotRecord] /\ runtimes \in [Slots -> Servers \cup {NoServer}]
    BY <1>2 DEF Typed, ProcsTyped
<1>5. WarmProfileModel(s, p) \in Artifacts \cup {NoArtifact}
    BY <1>3, HostConstants DEF WarmProfileModel
<1>6. v \in SlotRecord /\ v.state = "serving"
    BY <1>3, <1>5 DEF SlotRecord, SlotStates
<1> HIDE DEF s, p, v
<1>7. /\ slot' \in [Slots -> SlotRecord] /\ slot'[s].state = "serving"
      /\ \A u \in Slots : u # s => slot'[u] = slot[u]
    BY <1>1, <1>3, <1>4, <1>6
<1>8. UNCHANGED <<runtimes, restarts, server, since, excused>>
    BY <1>1 DEF procs
<1>9. ASSUME NEW r \in ThreadRecord, thread' = [thread EXCEPT ![t] = r], ThreadOK(t, r), r.slot = s, r.profile = p,
             \/ r.pc = "recover" /\ r.server = NoServer
             \/ r.pc = "stream" /\ RuntimeServerReady(s, p) /\ r.server = runtimes[s]
      PROVE Typed' /\ \E y \in Threads, z \in ThreadRecord : QuietStep(y, z)
    <2>1. Tidy(t, r)
        BY <1>1, <1>7, <1>9 DEF Tidy, s, p
    <2>2. r.server = NoServer \/ \E u \in Slots : r.server = runtimes[u]
        BY <1>3, <1>9
    <2>3. r.pc \in ServedPC => RuntimeServerReady(r.slot, r.profile)
        BY <1>9 DEF ServedPC
    <2>4. Quiet(t, r)
        BY <1>1, <1>2, <1>8, <1>9, <2>2, <2>3 DEF Quiet
    <2> QED
        BY <1>1, <1>7, <1>8, <1>9, <2>1, <2>4, TaskFrame DEF Moved
<1>10. CASE RuntimeServerReady(s, p)
    <2> DEFINE r == [thread[t] EXCEPT !.pc = "stream", !.server = runtimes[s]]
    <2>1. thread' = [thread EXCEPT ![t] = r]
        BY <1>10 DEF ServeTask, s, p
    <2>2. runtimes[s] \in Servers
        BY <1>3, <1>4, <1>10 DEF RuntimeServerReady
    <2>3. r \in ThreadRecord /\ r.pc = "stream" /\ r.slot = s /\ r.profile = p /\ r.server = runtimes[s]
        BY <1>3, <2>2 DEF ThreadRecord, ThreadPC, SettlePC, s, p
    <2> HIDE DEF r
    <2>4. ThreadOK(t, r)
        BY <1>2, <1>3, <2>3 DEF ThreadOK, EarlyPC
    <2> QED
        BY <1>9, <1>10, <2>1, <2>3, <2>4
<1>11. CASE ~RuntimeServerReady(s, p)
    <2> DEFINE r == [thread[t] EXCEPT !.pc = "recover"]
    <2>1. thread' = [thread EXCEPT ![t] = r]
        BY <1>11 DEF ServeTask, s, p
    <2>2. r \in ThreadRecord /\ r.pc = "recover" /\ r.slot = s /\ r.profile = p /\ r.server = NoServer
        BY <1>3 DEF ThreadRecord, ThreadPC, SettlePC, s, p
    <2> HIDE DEF r
    <2>3. ThreadOK(t, r)
        BY <1>2, <1>3, <2>2 DEF ThreadOK, EarlyPC
    <2> QED
        BY <1>9, <2>1, <2>2, <2>3
<1> QED
    BY <1>10, <1>11

\* The stream ends, or fails; the recovery looks at the server.
LEMMA StreamQuiet ==
    ASSUME Base, NEW t \in Tasks, StreamEnds(t) \/ StreamFails(t) \/ RecoverRuntimeSlot(t)
    PROVE Typed' /\ \E y \in Threads, z \in ThreadRecord : QuietStep(y, z)
<1>1. /\ t \in Threads /\ t \notin Servers /\ t \notin Profiles /\ Typed
      /\ thread \in [Threads -> ThreadRecord] /\ thread[t] \in ThreadRecord
    BY MoveTask DEF Base, Typed
<1>2. /\ thread[t].pc \in {"stream", "recover"} /\ UNCHANGED <<slot, files, plans, evict, left>>
      /\ UNCHANGED <<runtimes, restarts, server, since>> /\ excused' \subseteq excused
      /\ excused' = excused \/ (thread[t].pc = "recover" /\ excused' = excused \ {runtimes[thread[t].slot]})
    BY DEF StreamEnds, StreamFails, RecoverRuntimeSlot, procs
<1>3. thread[t].slot \in Slots /\ thread[t].profile \in Profiles /\ (thread[t].pc = "recover" => thread[t].server = NoServer)
    BY <1>1, <1>2 DEF Base, ThreadOK, EarlyPC
<1>4. ASSUME NEW pc \in {"streamed", "recover", "reserve", "ready"}, NEW r,
             r = [thread[t] EXCEPT !.pc = pc, !.server = NoServer],
             thread' = [thread EXCEPT ![t] = r],
             pc \in ServedPC => thread[t].pc = "stream" \/ RuntimeServerReady(thread[t].slot, thread[t].profile)
      PROVE Typed' /\ \E y \in Threads, z \in ThreadRecord : QuietStep(y, z)
    <2>1. /\ r \in ThreadRecord /\ r.pc = pc /\ r.server = NoServer
          /\ r.slot = thread[t].slot /\ r.profile = thread[t].profile
        BY <1>1, <1>4 DEF ThreadRecord, ThreadPC, SettlePC
    <2>2. ThreadOK(t, r)
        BY <1>1, <1>2, <1>4, <2>1, LateOK DEF EarlyPC, LateRecord
    <2>3. Tidy(t, r)
        BY <1>1, <1>2, <2>1, <2>2, StayTidy
    <2>4. Quiet(t, r)
        BY <1>1, <1>2, <1>4, <2>1 DEF Quiet, ServedPC
    <2>5. slot' \in [Slots -> SlotRecord] /\ r.pc \notin {"download", "write"}
        BY <1>1, <1>2, <2>1 DEF Typed
    <2> QED
        BY <1>2, <1>4, <2>1, <2>3, <2>4, <2>5, TaskFrame DEF Moved
<1>5. CASE StreamEnds(t)
    <2>1. thread' = [thread EXCEPT ![t].pc = "streamed", ![t].server = NoServer] /\ thread[t].pc = "stream"
        BY <1>5 DEF StreamEnds
    <2>2. thread' = [thread EXCEPT ![t] = [thread[t] EXCEPT !.pc = "streamed", !.server = NoServer]]
        BY <1>1, <2>1
    <2> QED
        BY <1>4, <2>1, <2>2
<1>6. CASE StreamFails(t)
    <2>1. thread' = [thread EXCEPT ![t].pc = "recover", ![t].server = NoServer]
        BY <1>6 DEF StreamFails
    <2>2. thread' = [thread EXCEPT ![t] = [thread[t] EXCEPT !.pc = "recover", !.server = NoServer]]
        BY <1>1, <2>1
    <2> QED
        BY <1>4, <2>2 DEF ServedPC
<1>7. CASE RecoverRuntimeSlot(t)
    <2>1. thread[t].pc = "recover" /\ thread[t].server = NoServer
        BY <1>3, <1>7 DEF RecoverRuntimeSlot
    <2>2. CASE RuntimeServerReady(thread[t].slot, thread[t].profile) /\ Goto(t, "ready")
        <3>1. thread' = [thread EXCEPT ![t] = [thread[t] EXCEPT !.pc = "ready"]]
            BY <2>2 DEF Goto
        <3>2. [thread[t] EXCEPT !.pc = "ready"] = [thread[t] EXCEPT !.pc = "ready", !.server = NoServer]
            BY <1>1, <2>1 DEF ThreadRecord
        <3> QED
            BY <1>4, <2>2, <3>1, <3>2
    <2>3. CASE Goto(t, "reserve")
        <3>1. thread' = [thread EXCEPT ![t] = [thread[t] EXCEPT !.pc = "reserve"]]
            BY <2>3 DEF Goto
        <3>2. [thread[t] EXCEPT !.pc = "reserve"] = [thread[t] EXCEPT !.pc = "reserve", !.server = NoServer]
            BY <1>1, <2>1 DEF ThreadRecord
        <3> QED
            BY <1>4, <3>1, <3>2 DEF ServedPC
    <2> QED
        BY <1>7, <2>2, <2>3 DEF RecoverRuntimeSlot
<1> QED
    BY <1>5, <1>6, <1>7

LEMMA CompleteTaskQuiet ==
    ASSUME Base, NEW t \in Tasks, CompleteTask(t)
    PROVE Typed' /\ \E y \in Threads, z \in ThreadRecord : QuietStep(y, z)
<1>1. /\ thread[t].pc = "streamed" /\ SetSlotState(thread[t].slot, "ready", thread[t].profile)
      /\ thread' = [thread EXCEPT ![t] = IdleThread]
      /\ UNCHANGED <<files, plans, procs, evict, left>>
    BY DEF CompleteTask, Finish
<1>2. Typed /\ thread[t].pc \in ServedPC /\ thread[t].pc # "idle" /\ t \in Threads
    BY <1>1, MoveTask DEF Base, ServedPC
<1>3. IdleThread \in ThreadRecord /\ IdleThread.pc = "idle" /\ IdleThread.server = NoServer
    BY IdleOK DEF IdleThread
<1>4. Tidy(t, IdleThread) /\ slot' \in [Slots -> SlotRecord]
    BY <1>1, <1>2, EndTidy
<1>5. Quiet(t, IdleThread)
    BY <1>1, <1>2, <1>3, QuietMove DEF ServedPC
<1>6. UNCHANGED <<runtimes, restarts, server, since, excused>>
    BY <1>1 DEF procs
<1> QED
    BY <1>1, <1>3, <1>4, <1>5, <1>6, TaskFrame DEF Moved


-----------------------------------------------------------------------------
(* Steps that concern a server *)

\* A start takes an unused name for its process.
SpawnStep(x, r, q) ==
    /\ Moved(x, r) /\ Tidy(x, r)
    /\ thread[x].pc = "spawn" /\ r.pc = "wait" /\ r.server = q
    /\ q \in Unused
    /\ \E b \in BOOLEAN : server' = [server EXCEPT ![q] = [alive |-> b, profile |-> thread[x].profile]]
    /\ UNCHANGED <<files, runtimes, restarts, since, excused, evict>>

\* It is in the table, and has its watcher.
InstallStep(x, r, q, w) ==
    /\ thread' = [thread EXCEPT ![x] = r, ![q] = w]
    /\ Tidy(x, r) /\ ThreadOK(q, w)
    /\ thread[x].pc = "wait" /\ thread[x].server = q /\ server[q].alive
    /\ r.pc = "ready" /\ r.server = NoServer
    /\ w.pc = "watch" /\ w.server = NoServer /\ w.slot = thread[x].slot
    /\ runtimes' = [runtimes EXCEPT ![thread[x].slot] = q]
    /\ UNCHANGED <<slot, files, server, excused, evict>>
    /\ since = restarts => since' = restarts'

\* A start gives up and kills its process.
FailStep(x) ==
    /\ Moved(x, IdleThread) /\ Tidy(x, IdleThread)
    /\ thread[x].pc = "wait" /\ server' = Kill(thread[x].server)
    /\ UNCHANGED <<files, runtimes, restarts, since, excused, evict>>

LEMMA KillTyped ==
    ASSUME Typed, NEW q \in Servers, server' = Kill(q)
    PROVE  /\ server' \in [Servers -> [alive : BOOLEAN, profile : Profiles \cup {NoProfile}]]
           /\ \A k \in Servers : /\ server'[k].profile = server[k].profile
                                 /\ server'[k].alive => server[k].alive
                                 /\ k = q => ~server'[k].alive
<1>1. server \in [Servers -> [alive : BOOLEAN, profile : Profiles \cup {NoProfile}]]
    BY DEF Typed, ProcsTyped
<1> QED
    BY <1>1 DEF Kill

\* startLlamaServer: a process, or the end of the start.
LEMMA StartLlamaServerSteps ==
    ASSUME Base, NEW x \in Threads, StartLlamaServer(x)
    PROVE Typed' /\ \E r \in ThreadRecord : QuietStep(x, r) \/ \E q \in Servers : SpawnStep(x, r, q)
<1> DEFINE p == thread[x].profile
<1>1. thread[x].pc = "spawn" /\ UNCHANGED <<files, assigns, warm, runtimes, restarts, since, excused, evict, left>>
    BY DEF StartLlamaServer
<1>2. /\ Typed /\ thread \in [Threads -> ThreadRecord] /\ thread[x] \in ThreadRecord /\ thread[x].slot \in Slots
      /\ p \in Profiles /\ thread[x].server = NoServer /\ (x \in Profiles => p = x)
    BY <1>1 DEF Base, Typed, ThreadOK, EarlyPC
<1>3. CASE MarkBroken(x) /\ UNCHANGED server
    <2>1. /\ Moved(x, IdleThread) /\ Tidy(x, IdleThread) /\ slot' \in [Slots -> SlotRecord] /\ PlansTyped'
          /\ thread' \in [Threads -> ThreadRecord]
          /\ IdleThread \in ThreadRecord /\ IdleThread.pc = "idle" /\ IdleThread.server = NoServer
        BY <1>1, <1>3, BrokenTidy DEF StartPC
    <2>2. UNCHANGED <<procs, evict>>
        BY <1>1, <1>3 DEF procs
    <2>3. Quiet(x, IdleThread) /\ Downloads(x, IdleThread)
        BY <1>1, <2>1, <2>2, QuietMove DEF Downloads, files, ServedPC
    <2>4. FilesWorked /\ FilesSound
        BY <1>1, <1>2, FilesStay DEF files
    <2>5. Typed'
        BY <1>1, <1>2, <2>1, <2>2 DEF Typed, FilesTyped, ProcsTyped, files, procs
    <2> QED
        BY <2>1, <2>3, <2>4, <2>5 DEF QuietStep
<1>4. CASE \E q \in Unused :
             /\ server' = [server EXCEPT ![q] = [alive |-> file[ModelOf[p]] # "none", profile |-> p]]
             /\ thread' = [thread EXCEPT ![x].pc = "wait", ![x].server = q]
             /\ UNCHANGED <<slot, cooldown>>
    <2>1. PICK q \in Unused :
             /\ server' = [server EXCEPT ![q] = [alive |-> file[ModelOf[p]] # "none", profile |-> p]]
             /\ thread' = [thread EXCEPT ![x].pc = "wait", ![x].server = q]
             /\ UNCHANGED <<slot, cooldown>>
        BY <1>4
    <2>2. q \in Servers
        BY DEF Unused
    <2> DEFINE r == [thread[x] EXCEPT !.pc = "wait", !.server = q]
    <2>3. thread' = [thread EXCEPT ![x] = r]
        BY <1>2, <2>1
    <2>4. /\ r \in ThreadRecord /\ r.pc = "wait" /\ r.server = q /\ r.slot = thread[x].slot /\ r.profile = p
        BY <1>2, <2>2 DEF ThreadRecord, ThreadPC, SettlePC, StartPC
    <2> HIDE DEF r
    <2>5. ThreadOK(x, r)
        BY <1>2, <2>2, <2>4 DEF ThreadOK, EarlyPC
    <2>6. Tidy(x, r)
        BY <1>1, <2>1, <2>4, <2>5, StayTidy
    <2>7. PICK b \in BOOLEAN : server' = [server EXCEPT ![q] = [alive |-> b, profile |-> p]]
        BY <2>1
    <2>8. SpawnStep(x, r, q)
        BY <1>1, <2>3, <2>4, <2>6, <2>7 DEF SpawnStep, Moved
    <2>9. server' \in [Servers -> [alive : BOOLEAN, profile : Profiles \cup {NoProfile}]]
        BY <1>2, <2>2, <2>7 DEF Typed, ProcsTyped
    <2>10. thread' \in [Threads -> ThreadRecord]
        BY <1>2, <2>3, <2>4, MovedTyped
    <2>11. Typed'
        BY <1>1, <1>2, <2>1, <2>9, <2>10 DEF Typed, FilesTyped, PlansTyped, ProcsTyped, files
    <2> QED
        BY <2>2, <2>4, <2>8, <2>11
<1> QED
    BY <1>3, <1>4 DEF StartLlamaServer

\* The process is ready.
LEMMA InstallServerSteps ==
    ASSUME Base, NEW x \in Threads, InstallServer(x), thread[thread[x].server].pc = "idle"
    PROVE Typed' /\ \E r, w \in ThreadRecord : InstallStep(x, r, thread[x].server, w)
<1> DEFINE s == thread[x].slot
           q == thread[x].server
           r == [thread[x] EXCEPT !.pc = "ready", !.server = NoServer]
           w == [thread[x] EXCEPT !.pc = "watch", !.server = NoServer]
<1>1. /\ thread[x].pc = "wait" /\ server[q].alive /\ runtimes' = [runtimes EXCEPT ![s] = q]
      /\ warm' = warm \cup {thread[x].profile}
      /\ restarts' = IF x \in Profiles THEN [restarts EXCEPT ![s] = 0] ELSE restarts
      /\ since' = IF x \in Profiles THEN [since EXCEPT ![s] = 0] ELSE since
      /\ UNCHANGED <<slot, files, assigns, cooldown, server, excused, evict, left>>
    BY DEF InstallServer
<1>2. /\ Typed /\ thread \in [Threads -> ThreadRecord] /\ thread[x] \in ThreadRecord /\ thread[x].slot \in Slots
      /\ thread[x].profile \in Profiles /\ q \in Servers /\ (x \in Profiles => thread[x].profile = x)
    BY <1>1 DEF Base, Typed, ThreadOK, EarlyPC
<1>3. q \in Threads /\ q # x /\ q \notin Profiles
    BY <1>1, <1>2, HostConstants DEF Threads
<1>4. thread' = [thread EXCEPT ![x] = r, ![q] = w]
    BY <1>2, <1>3 DEF InstallServer
<1>5. /\ r \in ThreadRecord /\ r.pc = "ready" /\ r.server = NoServer /\ r.slot = s /\ r.profile = thread[x].profile
      /\ w \in ThreadRecord /\ w.pc = "watch" /\ w.server = NoServer /\ w.slot = s /\ w.profile = thread[x].profile
    BY <1>2 DEF ThreadRecord, ThreadPC, SettlePC
<1> HIDE DEF r, w, q, s
<1>6. ThreadOK(x, r)
    BY <1>1, <1>2, <1>5, LateOK DEF EarlyPC, LateRecord, s
<1>7. ThreadOK(q, w)
    BY <1>2, <1>3, <1>5 DEF ThreadOK, EarlyPC, s
<1>8. Tidy(x, r)
    BY <1>1, <1>5, <1>6, StayTidy DEF s
<1>9. since = restarts => since' = restarts'
    BY <1>1
<1>10. InstallStep(x, r, q, w)
    BY <1>1, <1>4, <1>5, <1>7, <1>8, <1>9 DEF InstallStep, s, q
<1>11. runtimes' \in [Slots -> Servers \cup {NoServer}] /\ restarts' \in [Slots -> 0..MaxRestarts]
    <2>1. 0 \in 0..MaxRestarts
        BY HostConstants
    <2> QED
        BY <1>1, <1>2, <2>1 DEF Typed, ProcsTyped, s
<1>12. thread' \in [Threads -> ThreadRecord]
    BY <1>2, <1>3, <1>4, <1>5
<1>13. Typed'
    BY <1>1, <1>2, <1>11, <1>12 DEF Typed, FilesTyped, PlansTyped, ProcsTyped, files
<1> QED
    BY <1>5, <1>10, <1>13 DEF q

\* It does not become ready.
LEMMA StartFailsSteps ==
    ASSUME Base, NEW x \in Threads, StartFails(x) PROVE Typed' /\ FailStep(x)
<1>1. /\ thread[x].pc = "wait" /\ server' = Kill(thread[x].server) /\ MarkBroken(x)
      /\ UNCHANGED <<files, assigns, warm, runtimes, restarts, since, excused, evict>>
    BY DEF StartFails
<1>2. Typed /\ thread[x].server \in Servers
    BY <1>1 DEF Base, ThreadOK
<1>3. /\ Moved(x, IdleThread) /\ Tidy(x, IdleThread) /\ slot' \in [Slots -> SlotRecord] /\ PlansTyped'
      /\ thread' \in [Threads -> ThreadRecord]
    BY <1>1, BrokenTidy DEF StartPC
<1>4. server' \in [Servers -> [alive : BOOLEAN, profile : Profiles \cup {NoProfile}]]
    BY <1>1, <1>2, KillTyped
<1>5. left' \in LeftRecord
    BY <1>2, HostConstants DEF StartFails, Spend, Typed, LeftRecord
<1>6. Typed'
    BY <1>1, <1>2, <1>3, <1>4, <1>5 DEF Typed, FilesTyped, ProcsTyped, files
<1> QED
    BY <1>1, <1>3, <1>6 DEF FailStep


LEMMA ServerDiesTyped == ASSUME Base, NEW q \in Servers, ServerDies(q) PROVE Typed'
<1>1. /\ server' = Kill(q) /\ left.failures > 0 /\ left' = [left EXCEPT !.failures = @ - 1] /\ Typed
      /\ UNCHANGED <<slot, files, plans, runtimes, restarts, since, excused, thread, evict>>
    BY DEF ServerDies, Spend, Base
<1>2. left' \in LeftRecord
    BY <1>1, HostConstants DEF Typed, LeftRecord
<1>3. server' \in [Servers -> [alive : BOOLEAN, profile : Profiles \cup {NoProfile}]]
    BY <1>1, KillTyped
<1> QED
    BY <1>1, <1>2, <1>3 DEF Typed, FilesTyped, PlansTyped, ProcsTyped, files, plans

\* The watcher claims the slot of a dead server, or leaves it.
ClaimStep(q, r) ==
    LET s == thread[q].slot
    IN  /\ Moved(q, r) /\ ThreadOK(q, r) /\ thread[q].pc = "watch" /\ ~server[q].alive
        /\ \/ /\ runtimes[s] = q /\ slot[s].state # "serving"
              /\ r.pc = "reserve" /\ r.slot = s /\ r.server = NoServer
              /\ runtimes' = [runtimes EXCEPT ![s] = NoServer] /\ UNCHANGED excused
           \/ /\ r = IdleThread /\ UNCHANGED runtimes
              /\ excused' = IF runtimes[s] = q THEN excused \cup {q} ELSE excused
        /\ UNCHANGED <<slot, files, restarts, since, server, evict>>

LEMMA ClaimSteps ==
    ASSUME Base, NEW q \in Servers, ClaimExitedRuntime(q)
    PROVE Typed' /\ \E r \in ThreadRecord : ClaimStep(q, r)
<1> DEFINE s == thread[q].slot
<1>1. thread[q].pc = "watch" /\ ~server[q].alive /\ UNCHANGED <<slot, files, plans, restarts, server, since, evict, left>>
    BY DEF ClaimExitedRuntime
<1>2. /\ Typed /\ q \in Threads /\ thread[q] \in ThreadRecord /\ s \in Slots /\ thread[q].server = NoServer
      /\ thread[q].profile \in Profiles /\ q \notin Profiles
    BY <1>1, ThreadTyped, HostConstants DEF Base, ThreadOK, EarlyPC, Threads
<1>3. CASE /\ runtimes[s] = q /\ slot[s].state # "serving"
           /\ runtimes' = [runtimes EXCEPT ![s] = NoServer] /\ Goto(q, "reserve") /\ UNCHANGED excused
    <2> DEFINE r == [thread[q] EXCEPT !.pc = "reserve"]
    <2>1. thread' = [thread EXCEPT ![q] = r]
        BY <1>3 DEF Goto
    <2>2. r \in ThreadRecord /\ r.pc = "reserve" /\ r.server = NoServer /\ r.slot = s /\ r.profile = thread[q].profile
        BY <1>2 DEF ThreadRecord, ThreadPC, SettlePC
    <2> HIDE DEF r
    <2>3. ThreadOK(q, r)
        BY <1>1, <1>2, <2>2, LateOK DEF EarlyPC, LateRecord
    <2>4. ClaimStep(q, r)
        BY <1>1, <1>3, <2>1, <2>2, <2>3 DEF ClaimStep, Moved
    <2>5. runtimes' \in [Slots -> Servers \cup {NoServer}]
        BY <1>2, <1>3 DEF Typed, ProcsTyped
    <2>6. thread' \in [Threads -> ThreadRecord]
        BY <1>2, <2>1, <2>2, MovedTyped
    <2>7. Typed'
        BY <1>1, <1>2, <1>3, <2>5, <2>6 DEF Typed, FilesTyped, PlansTyped, ProcsTyped, files, plans
    <2> QED
        BY <2>2, <2>4, <2>7
<1>4. CASE /\ Finish(q) /\ UNCHANGED runtimes
           /\ excused' = IF runtimes[s] = q THEN excused \cup {q} ELSE excused
    <2>1. thread' = [thread EXCEPT ![q] = IdleThread]
        BY <1>4 DEF Finish
    <2>2. ThreadOK(q, IdleThread) /\ IdleThread \in ThreadRecord
        BY IdleOK
    <2>3. ClaimStep(q, IdleThread)
        BY <1>1, <1>4, <2>1, <2>2 DEF ClaimStep, Moved
    <2>4. thread' \in [Threads -> ThreadRecord]
        BY <1>2, <2>1, <2>2, MovedTyped
    <2>5. excused' \subseteq Servers
        BY <1>2, <1>4 DEF Typed, ProcsTyped
    <2>6. Typed'
        BY <1>1, <1>2, <1>4, <2>4, <2>5 DEF Typed, FilesTyped, PlansTyped, ProcsTyped, files, plans
    <2> QED
        BY <2>2, <2>3, <2>6
<1> QED
    BY <1>3, <1>4 DEF ClaimExitedRuntime

\* Evictions, p2p_config messages and the end of a cooldown.
LEMMA PlanEvictionTyped == ASSUME Base, NEW a \in Artifacts, PlanEviction(a) PROVE Typed'
<1> DEFINE using == {s \in Slots : SlotUsesArtifact(s, a)}
           e == [pc |-> "stop", artifact |-> a, path |-> a \in cache, slots |-> using,
                 servers |-> {runtimes[s] : s \in using} \ {NoServer},
                 profiles |-> {p \in assigns \cup warm : ModelOf[p] = a}, snap |-> {}]
<1>1. /\ left.events > 0 /\ left' = [left EXCEPT !.events = @ - 1] /\ Typed
      /\ UNCHANGED <<slot, files, plans, procs, thread>> /\ evict' \in {evict, e}
    BY DEF PlanEviction, Spend, Base
<1>2. left' \in LeftRecord
    BY <1>1, HostConstants DEF Typed, LeftRecord
<1>3. using \subseteq Slots
    OBVIOUS
<1> HIDE DEF using
<1>4. {runtimes[s] : s \in using} \ {NoServer} \subseteq Servers
    BY <1>1, <1>3 DEF Typed, ProcsTyped
<1>5. {p \in assigns \cup warm : ModelOf[p] = a} \subseteq Profiles
    BY <1>1 DEF Typed, PlansTyped
<1>6. e \in EvictRecord
    BY <1>3, <1>4, <1>5 DEF EvictRecord
<1> HIDE DEF e
<1>7. evict' \in EvictRecord
    BY <1>1, <1>6 DEF Typed
<1> QED
    BY <1>1, <1>2, <1>7 DEF Typed, FilesTyped, PlansTyped, ProcsTyped, files, plans, procs

LEMMA NoEvictionTyped == NoEviction \in EvictRecord
    BY DEF NoEviction, EvictRecord

LEMMA StopEvictedTyped == ASSUME Base, StopEvicted PROVE Typed'
<1>1. /\ server' = [q \in Servers |-> [server[q] EXCEPT !.alive = @ /\ q \notin evict.servers]]
      /\ evict' = [evict EXCEPT !.pc = "remove"] /\ Typed
      /\ UNCHANGED <<slot, files, plans, runtimes, restarts, since, excused, thread, left>>
    BY DEF StopEvicted, Base
<1>2. server' \in [Servers -> [alive : BOOLEAN, profile : Profiles \cup {NoProfile}]]
    BY <1>1 DEF Typed, ProcsTyped
<1>3. evict' \in EvictRecord
    BY <1>1 DEF Typed, EvictRecord
<1> QED
    BY <1>1, <1>2, <1>3 DEF Typed, FilesTyped, PlansTyped, ProcsTyped, files, plans

LEMMA RemoveEvictedTyped == ASSUME Base, RemoveEvicted PROVE Typed'
<1>1. /\ seeding' = seeding \ {evict.artifact} /\ Typed
      /\ file' = file \/ file' = [file EXCEPT ![evict.artifact] = "none"]
      /\ evict' = [evict EXCEPT !.pc = "apply"] \/ evict' = NoEviction
      /\ UNCHANGED <<slot, cache, saved, p2p, plans, procs, thread, left>>
    BY DEF RemoveEvicted, Base
<1>2. evict' \in EvictRecord
    BY <1>1, NoEvictionTyped DEF Typed, EvictRecord
<1>3. FilesTyped'
    BY <1>1 DEF Typed, FilesTyped
<1> QED
    BY <1>1, <1>2, <1>3 DEF Typed, PlansTyped, ProcsTyped, plans, procs

LEMMA ApplyEvictionTyped == ASSUME Base, ApplyEviction PROVE Typed'
<1>1. /\ cache' = cache \ {evict.artifact} /\ Typed
      /\ assigns' = assigns \ evict.profiles /\ warm' = warm \ evict.profiles
      /\ runtimes' = [s \in Slots |-> IF s \in evict.slots THEN NoServer ELSE runtimes[s]]
      /\ restarts' = [s \in Slots |-> IF s \in evict.slots THEN 0 ELSE restarts[s]]
      /\ slot' = [s \in Slots |-> IF s \in evict.slots THEN IdleSlot ELSE slot[s]]
      /\ evict' = [evict EXCEPT !.pc = "write", !.snap = cache']
      /\ UNCHANGED <<file, saved, p2p, seeding, cooldown, server, excused, thread, left>>
    BY DEF ApplyEviction, Base
<1>2. IdleSlot \in SlotRecord
    BY DEF IdleSlot, SlotRecord, SlotStates
<1>3. slot' \in [Slots -> SlotRecord]
    BY <1>1, <1>2 DEF Typed
<1>4. 0 \in 0..MaxRestarts
    BY HostConstants
<1>5. ProcsTyped'
    BY <1>1, <1>4 DEF Typed, ProcsTyped
<1>6. evict' \in EvictRecord
    BY <1>1 DEF Typed, FilesTyped, EvictRecord
<1>7. FilesTyped' /\ PlansTyped'
    BY <1>1 DEF Typed, FilesTyped, PlansTyped
<1> QED
    BY <1>1, <1>3, <1>5, <1>6, <1>7 DEF Typed

LEMMA OtherTyped ==
    ASSUME Base,
           \/ ReportEvicted
           \/ \E p \in Profiles : CooldownEnds(p)
           \/ \E enabled \in BOOLEAN : ApplyP2PConfig(enabled)
    PROVE Typed'
<1> Typed
    BY DEF Base
<1>1. CASE ReportEvicted
    <2>1. saved' = evict.snap /\ evict' = NoEviction /\ UNCHANGED <<slot, cache, file, p2p, seeding, plans, procs, thread, left>>
        BY <1>1 DEF ReportEvicted
    <2>2. saved' \subseteq Artifacts
        BY <2>1 DEF Typed, EvictRecord
    <2> QED
        BY <2>1, <2>2, NoEvictionTyped DEF Typed, FilesTyped, PlansTyped, ProcsTyped, plans, procs
<1>2. CASE \E p \in Profiles : CooldownEnds(p)
    BY <1>2 DEF CooldownEnds, Typed, FilesTyped, PlansTyped, ProcsTyped, files, procs
<1>3. CASE \E enabled \in BOOLEAN : ApplyP2PConfig(enabled)
    <2>1. PICK enabled \in BOOLEAN : /\ p2p' = enabled /\ seeding' = (IF enabled THEN cache ELSE {})
                                     /\ left.events > 0 /\ left' = [left EXCEPT !.events = @ - 1]
                                     /\ UNCHANGED <<slot, cache, file, saved, plans, procs, thread, evict>>
        BY <1>3 DEF ApplyP2PConfig, Spend
    <2>2. left' \in LeftRecord
        BY <2>1, HostConstants DEF Typed, LeftRecord
    <2>3. FilesTyped'
        BY <2>1 DEF Typed, FilesTyped
    <2> QED
        BY <2>1, <2>2, <2>3 DEF Typed, PlansTyped, ProcsTyped, plans, procs
<1> QED
    BY <1>1, <1>2, <1>3

\* The next Worker process has the state file and nothing else.
LEMMA NewWorkerTyped == ASSUME Base, Restart PROVE Base'
<1>1. /\ slot' = Fresh /\ cache' = saved /\ p2p' = TRUE /\ seeding' = saved
      /\ assigns' = {} /\ warm' = {} /\ cooldown' = {}
      /\ runtimes' = [s \in Slots |-> NoServer] /\ restarts' = [s \in Slots |-> 0]
      /\ server' = [q \in Servers |-> [alive |-> FALSE, profile |-> NoProfile]]
      /\ excused' = {} /\ thread' = [x \in Threads |-> IdleThread] /\ evict' = NoEviction
      /\ UNCHANGED <<file, saved>>
      /\ left.events > 0 /\ left' = [left EXCEPT !.events = @ - 1] /\ Typed
    BY DEF Restart, Spend, NewWorker, Base
<1>2. left' \in LeftRecord
    BY <1>1, HostConstants DEF Typed, LeftRecord
<1>3. slot' \in [Slots -> SlotRecord]
    BY <1>1 DEF Fresh, IdleSlot, SlotRecord, SlotStates
<1>4. ProcsTyped'
    BY <1>1, HostConstants DEF ProcsTyped
<1>5. FilesTyped' /\ PlansTyped'
    BY <1>1 DEF Typed, FilesTyped, PlansTyped
<1>6. \A x \in Threads : ThreadOK(x, thread'[x]) /\ thread'[x] \in ThreadRecord
    BY <1>1, IdleOK
<1>7. Typed'
    BY <1>1, <1>2, <1>3, <1>4, <1>5, <1>6, NoEvictionTyped DEF Typed
<1> QED
    BY <1>6, <1>7 DEF Base

LEMMA InitBase == ASSUME Init PROVE Base
<1>1. slot \in [Slots -> SlotRecord]
    BY DEF Init, Fresh, IdleSlot, SlotRecord, SlotStates
<1>2. ProcsTyped
    BY HostConstants DEF ProcsTyped, Init
<1>3. FilesTyped /\ PlansTyped
    BY DEF FilesTyped, PlansTyped, Init
<1>4. \A x \in Threads : ThreadOK(x, thread[x]) /\ thread[x] \in ThreadRecord
    BY IdleOK DEF Init
<1>5. left \in LeftRecord
    BY HostConstants DEF Init, LeftRecord
<1>6. Typed
    BY <1>1, <1>2, <1>3, <1>4, <1>5, NoEvictionTyped DEF Typed, Init
<1> QED
    BY <1>4, <1>6 DEF Base

-----------------------------------------------------------------------------
(* Every step is one of a few kinds *)

\* The end of a cooldown, or a p2p_config message: no thread, slot or server changes.
Aside ==
    /\ UNCHANGED <<slot, cache, file, thread, evict, procs>>
    /\ evict.pc = "idle" \/ UNCHANGED seeding

StepKind ==
    \/ \E x \in Threads, r \in ThreadRecord : QuietStep(x, r)
    \/ \E x \in Threads, r \in ThreadRecord : StopStep(x, r)
    \/ \E x \in Threads, r \in ThreadRecord, q \in Servers : SpawnStep(x, r, q)
    \/ \E x \in Threads, q \in Servers, r, w \in ThreadRecord : InstallStep(x, r, q, w)
    \/ \E x \in Threads : FailStep(x)
    \/ \E q \in Servers : ServerDies(q)
    \/ \E q \in Servers, r \in ThreadRecord : ClaimStep(q, r)
    \/ EvictStep
    \/ Aside

\* A process that is waited for has no watcher yet, is not in the table, and is
\* waited for by one thread.
WaitsOK == \A x \in Threads : thread[x].pc = "wait" =>
    /\ thread[thread[x].server].pc = "idle" /\ server[thread[x].server].profile = thread[x].profile
    /\ \A s \in Slots : runtimes[s] # thread[x].server
    /\ \A y \in Threads : thread[y].server = thread[x].server => y = x

LEMMA AsideKind ==
    ASSUME (\E p \in Profiles : CooldownEnds(p)) \/ (\E enabled \in BOOLEAN : ApplyP2PConfig(enabled))
    PROVE  Aside
<1>1. CASE \E p \in Profiles : CooldownEnds(p)
    BY <1>1 DEF Aside, CooldownEnds, files, procs
<1>2. CASE \E enabled \in BOOLEAN : ApplyP2PConfig(enabled)
    BY <1>2 DEF Aside, ApplyP2PConfig, ReadLoopFree, procs
<1> QED
    BY <1>1, <1>2

LEMMA EvictKind == ASSUME Base, EvictStep PROVE Typed'
    BY PlanEvictionTyped, StopEvictedTyped, RemoveEvictedTyped, ApplyEvictionTyped, OtherTyped DEF EvictStep

LEMMA JobKind ==
    ASSUME Base, DownloadsOK, NEW p \in Profiles, JobStep(p) PROVE Typed' /\ StepKind
<1>1. CASE \E s \in Slots \cup {NoSlot} : QueueAssignment(p, s)
    BY <1>1, QueueAssignmentQuiet DEF StepKind
<1>2. CASE CooldownEnds(p)
    BY <1>2, AsideKind, OtherTyped DEF StepKind
<1>3. CASE AssignmentRejected(p)
    BY <1>3, AssignmentRejectedQuiet DEF StepKind
<1>4. CASE EnsureCached(p)
    BY <1>4, EnsureCachedQuiet DEF StepKind
<1>5. CASE AcquireDownloadSlot(p)
    BY <1>5, AcquireDownloadSlotQuiet DEF StepKind
<1>6. CASE DownloadArtifact(p)
    BY <1>6, DownloadArtifactQuiet DEF StepKind
<1>7. CASE DownloadFails(p)
    BY <1>7, DownloadFailsQuiet DEF StepKind
<1>8. CASE WriteState(p)
    BY <1>8, WriteStateQuiet DEF StepKind
<1>9. CASE EnsureSlotWarm(p)
    BY <1>9, EnsureSlotWarmSteps DEF StepKind
<1> QED
    BY <1>1, <1>2, <1>3, <1>4, <1>5, <1>6, <1>7, <1>8, <1>9 DEF JobStep

LEMMA StartKind ==
    ASSUME Base, WaitsOK, NEW x \in Threads, StartStep(x) PROVE Typed' /\ StepKind
<1>1. CASE StartLlamaServer(x)
    BY <1>1, StartLlamaServerSteps DEF StepKind
<1>2. CASE InstallServer(x)
    <2>1. thread[x].pc = "wait"
        BY <1>2 DEF InstallServer
    <2>2. thread[thread[x].server].pc = "idle" /\ thread[x].server \in Servers
        BY <2>1 DEF WaitsOK, Base, ThreadOK
    <2>3. Typed' /\ \E r, w \in ThreadRecord : InstallStep(x, r, thread[x].server, w)
        BY <1>2, <2>2, InstallServerSteps
    <2> QED
        BY <2>2, <2>3 DEF StepKind
<1>3. CASE StartFails(x)
    BY <1>3, StartFailsSteps DEF StepKind
<1>4. CASE MarkReady(x)
    BY <1>4, MarkReadyQuiet DEF StepKind
<1> QED
    BY <1>1, <1>2, <1>3, <1>4 DEF StartStep

LEMMA TaskKind ==
    ASSUME Base, NEW t \in Tasks, TaskStep(t) PROVE Typed' /\ StepKind
<1>1. CASE \E s \in Slots, p \in Profiles : AdmitTask(t, s, p)
    BY <1>1, AdmitTaskQuiet DEF StepKind
<1>2. CASE ServeTask(t)
    BY <1>2, ServeTaskQuiet DEF StepKind
<1>3. CASE StreamEnds(t) \/ StreamFails(t) \/ RecoverRuntimeSlot(t)
    BY <1>3, StreamQuiet DEF StepKind
<1>4. CASE CompleteTask(t)
    BY <1>4, CompleteTaskQuiet DEF StepKind
<1> QED
    BY <1>1, <1>2, <1>3, <1>4 DEF TaskStep

LEMMA StepClasses ==
    ASSUME Base, DownloadsOK, WaitsOK, Step PROVE Typed' /\ StepKind
<1>1. CASE \E p \in Profiles : JobStep(p)
    BY <1>1, JobKind
<1>2. CASE \E x \in Threads : StartStep(x)
    BY <1>2, StartKind
<1>3. CASE \E x \in Servers \cup Tasks : ReserveRestart(x)
    BY <1>3, ReserveRestartSteps DEF StepKind
<1>4. CASE \E q \in Servers : ServerDies(q)
    BY <1>4, ServerDiesTyped DEF StepKind
<1>5. CASE \E q \in Servers : ClaimExitedRuntime(q)
    BY <1>5, ClaimSteps DEF StepKind
<1>6. CASE \E t \in Tasks : TaskStep(t)
    BY <1>6, TaskKind
<1>7. CASE EvictStep
    BY <1>7, EvictKind DEF StepKind
<1>8. CASE \E enabled \in BOOLEAN : ApplyP2PConfig(enabled)
    BY <1>8, AsideKind, OtherTyped DEF StepKind
<1> QED
    BY <1>1, <1>2, <1>3, <1>4, <1>5, <1>6, <1>7, <1>8 DEF Step

-----------------------------------------------------------------------------
(* Threads, downloads and restarts *)

LEMMA BaseKept == ASSUME Base, Typed', StepKind PROVE Base'
<1>1. \A y \in Threads : ThreadOK(y, thread[y])
    BY DEF Base
<1>2. thread \in [Threads -> ThreadRecord] /\ Servers \subseteq Threads
    BY DEF Base, Typed, Threads
<1>3. ASSUME NEW x \in Threads, NEW r, thread' = [thread EXCEPT ![x] = r], ThreadOK(x, r)
      PROVE  \A y \in Threads : ThreadOK(y, thread'[y])
    BY <1>1, <1>2, <1>3
<1>4. CASE \E x \in Threads, r \in ThreadRecord : QuietStep(x, r) \/ StopStep(x, r)
    BY <1>3, <1>4 DEF QuietStep, StopStep, Moved, Tidy, Base
<1>5. CASE \E x \in Threads, r \in ThreadRecord, q \in Servers : SpawnStep(x, r, q)
    BY <1>3, <1>5 DEF SpawnStep, Moved, Tidy, Base
<1>6. CASE \E x \in Threads, q \in Servers, r, w \in ThreadRecord : InstallStep(x, r, q, w)
    <2>1. PICK x \in Threads, q \in Servers, r \in ThreadRecord, w \in ThreadRecord : InstallStep(x, r, q, w)
        BY <1>6
    <2>2. thread' = [thread EXCEPT ![x] = r, ![q] = w] /\ ThreadOK(x, r) /\ ThreadOK(q, w)
        BY <2>1 DEF InstallStep, Tidy
    <2> QED
        BY <1>1, <1>2, <2>2 DEF Base
<1>7. CASE \E x \in Threads : FailStep(x)
    BY <1>3, <1>7 DEF FailStep, Moved, Tidy, Base
<1>8. CASE \E q \in Servers : ServerDies(q)
    BY <1>1, <1>8 DEF ServerDies, Base
<1>9. CASE \E q \in Servers, r \in ThreadRecord : ClaimStep(q, r)
    BY <1>2, <1>3, <1>9 DEF ClaimStep, Moved, Base
<1>10. CASE EvictStep \/ Aside
    <2>1. thread' = thread
        BY <1>10 DEF EvictStep, PlanEviction, StopEvicted, RemoveEvicted, ApplyEviction, ReportEvicted, Aside
    <2> QED
        BY <1>1, <2>1 DEF Base
<1> QED
    BY <1>4, <1>5, <1>6, <1>7, <1>8, <1>9, <1>10 DEF StepKind

\* The history of restarts is what reserveRuntimeRestart counts.
CountsAgree == since = restarts

LEMMA CountsKept == ASSUME CountsAgree, StepKind PROVE CountsAgree'
<1>1. CASE \E x \in Threads, r \in ThreadRecord : QuietStep(x, r) \/ StopStep(x, r)
    BY <1>1 DEF QuietStep, StopStep, Quiet, CountsAgree
<1>2. CASE \E x \in Threads, r \in ThreadRecord, q \in Servers : SpawnStep(x, r, q)
    BY <1>2 DEF SpawnStep, CountsAgree
<1>3. CASE \E x \in Threads, q \in Servers, r, w \in ThreadRecord : InstallStep(x, r, q, w)
    BY <1>3 DEF InstallStep, CountsAgree
<1>4. CASE \E x \in Threads : FailStep(x)
    BY <1>4 DEF FailStep, CountsAgree
<1>5. CASE \E q \in Servers : ServerDies(q)
    BY <1>5 DEF ServerDies, CountsAgree
<1>6. CASE \E q \in Servers, r \in ThreadRecord : ClaimStep(q, r)
    BY <1>6 DEF ClaimStep, CountsAgree
<1>7. CASE ApplyEviction
    BY <1>7 DEF ApplyEviction, CountsAgree
<1>8. CASE (EvictStep /\ ~ApplyEviction) \/ Aside
    BY <1>8 DEF EvictStep, PlanEviction, StopEvicted, RemoveEvicted, ReportEvicted, Aside, procs, CountsAgree
<1> QED
    BY <1>1, <1>2, <1>3, <1>4, <1>5, <1>6, <1>7, <1>8 DEF StepKind

\* A step that moves no thread to a download, and takes nothing into the cache.
LEMMA NoNewDownload ==
    ASSUME DownloadsOK, cache' \subseteq cache,
           \A p \in Profiles : thread'[p].pc \in {"download", "write"} => thread'[p].pc = thread[p].pc
    PROVE  DownloadsOK'
<1>1. Downloading' \subseteq Downloading
    BY DEF Downloading
<1> QED
    BY <1>1 DEF DownloadsOK

LEMMA QuietDownloads ==
    ASSUME Base, DownloadsOK, NEW x \in Threads, NEW r \in ThreadRecord, QuietStep(x, r) PROVE DownloadsOK'
<1>1. /\ thread'[x] = r /\ \A y \in Threads : y # x => thread'[y] = thread[y]
      /\ Downloads(x, r) /\ ThreadOK(x, r)
    BY MovedTyped DEF QuietStep, Moved, Base, Tidy
<1>2. Profiles \subseteq Threads
    BY DEF Threads
<1>3. CASE r.pc \notin {"download", "write"}
    <2>1. \A p \in Profiles : thread'[p].pc \in {"download", "write"} => thread'[p].pc = thread[p].pc /\ p # x
        BY <1>1, <1>2, <1>3
    <2>2. CASE cache' \subseteq cache
        BY <2>1, <2>2, NoNewDownload
    <2>3. CASE x \in Profiles /\ thread[x].pc = "download"
        <3>1. Downloading \subseteq {x}
            BY <2>3 DEF DownloadsOK, Downloading
        <3>2. Downloading' = {}
            BY <2>1, <3>1 DEF Downloading
        <3> QED
            BY <3>2 DEF DownloadsOK, Downloading
    <2> QED
        BY <1>1, <2>2, <2>3 DEF Downloads
<1>4. CASE r.pc = "write"
    <2>1. thread[x].pc = "download" /\ x \in Profiles
        BY <1>1, <1>4 DEF Downloads, ThreadOK, EarlyPC
    <2>2. Downloading' \subseteq Downloading /\ Downloading \subseteq {x}
        BY <1>1, <1>2, <2>1 DEF Downloading, DownloadsOK
    <2>3. \A p \in Profiles : thread'[p].pc # "download"
        BY <1>1, <1>4, <2>2 DEF Downloading
    <2> QED
        BY <2>2, <2>3 DEF DownloadsOK
<1>5. CASE r.pc = "download"
    <2>1. Downloading = {} /\ ModelOf[x] \notin cache'
        BY <1>1, <1>5 DEF Downloads
    <2>2. Downloading' \subseteq {x}
        BY <1>1, <1>2, <2>1 DEF Downloading
    <2> QED
        BY <2>1, <2>2 DEF DownloadsOK, Downloading
<1> QED
    BY <1>3, <1>4, <1>5

LEMMA DownloadsKept == ASSUME Base, DownloadsOK, StepKind PROVE DownloadsOK'
<1>1. thread \in [Threads -> ThreadRecord] /\ Servers \subseteq Threads /\ Profiles \subseteq Threads
    BY DEF Base, Typed, Threads
<1>2. CASE \E x \in Threads, r \in ThreadRecord : QuietStep(x, r)
    BY <1>2, QuietDownloads
<1>3. CASE \E x \in Threads, r \in ThreadRecord : StopStep(x, r)
    BY <1>1, <1>3, NoNewDownload DEF StopStep, Moved, files
<1>4. CASE \E x \in Threads, r \in ThreadRecord, q \in Servers : SpawnStep(x, r, q)
    BY <1>1, <1>4, NoNewDownload DEF SpawnStep, Moved, files
<1>5. CASE \E x \in Threads, q \in Servers, r, w \in ThreadRecord : InstallStep(x, r, q, w)
    BY <1>1, <1>5, NoNewDownload DEF InstallStep, files
<1>6. CASE \E x \in Threads : FailStep(x)
    BY <1>1, <1>6, NoNewDownload DEF FailStep, Moved, files, IdleThread
<1>7. CASE \E q \in Servers : ServerDies(q)
    BY <1>7, NoNewDownload DEF ServerDies, files
<1>8. CASE \E q \in Servers, r \in ThreadRecord : ClaimStep(q, r)
    BY <1>1, <1>8, NoNewDownload DEF ClaimStep, Moved, files, IdleThread
<1>9. CASE EvictStep \/ Aside
    <2>1. thread' = thread /\ cache' \subseteq cache
        BY <1>9 DEF EvictStep, PlanEviction, StopEvicted, RemoveEvicted, ApplyEviction, ReportEvicted, Aside, files
    <2> QED
        BY <2>1, NoNewDownload
<1> QED
    BY <1>2, <1>3, <1>4, <1>5, <1>6, <1>7, <1>8, <1>9 DEF StepKind

LEMMA CacheKept ==
    ASSUME Base, CacheIsVerified, StepKind, inherited' = inherited \cap cache' PROVE CacheIsVerified'
<1>1. /\ thread \in [Threads -> ThreadRecord] /\ cache \subseteq Artifacts
      /\ file \in [Artifacts -> {"none", "good", "bad"}]
    BY DEF Base, Typed, FilesTyped
<1>2. FilesSound => CacheIsVerified'
    BY DEF FilesSound, CacheIsVerified
<1>3. CASE \E x \in Threads, r \in ThreadRecord : QuietStep(x, r)
    BY <1>2, <1>3 DEF QuietStep
<1>4. CASE UNCHANGED <<cache, file>>
    BY <1>4 DEF CacheIsVerified
<1>5. CASE \/ \E x \in Threads, r \in ThreadRecord : StopStep(x, r)
           \/ \E x \in Threads, r \in ThreadRecord, q \in Servers : SpawnStep(x, r, q)
           \/ \E x \in Threads, q \in Servers, r, w \in ThreadRecord : InstallStep(x, r, q, w)
           \/ \E x \in Threads : FailStep(x)
           \/ \E q \in Servers : ServerDies(q)
           \/ \E q \in Servers, r \in ThreadRecord : ClaimStep(q, r)
           \/ Aside
    BY <1>4, <1>5 DEF StopStep, SpawnStep, InstallStep, FailStep, ServerDies, ClaimStep, Aside, files
<1>6. CASE EvictStep
    <2>1. CASE RemoveEvicted
        BY <1>1, <2>1 DEF RemoveEvicted, CacheIsVerified
    <2>2. CASE ApplyEviction
        BY <2>2 DEF ApplyEviction, CacheIsVerified
    <2>3. CASE (\E a \in Artifacts : PlanEviction(a)) \/ StopEvicted \/ ReportEvicted
        BY <1>4, <2>3 DEF PlanEviction, StopEvicted, ReportEvicted, files
    <2> QED
        BY <1>6, <2>1, <2>2, <2>3 DEF EvictStep
<1> QED
    BY <1>3, <1>5, <1>6 DEF StepKind

-----------------------------------------------------------------------------
(* The table of servers, their watchers and their starts *)

\* The table names a server once, and a live one has its watcher there.
TableOK == \A s \in Slots : runtimes[s] # NoServer =>
    /\ \A u \in Slots : runtimes[u] = runtimes[s] => u = s
    /\ server[runtimes[s]].alive => thread[runtimes[s]].pc = "watch"
    /\ thread[runtimes[s]].pc = "watch" => thread[runtimes[s]].slot = s

\* A live server is watched or waited for.
LiveOK == \A q \in Servers : server[q].alive =>
    thread[q].pc = "watch" \/ \E x \in Threads : thread[x].pc = "wait" /\ thread[x].server = q

\* A start has the slot to itself, or the clash is on record.
StartsMeet == \A s \in Slots, x \in Threads : thread[x].slot = s /\ thread[x].pc \in StartPC =>
    /\ Evicting(s) \/ runtimes[s] # NoServer => s \in clashed
    /\ \A y \in Threads : thread[y].slot = s /\ thread[y].pc \in StartPC /\ x # y => s \in clashed

\* So has an eviction: it knows the servers of its slots, and once it has stopped
\* them its slots have none.
EvictsMeet == \A s \in evict.slots :
    /\ evict.pc = "stop" /\ runtimes[s] \notin evict.servers \cup {NoServer} => s \in clashed
    /\ evict.pc \in {"remove", "apply", "write"} /\ runtimes[s] # NoServer /\ server[runtimes[s]].alive =>
          s \in clashed

ProcsOK == WaitsOK /\ TableOK /\ LiveOK /\ StartsMeet /\ NoLostServer

\* What every step but the installation of a server does to them: the table loses
\* only the dead, or what a clash has cost; a watcher of the living stays, and so
\* does whoever waits for one; a start begins where the table is empty.
Calm ==
    /\ \A s \in Slots : runtimes'[s] = runtimes[s]
                        \/ (runtimes'[s] = NoServer /\ (s \in clashed \/ ~server'[runtimes[s]].alive))
    /\ \A q \in Servers : server'[q].alive =>
          \/ server[q].alive
          \/ \E x \in Threads : thread'[x].pc = "wait" /\ thread'[x].server = q
    /\ \A q \in Servers : server'[q].profile = server[q].profile \/ q \in Unused
    /\ \A q \in Servers : server'[q].alive /\ server[q].alive =>
          /\ thread[q].pc = "watch" => thread'[q] = thread[q]
          /\ \A x \in Threads : thread[x].pc = "wait" /\ thread[x].server = q => thread'[x] = thread[x]
    /\ \A q \in Servers : /\ thread'[q].pc = "watch" => thread'[q] = thread[q]
                          /\ thread[q].pc = "idle" => thread'[q].pc = "idle"
    /\ \A x \in Threads : thread'[x].pc \in StartPC =>
          \/ thread[x].pc \in StartPC /\ thread'[x].slot = thread[x].slot
          \/ thread'[x].slot \in Slots => runtimes'[thread'[x].slot] = NoServer
    /\ \A x \in Threads : thread'[x].pc = "wait" =>
          \/ thread'[x] = thread[x]
          \/ /\ thread'[x].server \in Unused /\ server'[thread'[x].server].profile = thread'[x].profile
             /\ \A y \in Threads : thread'[y].server = thread'[x].server => y = x
    /\ \A x \in Threads : thread'[x].server = NoServer \/ thread'[x].server = thread[x].server
                          \/ thread'[x].server \in Unused \/ \E s \in Slots : thread'[x].server = runtimes[s]

LEMMA CalmWaits == ASSUME Base, Base', WaitsOK, Calm PROVE WaitsOK'
<1> SUFFICES ASSUME NEW x \in Threads, thread'[x].pc = "wait"
             PROVE  /\ thread'[thread'[x].server].pc = "idle"
                    /\ server'[thread'[x].server].profile = thread'[x].profile
                    /\ \A s \in Slots : runtimes'[s] # thread'[x].server
                    /\ \A y \in Threads : thread'[y].server = thread'[x].server => y = x
    BY DEF WaitsOK
<1> DEFINE q == thread'[x].server
<1>1. q \in Servers /\ q # NoServer
    BY HostConstants DEF Base, ThreadOK
<1>2. /\ thread'[x] = thread[x] \/ (/\ q \in Unused /\ server'[q].profile = thread'[x].profile
                                    /\ \A y \in Threads : thread'[y].server = q => y = x)
      /\ thread[q].pc = "idle" => thread'[q].pc = "idle"
      /\ server'[q].profile = server[q].profile \/ q \in Unused
      /\ \A s \in Slots : runtimes'[s] = runtimes[s] \/ runtimes'[s] = NoServer
      /\ \A y \in Threads : thread'[y].server = NoServer \/ thread'[y].server = thread[y].server
                            \/ thread'[y].server \in Unused \/ \E s \in Slots : thread'[y].server = runtimes[s]
    BY <1>1 DEF Calm
<1>3. q \in Unused => thread[q].pc = "idle" /\ (\A s \in Slots : runtimes[s] # q) /\ \A y \in Threads : thread[y].server # q
    BY DEF Unused
<1>4. CASE thread'[x] = thread[x]
    <2>1. /\ thread[q].pc = "idle" /\ server[q].profile = thread[x].profile
          /\ \A s \in Slots : runtimes[s] # q
          /\ \A y \in Threads : thread[y].server = q => y = x
        BY <1>4 DEF WaitsOK
    <2>2. q \notin Unused
        BY <1>3, <1>4
    <2> HIDE DEF q
    <2>3. /\ thread'[q].pc = "idle" /\ server'[q].profile = thread'[x].profile
          /\ \A s \in Slots : runtimes'[s] # q
          /\ \A y \in Threads : thread'[y].server = q => y = x
        BY <1>1, <1>2, <1>4, <2>1, <2>2
    <2> QED
        BY <2>3 DEF q
<1>5. CASE thread'[x] # thread[x]
    <2> HIDE DEF q
    <2>1. /\ thread'[q].pc = "idle" /\ server'[q].profile = thread'[x].profile
          /\ \A s \in Slots : runtimes'[s] # q
          /\ \A y \in Threads : thread'[y].server = q => y = x
        BY <1>1, <1>2, <1>3, <1>5
    <2> QED
        BY <2>1 DEF q
<1> QED
    BY <1>4, <1>5

LEMMA CalmTable == ASSUME Base, TableOK, LiveOK, WaitsOK', Calm PROVE TableOK' /\ LiveOK'
<1>1. /\ \A s \in Slots : runtimes'[s] = runtimes[s] \/ runtimes'[s] = NoServer
      /\ \A s \in Slots : runtimes[s] \in Servers \cup {NoServer}
    BY DEF Calm, Base, Typed, ProcsTyped
<1>2. ASSUME NEW q \in Servers, server'[q].alive
      PROVE  \/ \E x \in Threads : thread'[x].pc = "wait" /\ thread'[x].server = q
             \/ server[q].alive /\ thread[q].pc = "watch" /\ thread'[q] = thread[q]
    <2>1. \/ \E x \in Threads : thread'[x].pc = "wait" /\ thread'[x].server = q
          \/ /\ server[q].alive /\ (thread[q].pc = "watch" => thread'[q] = thread[q])
             /\ \A x \in Threads : thread[x].pc = "wait" /\ thread[x].server = q => thread'[x] = thread[x]
        BY <1>2 DEF Calm
    <2>2. server[q].alive => thread[q].pc = "watch" \/ \E x \in Threads : thread[x].pc = "wait" /\ thread[x].server = q
        BY DEF LiveOK
    <2> QED
        BY <2>1, <2>2
<1>3. LiveOK'
    BY <1>2 DEF LiveOK
<1>4. ASSUME NEW s \in Slots, runtimes'[s] # NoServer
      PROVE  /\ \A u \in Slots : runtimes'[u] = runtimes'[s] => u = s
             /\ server'[runtimes'[s]].alive => thread'[runtimes'[s]].pc = "watch"
             /\ thread'[runtimes'[s]].pc = "watch" => thread'[runtimes'[s]].slot = s
    <2> DEFINE q == runtimes[s]
    <2>1. q = runtimes'[s] /\ q \in Servers
        BY <1>1, <1>4
    <2>2. /\ \A u \in Slots : runtimes[u] = q => u = s
          /\ thread[q].pc = "watch" => thread[q].slot = s
        BY <1>4, <2>1 DEF TableOK
    <2>3. thread'[q].pc = "watch" => thread'[q] = thread[q]
        BY <2>1 DEF Calm
    <2>4. \A x \in Threads : thread'[x].pc = "wait" => thread'[x].server # q
        BY <2>1 DEF WaitsOK
    <2> HIDE DEF q
    <2>5. server'[q].alive => thread'[q].pc = "watch"
        BY <1>2, <2>1, <2>4
    <2>6. \A u \in Slots : runtimes'[u] = q => u = s
        BY <1>1, <1>4, <2>1, <2>2
    <2> QED
        BY <2>1, <2>2, <2>3, <2>5, <2>6
<1> QED
    BY <1>3, <1>4 DEF TableOK

\* What the history of clashes records.
ClashRecorded == clashed' = (clashed \cup Clash') \cap Clashing'

LEMMA ThreadsFinite == IsFiniteSet(Threads)
    BY HostConstants, FS_Union DEF Threads

LEMMA ManyElements ==
    ASSUME NEW S, IsFiniteSet(S), NEW x \in S, NEW y \in S, x # y PROVE Cardinality(S) > 1
<1>1. Cardinality(S) \in Nat
    BY FS_CardinalityType
<1>2. Cardinality(S) # 0
    BY FS_EmptySet
<1>3. Cardinality(S) # 1
    <2> SUFFICES ASSUME Cardinality(S) = 1 PROVE FALSE
        OBVIOUS
    <2>1. PICK z : S = {z}
        BY FS_Singleton
    <2> QED
        BY <2>1
<1> QED
    BY <1>1, <1>2, <1>3

LEMMA ClashSeen ==
    ASSUME ClashRecorded, NEW s \in Slots, NEW x \in Threads, thread'[x].slot = s, thread'[x].pc \in StartPC
    PROVE  /\ s \in clashed \/ Evicting(s)' => s \in clashed'
           /\ \A y \in Threads : thread'[y].slot = s /\ thread'[y].pc \in StartPC /\ x # y => s \in clashed'
<1> DEFINE S == Starting(s)'
<1>1. x \in S
    BY DEF Starting, Working, SettlePC
<1>2. s \in Clashing' /\ (Evicting(s)' => s \in Clash')
    BY <1>1 DEF Clashing, Clash
<1>3. s \in clashed \/ Evicting(s)' => s \in clashed'
    BY <1>2 DEF ClashRecorded
<1>4. ASSUME NEW y \in Threads, thread'[y].slot = s, thread'[y].pc \in StartPC, x # y PROVE s \in clashed'
    <2>1. y \in S
        BY <1>4 DEF Starting, Working, SettlePC
    <2>2. S \subseteq Threads
        BY DEF Starting, Working
    <2>3. IsFiniteSet(S)
        BY <2>2, ThreadsFinite, FS_Subset
    <2> HIDE DEF S
    <2>4. Cardinality(S) > 1
        BY <1>1, <1>4, <2>1, <2>3, ManyElements
    <2>5. s \in Clash'
        BY <2>4 DEF Clash, S
    <2> QED
        BY <1>2, <2>5 DEF ClashRecorded
<1> QED
    BY <1>3, <1>4

LEMMA CalmStarts == ASSUME Base, StartsMeet, Calm, ClashRecorded PROVE StartsMeet'
<1> SUFFICES ASSUME NEW s \in Slots, NEW x \in Threads, thread'[x].slot = s, thread'[x].pc \in StartPC
             PROVE  /\ Evicting(s)' \/ runtimes'[s] # NoServer => s \in clashed'
                    /\ \A y \in Threads : thread'[y].slot = s /\ thread'[y].pc \in StartPC /\ x # y => s \in clashed'
    BY DEF StartsMeet
<1>1. /\ s \in clashed \/ Evicting(s)' => s \in clashed'
      /\ \A y \in Threads : thread'[y].slot = s /\ thread'[y].pc \in StartPC /\ x # y => s \in clashed'
    BY ClashSeen
<1>2. runtimes'[s] # NoServer => s \in clashed
    <2>1. (thread[x].pc \in StartPC /\ thread[x].slot = s) \/ runtimes'[s] = NoServer
        BY DEF Calm
    <2>2. runtimes'[s] = runtimes[s] \/ runtimes'[s] = NoServer
        BY DEF Calm
    <2> QED
        BY <2>1, <2>2 DEF StartsMeet
<1> QED
    BY <1>1, <1>2

LEMMA CalmLosesNone ==
    ASSUME Base, TableOK, LiveOK, NoLostServer, Calm, ClashRecorded PROVE NoLostServer'
<1> SUFFICES ASSUME NEW q \in Servers, Lost(q)' PROVE thread'[q].slot \in clashed'
    BY DEF NoLostServer
<1>1. /\ server'[q].alive /\ \A s \in Slots : runtimes'[s] # q
      /\ \A x \in Threads : thread'[x].server = q => thread'[x].pc # "wait"
    BY DEF Lost
<1>2. /\ server[q].alive /\ (thread[q].pc = "watch" => thread'[q] = thread[q])
      /\ \A x \in Threads : thread[x].pc = "wait" /\ thread[x].server = q => thread'[x] = thread[x]
    BY <1>1 DEF Calm
<1>3. \A x \in Threads : thread[x].server = q => thread[x].pc # "wait"
    BY <1>1, <1>2
<1>4. thread[q].pc = "watch" /\ thread'[q] = thread[q] /\ q \in Threads
    BY <1>2, <1>3 DEF LiveOK, Threads
<1>5. thread[q].slot \in Slots
    BY <1>4 DEF Base, ThreadOK, EarlyPC
<1>6. thread[q].slot \in clashed
    <2>1. CASE Lost(q)
        BY <2>1 DEF NoLostServer
    <2>2. CASE ~Lost(q)
        <3>1. PICK s \in Slots : runtimes[s] = q
            BY <1>2, <1>3, <2>2 DEF Lost
        <3>2. s \in clashed
            BY <1>1, <3>1 DEF Calm
        <3>3. thread[q].slot = s
            BY <1>4, <3>1, HostConstants DEF TableOK
        <3> QED
            BY <3>2, <3>3
    <2> QED
        BY <2>1, <2>2
<1>7. thread'[q].slot \in Clashing'
    BY <1>4, <1>5 DEF Clashing
<1> QED
    BY <1>4, <1>6, <1>7 DEF ClashRecorded

LEMMA CalmProcs ==
    ASSUME Base, Base', ProcsOK, Calm, ClashRecorded PROVE ProcsOK'
    BY CalmWaits, CalmTable, CalmStarts, CalmLosesNone DEF ProcsOK

\* The kinds of step that are calm.
LEMMA QuietCalm ==
    ASSUME Base, NEW x \in Threads, NEW r \in ThreadRecord, QuietStep(x, r) PROVE Calm
<1>1. /\ thread'[x] = r /\ \A y \in Threads : y # x => thread'[y] = thread[y]
    BY MovedTyped DEF QuietStep, Moved, Base
<1>2. Tidy(x, r) /\ Quiet(x, r)
    BY DEF QuietStep
<1>3. /\ thread[x].pc \notin {"wait", "watch"} /\ r.pc \notin {"wait", "spawn", "watch"}
      /\ x \in Servers => thread[x].pc # "idle"
      /\ r.server = NoServer \/ \E s \in Slots : r.server = runtimes[s]
      /\ UNCHANGED <<runtimes, server>>
    BY <1>2 DEF Tidy, Quiet
<1>4. Servers \subseteq Threads
    BY DEF Threads
<1> QED
    BY <1>1, <1>3, <1>4 DEF Calm, StartPC

LEMMA StopCalm ==
    ASSUME Base, NEW x \in Threads, NEW r \in ThreadRecord, StopStep(x, r) PROVE Calm
<1>1. /\ thread'[x] = r /\ \A y \in Threads : y # x => thread'[y] = thread[y]
    BY MovedTyped DEF StopStep, Moved, Base
<1>2. /\ r.pc \in {"spawn", "idle"} /\ thread[x].pc \in {"verify", "reserve"} /\ r.server = NoServer
      /\ r.pc = "spawn" => r.slot = thread[x].slot
      /\ StopRuntimeServer(thread[x].slot)
    BY DEF StopStep, Tidy
<1>3. thread[x].slot \in Slots /\ Typed
    BY <1>2 DEF Base, ThreadOK, EarlyPC
<1> DEFINE s == thread[x].slot
<1>4. /\ runtimes'[s] = NoServer /\ \A u \in Slots : u # s => runtimes'[u] = runtimes[u]
      /\ \A q \in Servers : /\ server'[q].profile = server[q].profile
                            /\ server'[q].alive => server[q].alive
                            /\ q = runtimes[s] => ~server'[q].alive
    BY <1>2, <1>3, StopTyped
<1>5. Servers \subseteq Threads /\ runtimes[s] \in Servers \cup {NoServer}
    BY <1>3 DEF Threads, Typed, ProcsTyped
<1> HIDE DEF s
<1>6. \A u \in Slots : runtimes'[u] = runtimes[u]
                       \/ (runtimes'[u] = NoServer /\ ~server'[runtimes[u]].alive)
    <2>1. CASE runtimes[s] = NoServer
        BY <1>4, <2>1
    <2>2. CASE runtimes[s] # NoServer
        BY <1>4, <1>5, <2>2
    <2> QED
        BY <2>1, <2>2
<1>7. \A y \in Threads : thread'[y].pc \in StartPC =>
          \/ thread[y].pc \in StartPC /\ thread'[y].slot = thread[y].slot
          \/ runtimes'[thread'[y].slot] = NoServer
    BY <1>1, <1>2, <1>4 DEF s, StartPC
<1> QED
    BY <1>1, <1>2, <1>4, <1>5, <1>6, <1>7 DEF Calm

LEMMA SpawnCalm ==
    ASSUME Base, NEW x \in Threads, NEW r \in ThreadRecord, NEW q \in Servers, SpawnStep(x, r, q) PROVE Calm
<1>1. /\ thread'[x] = r /\ \A y \in Threads : y # x => thread'[y] = thread[y]
    BY MovedTyped DEF SpawnStep, Moved, Base
<1>2. /\ thread[x].pc = "spawn" /\ r.pc = "wait" /\ r.server = q /\ q \in Unused
      /\ r.slot = thread[x].slot /\ r.profile = thread[x].profile /\ UNCHANGED runtimes
    BY DEF SpawnStep, Tidy
<1>3. PICK b \in BOOLEAN : server' = [server EXCEPT ![q] = [alive |-> b, profile |-> thread[x].profile]]
    BY DEF SpawnStep
<1>4. /\ server'[q].profile = thread[x].profile /\ \A k \in Servers : k # q => server'[k] = server[k]
    BY <1>3 DEF Base, Typed, ProcsTyped
<1>5. ~server[q].alive /\ thread[q].pc = "idle" /\ \A y \in Threads : thread[y].server # q
    BY <1>2 DEF Unused
<1>6. Servers \subseteq Threads
    BY DEF Threads
<1>7. \A y \in Threads : thread'[y].server = q => y = x
    BY <1>1, <1>5
<1>8. \A k \in Servers : /\ server'[k].alive => \/ server[k].alive
                                                \/ \E y \in Threads : thread'[y].pc = "wait" /\ thread'[y].server = k
                         /\ server'[k].profile = server[k].profile \/ k \in Unused
    BY <1>1, <1>2, <1>4
<1>9. \A k \in Servers : server[k].alive =>
          /\ thread[k].pc = "watch" => thread'[k] = thread[k]
          /\ \A y \in Threads : thread[y].pc = "wait" /\ thread[y].server = k => thread'[y] = thread[y]
    BY <1>1, <1>2, <1>6
<1>10. \A k \in Servers : /\ thread'[k].pc = "watch" => thread'[k] = thread[k]
                          /\ thread[k].pc = "idle" => thread'[k].pc = "idle"
    BY <1>1, <1>2, <1>6
<1>11. \A y \in Threads : thread'[y].pc \in StartPC => thread[y].pc \in StartPC /\ thread'[y].slot = thread[y].slot
    BY <1>1, <1>2 DEF StartPC
<1>12. \A y \in Threads : thread'[y].pc = "wait" =>
          \/ thread'[y] = thread[y]
          \/ /\ thread'[y].server \in Unused /\ server'[thread'[y].server].profile = thread'[y].profile
             /\ \A z \in Threads : thread'[z].server = thread'[y].server => z = y
    BY <1>1, <1>2, <1>4, <1>7
<1>13. \A y \in Threads : thread'[y].server = thread[y].server \/ thread'[y].server \in Unused
    BY <1>1, <1>2
<1> QED
    BY <1>2, <1>8, <1>9, <1>10, <1>11, <1>12, <1>13 DEF Calm

\* A step that starts nothing: threads only leave their starts and their watches.
LEMMA LeavesCalm ==
    ASSUME Base,
           \A s \in Slots : runtimes'[s] = runtimes[s]
                        \/ (runtimes'[s] = NoServer /\ (s \in clashed \/ ~server'[runtimes[s]].alive)),
           \A q \in Servers : server'[q].profile = server[q].profile /\ (server'[q].alive => server[q].alive),
           \A y \in Threads :
              \/ thread'[y] = thread[y]
              \/ /\ thread'[y].pc \notin {"watch", "wait", "spawn"} /\ thread'[y].server = NoServer
                 /\ thread[y].pc # "idle"
                 /\ thread[y].pc = "watch" /\ y \in Servers => ~server'[y].alive
                 /\ thread[y].pc = "wait" => ~server'[thread[y].server].alive
    PROVE Calm
<1>1. Servers \subseteq Threads
    BY DEF Threads
<1> QED
    BY <1>1 DEF Calm, StartPC

LEMMA FailCalm == ASSUME Base, NEW x \in Threads, FailStep(x) PROVE Calm
<1> DEFINE q == thread[x].server
<1>1. IdleThread \in ThreadRecord /\ IdleThread.pc = "idle" /\ IdleThread.server = NoServer /\ Typed
    BY IdleOK DEF IdleThread, Base
<1>2. thread'[x] = IdleThread /\ \A y \in Threads : y # x => thread'[y] = thread[y]
    BY <1>1, MovedTyped DEF FailStep, Moved
<1>3. thread[x].pc = "wait" /\ server' = Kill(q) /\ UNCHANGED runtimes
    BY DEF FailStep
<1>4. q \in Servers
    BY <1>3 DEF Base, ThreadOK
<1>5. \A k \in Servers : /\ server'[k].profile = server[k].profile
                         /\ server'[k].alive => server[k].alive
                         /\ k = q => ~server'[k].alive
    BY <1>1, <1>3, <1>4, KillTyped
<1> QED
    BY <1>1, <1>2, <1>3, <1>4, <1>5, LeavesCalm

LEMMA ClaimCalm ==
    ASSUME Base, NEW q \in Servers, NEW r \in ThreadRecord, ClaimStep(q, r) PROVE Calm
<1>1. q \in Threads /\ Typed
    BY DEF Threads, Base
<1>2. /\ thread'[q] = r /\ \A y \in Threads : y # q => thread'[y] = thread[y]
    BY <1>1, MovedTyped DEF ClaimStep, Moved
<1>3. r.pc \in {"reserve", "idle"} /\ r.server = NoServer /\ thread[q].pc = "watch" /\ ~server[q].alive /\ server' = server
    BY DEF ClaimStep, IdleThread
<1>4. \A s \in Slots : runtimes'[s] = runtimes[s] \/ (runtimes'[s] = NoServer /\ ~server'[runtimes[s]].alive)
    BY <1>1 DEF ClaimStep, Typed, ProcsTyped
<1> QED
    BY <1>2, <1>3, <1>4, LeavesCalm

LEMMA EvictCalm == ASSUME Base, EvictsMeet, EvictStep PROVE Calm
<1>1. thread' = thread
    BY DEF EvictStep, PlanEviction, StopEvicted, RemoveEvicted, ApplyEviction, ReportEvicted
<1>2. CASE StopEvicted
    <2>1. /\ server' = [q \in Servers |-> [server[q] EXCEPT !.alive = @ /\ q \notin evict.servers]]
          /\ UNCHANGED runtimes
        BY <1>2 DEF StopEvicted
    <2>2. \A q \in Servers : server'[q].profile = server[q].profile /\ (server'[q].alive => server[q].alive)
        BY <2>1 DEF Base, Typed, ProcsTyped
    <2> QED
        BY <1>1, <2>1, <2>2, LeavesCalm
<1>3. CASE ApplyEviction
    <2>1. /\ runtimes' = [s \in Slots |-> IF s \in evict.slots THEN NoServer ELSE runtimes[s]]
          /\ UNCHANGED server /\ evict.pc = "apply"
        BY <1>3 DEF ApplyEviction
    <2>2. \A s \in evict.slots : runtimes[s] # NoServer /\ server[runtimes[s]].alive => s \in clashed
        BY <2>1 DEF EvictsMeet
    <2>3. \A s \in Slots : runtimes'[s] = runtimes[s]
                        \/ (runtimes'[s] = NoServer /\ (s \in clashed \/ ~server'[runtimes[s]].alive))
        BY <2>1, <2>2
    <2> QED
        BY <1>1, <2>1, <2>3, LeavesCalm
<1>4. CASE (\E a \in Artifacts : PlanEviction(a)) \/ RemoveEvicted \/ ReportEvicted
    <2>1. UNCHANGED <<runtimes, server>>
        BY <1>4 DEF PlanEviction, RemoveEvicted, ReportEvicted, procs
    <2> QED
        BY <1>1, <2>1, LeavesCalm
<1> QED
    BY <1>2, <1>3, <1>4 DEF EvictStep

\* Every step but the installation of a server.
CalmKind ==
    \/ \E x \in Threads, r \in ThreadRecord : QuietStep(x, r)
    \/ \E x \in Threads, r \in ThreadRecord : StopStep(x, r)
    \/ \E x \in Threads, r \in ThreadRecord, q \in Servers : SpawnStep(x, r, q)
    \/ \E x \in Threads : FailStep(x)
    \/ \E q \in Servers : ServerDies(q)
    \/ \E q \in Servers, r \in ThreadRecord : ClaimStep(q, r)
    \/ EvictStep
    \/ Aside

LEMMA KindCalm == ASSUME Base, EvictsMeet, CalmKind PROVE Calm
<1>1. CASE \E q \in Servers : ServerDies(q)
    <2>1. PICK q \in Servers : server' = Kill(q)
        BY <1>1 DEF ServerDies
    <2>2. UNCHANGED <<thread, runtimes>> /\ Typed
        BY <1>1 DEF ServerDies, Base
    <2>3. \A k \in Servers : server'[k].profile = server[k].profile /\ (server'[k].alive => server[k].alive)
        BY <2>1, <2>2, KillTyped
    <2> QED
        BY <2>2, <2>3, LeavesCalm
<1>2. CASE Aside
    BY <1>2, LeavesCalm DEF Aside, procs
<1> QED
    BY <1>1, <1>2, QuietCalm, StopCalm, SpawnCalm, FailCalm, ClaimCalm, EvictCalm DEF CalmKind

\* The installation: what else the slot had, or starts, has clashed with it.
LEMMA InstallProcs ==
    ASSUME Base, Base', ProcsOK, ClashRecorded,
           NEW x \in Threads, NEW q \in Servers, NEW r \in ThreadRecord, NEW w \in ThreadRecord,
           InstallStep(x, r, q, w)
    PROVE  ProcsOK'
<1> DEFINE s == thread[x].slot
<1>1. /\ thread[x].pc = "wait" /\ thread[x].server = q /\ server[q].alive
      /\ r.pc = "ready" /\ r.server = NoServer
      /\ w.pc = "watch" /\ w.server = NoServer /\ w.slot = s
      /\ UNCHANGED <<server, evict>>
    BY DEF InstallStep
<1>2. s \in Slots /\ q \in Threads /\ q # NoServer
    BY <1>1, HostConstants DEF Base, ThreadOK, EarlyPC, Threads
<1>3. /\ thread[q].pc = "idle" /\ (\A u \in Slots : runtimes[u] # q)
      /\ \A y \in Threads : thread[y].server = q => y = x
    BY <1>1 DEF ProcsOK, WaitsOK
<1>4. x # q
    BY <1>1, <1>3
<1>5. /\ thread'[x] = r /\ thread'[q] = w /\ \A y \in Threads : y # x /\ y # q => thread'[y] = thread[y]
    BY <1>2, <1>4 DEF InstallStep, Base, Typed
<1>6. runtimes'[s] = q /\ \A u \in Slots : u # s => runtimes'[u] = runtimes[u]
    BY <1>2 DEF InstallStep, Base, Typed, ProcsTyped
<1>7. \A u \in Slots : runtimes[u] \in Servers \cup {NoServer}
    BY DEF Base, Typed, ProcsTyped
<1>8. Servers \subseteq Threads
    BY DEF Threads
<1> HIDE DEF s
<1>9. \A y \in Threads : thread'[y].pc \in StartPC => y # x /\ y # q /\ thread'[y] = thread[y]
    BY <1>1, <1>5 DEF StartPC
<1>10. WaitsOK'
    <2> SUFFICES ASSUME NEW y \in Threads, thread'[y].pc = "wait"
                 PROVE  /\ thread'[thread'[y].server].pc = "idle"
                        /\ server'[thread'[y].server].profile = thread'[y].profile
                        /\ \A u \in Slots : runtimes'[u] # thread'[y].server
                        /\ \A z \in Threads : thread'[z].server = thread'[y].server => z = y
        BY DEF WaitsOK
    <2> DEFINE k == thread[y].server
    <2>1. y # x /\ y # q /\ thread'[y] = thread[y]
        BY <1>9 DEF StartPC
    <2>2. k \in Servers /\ k # NoServer /\ k \in Threads
        <3>1. thread[y].pc = "wait" /\ ThreadOK(y, thread[y])
            BY <2>1 DEF Base
        <3> QED
            BY <1>8, <3>1, HostConstants DEF ThreadOK
    <2>3. /\ thread[k].pc = "idle" /\ server[k].profile = thread[y].profile
          /\ \A u \in Slots : runtimes[u] # k
          /\ \A z \in Threads : thread[z].server = k => z = y
        BY <2>1 DEF ProcsOK, WaitsOK
    <2>4. k # q
        BY <1>1, <2>1, <2>3
    <2> HIDE DEF k
    <2>5. k # x
        BY <1>1, <2>3
    <2>6. thread'[k].pc = "idle" /\ server'[k].profile = thread'[y].profile
        BY <1>1, <1>5, <2>1, <2>2, <2>3, <2>4, <2>5
    <2>7. \A u \in Slots : runtimes'[u] # k
        BY <1>6, <2>3, <2>4
    <2>8. \A z \in Threads : thread'[z].server = k => z = y
        BY <1>1, <1>5, <2>2, <2>3
    <2> QED
        BY <2>1, <2>6, <2>7, <2>8 DEF k
<1>11. TableOK'
    <2> SUFFICES ASSUME NEW u \in Slots, runtimes'[u] # NoServer
                 PROVE  /\ \A v \in Slots : runtimes'[v] = runtimes'[u] => v = u
                        /\ server'[runtimes'[u]].alive => thread'[runtimes'[u]].pc = "watch"
                        /\ thread'[runtimes'[u]].pc = "watch" => thread'[runtimes'[u]].slot = u
        BY DEF TableOK
    <2>1. CASE u = s
        BY <1>1, <1>3, <1>5, <1>6, <2>1
    <2>2. CASE u # s
        <3> DEFINE k == runtimes[u]
        <3>1. runtimes'[u] = k /\ k \in Servers /\ k # q /\ k \in Threads
            BY <1>3, <1>6, <1>7, <1>8, <2>2
        <3>2. /\ \A v \in Slots : runtimes[v] = k => v = u
              /\ server[k].alive => thread[k].pc = "watch"
              /\ thread[k].pc = "watch" => thread[k].slot = u
            BY <3>1, HostConstants DEF ProcsOK, TableOK
        <3> HIDE DEF k
        <3>3. thread'[k] = thread[k] \/ (k = x /\ thread[k].pc = "wait" /\ thread'[k].pc = "ready")
            BY <1>1, <1>5, <3>1
        <3>4. \A v \in Slots : runtimes'[v] = k => v = u
            BY <1>6, <3>1, <3>2
        <3> QED
            BY <1>1, <3>1, <3>2, <3>3, <3>4
    <2> QED
        BY <2>1, <2>2
<1>12. LiveOK'
    <2> SUFFICES ASSUME NEW k \in Servers, server'[k].alive
                 PROVE  thread'[k].pc = "watch" \/ \E y \in Threads : thread'[y].pc = "wait" /\ thread'[y].server = k
        BY DEF LiveOK
    <2>1. CASE k = q
        BY <1>1, <1>5, <2>1
    <2>2. CASE k # q
        <3>1. thread[k].pc = "watch" \/ \E y \in Threads : thread[y].pc = "wait" /\ thread[y].server = k
            BY <1>1 DEF ProcsOK, LiveOK
        <3>2. thread[k].pc = "watch" => thread'[k] = thread[k]
            BY <1>1, <1>5, <1>8, <2>2
        <3>3. \A y \in Threads : thread[y].pc = "wait" /\ thread[y].server = k => thread'[y] = thread[y]
            BY <1>1, <1>3, <1>5, <2>2
        <3> QED
            BY <3>1, <3>2, <3>3
    <2> QED
        BY <2>1, <2>2
<1>13. StartsMeet'
    <2> SUFFICES ASSUME NEW u \in Slots, NEW y \in Threads, thread'[y].slot = u, thread'[y].pc \in StartPC
                 PROVE  /\ Evicting(u)' \/ runtimes'[u] # NoServer => u \in clashed'
                        /\ \A z \in Threads : thread'[z].slot = u /\ thread'[z].pc \in StartPC /\ y # z => u \in clashed'
        BY DEF StartsMeet
    <2>1. /\ u \in clashed \/ Evicting(u)' => u \in clashed'
          /\ \A z \in Threads : thread'[z].slot = u /\ thread'[z].pc \in StartPC /\ y # z => u \in clashed'
        BY ClashSeen
    <2>2. y # x /\ thread[y].slot = u /\ thread[y].pc \in StartPC
        BY <1>9
    <2>3. runtimes'[u] # NoServer => u \in clashed
        <3>1. CASE u = s
            BY <1>1, <2>2, <3>1 DEF ProcsOK, StartsMeet, StartPC, s
        <3>2. CASE u # s
            BY <1>6, <2>2, <3>2 DEF ProcsOK, StartsMeet
        <3> QED
            BY <3>1, <3>2
    <2> QED
        BY <2>1, <2>3
<1>14. NoLostServer'
    <2> SUFFICES ASSUME NEW k \in Servers, Lost(k)' PROVE thread'[k].slot \in clashed'
        BY DEF NoLostServer
    <2>1. /\ server[k].alive /\ \A u \in Slots : runtimes'[u] # k
          /\ \A y \in Threads : thread'[y].server = k => thread'[y].pc # "wait"
        BY <1>1 DEF Lost
    <2>2. k # q
        BY <1>2, <1>6, <2>1
    <2>3. \A y \in Threads : thread[y].server = k => thread[y].pc # "wait"
        BY <1>1, <1>3, <1>5, <2>1, <2>2
    <2>4. thread[k].pc = "watch"
        BY <2>1, <2>3 DEF ProcsOK, LiveOK
    <2>5. thread'[k] = thread[k]
        BY <1>1, <1>5, <1>8, <2>2, <2>4
    <2>6. thread[k].slot \in Slots
        BY <1>8, <2>4 DEF Base, ThreadOK, EarlyPC
    <2>7. thread[k].slot \in clashed
        <3>1. CASE Lost(k)
            BY <3>1 DEF ProcsOK, NoLostServer
        <3>2. CASE ~Lost(k)
            <4>1. PICK u \in Slots : runtimes[u] = k
                BY <2>1, <2>3, <3>2 DEF Lost
            <4>2. u = s
                BY <1>6, <2>1, <4>1
            <4>3. s \in clashed
                BY <1>1, <1>2, <4>1, <4>2, HostConstants DEF ProcsOK, StartsMeet, StartPC, s
            <4>4. thread[k].slot = s
                BY <2>4, <4>1, <4>2, HostConstants DEF ProcsOK, TableOK
            <4> QED
                BY <4>3, <4>4
        <3> QED
            BY <3>1, <3>2
    <2>8. thread'[k].slot \in Clashing'
        BY <2>5, <2>6 DEF Clashing
    <2> QED
        BY <2>5, <2>7, <2>8 DEF ClashRecorded
<1> QED
    BY <1>10, <1>11, <1>12, <1>13, <1>14 DEF ProcsOK

LEMMA ProcsKept ==
    ASSUME Base, Base', ProcsOK, EvictsMeet, StepKind, ClashRecorded PROVE ProcsOK'
<1>1. CASE CalmKind
    BY <1>1, KindCalm, CalmProcs
<1>2. CASE \E x \in Threads, q \in Servers, r, w \in ThreadRecord : InstallStep(x, r, q, w)
    BY <1>2, InstallProcs
<1> QED
    BY <1>1, <1>2 DEF StepKind, CalmKind

\* An eviction that goes on keeps its clashes on record.
LEMMA EvictingClashed ==
    ASSUME Typed', ClashRecorded, evict'.pc # "idle", NEW s \in evict'.slots, s \in clashed
    PROVE  s \in clashed'
<1>1. s \in Slots
    BY DEF Typed, EvictRecord
<1>2. s \in Clashing'
    BY <1>1 DEF Clashing, Evicting
<1> QED
    BY <1>2 DEF ClashRecorded

\* The read loop is not at it.
LEMMA CalmEvicts ==
    ASSUME Base, Base', WaitsOK', EvictsMeet, Calm, ClashRecorded, UNCHANGED evict PROVE EvictsMeet'
<1> SUFFICES ASSUME NEW s \in evict.slots
             PROVE  /\ evict.pc = "stop" /\ runtimes'[s] \notin evict.servers \cup {NoServer} => s \in clashed'
                    /\ evict.pc \in {"remove", "apply", "write"} /\ runtimes'[s] # NoServer /\ server'[runtimes'[s]].alive =>
                          s \in clashed'
    BY DEF EvictsMeet
<1>1. s \in Slots /\ runtimes[s] \in Servers \cup {NoServer}
    BY DEF Base, Typed, EvictRecord, ProcsTyped
<1>2. evict.pc # "idle" /\ s \in clashed => s \in clashed'
    BY EvictingClashed DEF Base
<1>3. runtimes'[s] = runtimes[s] \/ runtimes'[s] = NoServer
    BY <1>1 DEF Calm
<1>4. runtimes'[s] # NoServer /\ server'[runtimes'[s]].alive => server[runtimes[s]].alive
    BY <1>1, <1>3 DEF Calm, WaitsOK
<1> QED
    BY <1>2, <1>3, <1>4 DEF EvictsMeet

LEMMA InstallEvicts ==
    ASSUME Base, Base', ProcsOK, EvictsMeet, ClashRecorded,
           NEW x \in Threads, NEW q \in Servers, NEW r \in ThreadRecord, NEW w \in ThreadRecord,
           InstallStep(x, r, q, w)
    PROVE  EvictsMeet'
<1>1. /\ UNCHANGED <<server, evict>> /\ thread[x].pc = "wait"
      /\ runtimes' = [runtimes EXCEPT ![thread[x].slot] = q]
    BY DEF InstallStep
<1> SUFFICES ASSUME NEW s \in evict.slots
             PROVE  /\ evict.pc = "stop" /\ runtimes'[s] \notin evict.servers \cup {NoServer} => s \in clashed'
                    /\ evict.pc \in {"remove", "apply", "write"} /\ runtimes'[s] # NoServer /\ server'[runtimes'[s]].alive =>
                          s \in clashed'
    BY <1>1 DEF EvictsMeet
<1>2. s \in Slots
    BY DEF Base, Typed, EvictRecord
<1>3. evict.pc # "idle" /\ s \in clashed => s \in clashed'
    BY <1>1, EvictingClashed DEF Base
<1>4. CASE s = thread[x].slot
    BY <1>1, <1>2, <1>3, <1>4 DEF ProcsOK, StartsMeet, Evicting, StartPC
<1>5. CASE s # thread[x].slot
    BY <1>1, <1>2, <1>3, <1>5 DEF EvictsMeet, Base, Typed, ProcsTyped
<1> QED
    BY <1>4, <1>5

LEMMA EvictEvicts ==
    ASSUME Base, Base', EvictsMeet, ClashRecorded, EvictStep PROVE EvictsMeet'
<1>1. evict \in EvictRecord /\ \A s \in Slots : runtimes[s] \in Servers \cup {NoServer}
    BY DEF Base, Typed, ProcsTyped
<1>2. CASE \E a \in Artifacts : PlanEviction(a)
    <2>1. PICK a \in Artifacts : PlanEviction(a)
        BY <1>2
    <2>2. UNCHANGED procs /\ evict.pc = "idle"
        BY <2>1 DEF PlanEviction, ReadLoopFree
    <2>3. CASE UNCHANGED evict
        BY <2>2, <2>3 DEF EvictsMeet
    <2>4. CASE evict' # evict
        <3> DEFINE using == {s \in Slots : SlotUsesArtifact(s, a)}
        <3>1. evict'.pc = "stop" /\ evict'.slots = using /\ evict'.servers = {runtimes[s] : s \in using} \ {NoServer}
            BY <2>1, <2>4 DEF PlanEviction
        <3> HIDE DEF using
        <3> QED
            BY <2>2, <3>1 DEF EvictsMeet, procs
    <2> QED
        BY <2>3, <2>4
<1>3. CASE StopEvicted
    <2>1. /\ server' = [q \in Servers |-> [server[q] EXCEPT !.alive = @ /\ q \notin evict.servers]]
          /\ UNCHANGED runtimes /\ evict.pc = "stop" /\ evict' = [evict EXCEPT !.pc = "remove"]
        BY <1>3 DEF StopEvicted
    <2>2. evict'.pc = "remove" /\ evict'.slots = evict.slots
        BY <1>1, <2>1 DEF EvictRecord
    <2>3. \A q \in Servers : server'[q].alive => q \notin evict.servers
        BY <2>1 DEF Base, Typed, ProcsTyped
    <2>4. \A s \in evict.slots : s \in Slots /\ (s \in clashed => s \in clashed')
        BY <1>1, <2>2, EvictingClashed DEF Base, EvictRecord
    <2>5. \A s \in evict.slots : runtimes[s] \notin evict.servers \cup {NoServer} => s \in clashed
        BY <2>1 DEF EvictsMeet
    <2> QED
        BY <1>1, <2>1, <2>2, <2>3, <2>4, <2>5 DEF EvictsMeet
<1>4. CASE RemoveEvicted
    <2>1. UNCHANGED procs /\ evict.pc = "remove"
        BY <1>4 DEF RemoveEvicted
    <2>2. CASE evict' = [evict EXCEPT !.pc = "apply"]
        <3>1. evict'.pc = "apply" /\ evict'.slots = evict.slots
            BY <1>1, <2>2 DEF EvictRecord
        <3>2. \A s \in evict.slots : s \in clashed => s \in clashed'
            BY <3>1, EvictingClashed DEF Base
        <3> QED
            BY <2>1, <3>1, <3>2 DEF EvictsMeet, procs
    <2>3. CASE evict' = NoEviction
        BY <2>3 DEF EvictsMeet, NoEviction
    <2> QED
        BY <1>4, <2>2, <2>3 DEF RemoveEvicted
<1>5. CASE ApplyEviction
    <2>1. /\ runtimes' = [s \in Slots |-> IF s \in evict.slots THEN NoServer ELSE runtimes[s]]
          /\ evict' = [evict EXCEPT !.pc = "write", !.snap = cache']
        BY <1>5 DEF ApplyEviction
    <2>2. evict'.pc = "write" /\ evict'.slots = evict.slots /\ evict.slots \subseteq Slots
        BY <1>1, <2>1 DEF EvictRecord
    <2> QED
        BY <2>1, <2>2 DEF EvictsMeet
<1>6. CASE ReportEvicted
    BY <1>6 DEF ReportEvicted, EvictsMeet, NoEviction
<1> QED
    BY <1>2, <1>3, <1>4, <1>5, <1>6 DEF EvictStep

LEMMA EvictsKept ==
    ASSUME Base, Base', ProcsOK, ProcsOK', EvictsMeet, StepKind, ClashRecorded PROVE EvictsMeet'
<1>1. CASE EvictStep
    BY <1>1, EvictEvicts
<1>2. CASE \E x \in Threads, q \in Servers, r, w \in ThreadRecord : InstallStep(x, r, q, w)
    BY <1>2, InstallEvicts
<1>3. CASE CalmKind /\ ~EvictStep
    <2>1. Calm
        BY <1>3, KindCalm
    <2>2. UNCHANGED evict
        BY <1>3 DEF CalmKind, QuietStep, Quiet, StopStep, SpawnStep, FailStep, ServerDies, ClaimStep, Aside
    <2> QED
        BY <2>1, <2>2, CalmEvicts DEF ProcsOK
<1> QED
    BY <1>1, <1>2, <1>3 DEF StepKind, CalmKind

-----------------------------------------------------------------------------
(* A slot in progress has its owner *)

SlotOwned ==
    \A s \in Slots : slot[s].state \in InProgress \cup {"serving"} =>
        \E x \in Threads : thread[x].slot = s /\ thread[x].pc \in SettlePC \ {"cache"}

LEMMA TidyOwned ==
    ASSUME Base, Base', SlotOwned, NEW x \in Threads, NEW r \in ThreadRecord, Moved(x, r), Tidy(x, r),
           thread[x].pc # "watch"
    PROVE  SlotOwned'
<1>1. /\ thread'[x] = r /\ \A y \in Threads : y # x => thread'[y] = thread[y]
    BY MovedTyped DEF Moved, Base
<1>2. r.pc \in ThreadPC /\ r.pc # "watch" /\ (thread[x].pc = "idle" => thread[x].slot \notin Slots)
    BY HostConstants DEF Tidy, ThreadRecord, Base, ThreadOK, IdleThread
<1> SUFFICES ASSUME NEW s \in Slots, slot'[s].state \in InProgress \cup {"serving"}
             PROVE  \E y \in Threads : thread'[y].slot = s /\ thread'[y].pc \in SettlePC \ {"cache"}
    BY DEF SlotOwned
<1>3. slot'[s].state \notin {"idle", "error", "ready"}
    BY DEF InProgress
<1>4. CASE thread[x].slot = s /\ r.pc # "idle" /\ thread[x].pc # "idle"
    <2>1. r.slot = s /\ r.pc \notin {"idle", "watch", "cache"}
        BY <1>2, <1>4 DEF Tidy
    <2>2. r.pc \in SettlePC \ {"cache"}
        BY <1>2, <2>1 DEF ThreadPC
    <2> QED
        BY <1>1, <2>1, <2>2
<1>5. CASE ~(thread[x].slot = s /\ r.pc # "idle" /\ thread[x].pc # "idle")
    <2>1. slot'[s] = slot[s]
        BY <1>2, <1>3, <1>5 DEF Tidy
    <2>2. PICK y \in Threads : thread[y].slot = s /\ thread[y].pc \in SettlePC \ {"cache"}
        BY <2>1 DEF SlotOwned
    <2>3. thread[y].pc \notin {"idle", "cache"}
        BY <2>2 DEF SettlePC, StartPC
    <2>4. y # x
        BY <1>3, <1>5, <2>2, <2>3 DEF Tidy
    <2> QED
        BY <1>1, <2>2, <2>4
<1> QED
    BY <1>4, <1>5

LEMMA OwnersKept ==
    ASSUME Base, Base', WaitsOK, SlotOwned, StepKind PROVE SlotOwned'
<1>1. Servers \subseteq Threads /\ Typed
    BY DEF Base, Threads
<1>2. CASE \E x \in Threads, r \in ThreadRecord : QuietStep(x, r) \/ StopStep(x, r)
    BY <1>2, TidyOwned DEF QuietStep, StopStep, Quiet
<1>3. CASE \E x \in Threads, r \in ThreadRecord, q \in Servers : SpawnStep(x, r, q)
    BY <1>3, TidyOwned DEF SpawnStep
<1>4. CASE \E x \in Threads : FailStep(x)
    BY <1>4, TidyOwned, IdleOK DEF FailStep
<1>5. CASE \E x \in Threads, q \in Servers, r, w \in ThreadRecord : InstallStep(x, r, q, w)
    <2>1. PICK x \in Threads, q \in Servers, r \in ThreadRecord, w \in ThreadRecord : InstallStep(x, r, q, w)
        BY <1>5
    <2>2. /\ thread[x].pc = "wait" /\ thread[x].server = q /\ r.pc = "ready" /\ r.slot = thread[x].slot
          /\ thread' = [thread EXCEPT ![x] = r, ![q] = w] /\ UNCHANGED slot
        BY <2>1 DEF InstallStep, Tidy
    <2>3. thread[q].pc = "idle"
        BY <2>2 DEF WaitsOK
    <2>4. thread'[x] = r /\ \A y \in Threads : y # x /\ y # q => thread'[y] = thread[y]
        BY <1>1, <2>2, <2>3 DEF Typed
    <2>5. "ready" \in SettlePC \ {"cache"} /\ "idle" \notin SettlePC
        BY DEF SettlePC, StartPC
    <2>6. \A y \in Threads : thread[y].pc \in SettlePC \ {"cache"} =>
              thread'[y].slot = thread[y].slot /\ thread'[y].pc \in SettlePC \ {"cache"}
        BY <2>2, <2>3, <2>4, <2>5
    <2> QED
        BY <2>2, <2>6 DEF SlotOwned
<1>6. CASE \E q \in Servers, r \in ThreadRecord : ClaimStep(q, r)
    <2>1. PICK q \in Servers, r \in ThreadRecord : ClaimStep(q, r)
        BY <1>6
    <2>2. thread' = [thread EXCEPT ![q] = r] /\ thread[q].pc = "watch" /\ UNCHANGED slot
        BY <2>1 DEF ClaimStep, Moved
    <2>3. \A y \in Threads : y # q => thread'[y] = thread[y]
        BY <1>1, <2>2 DEF Typed
    <2>4. "watch" \notin SettlePC
        BY DEF SettlePC, StartPC
    <2> QED
        BY <2>2, <2>3, <2>4 DEF SlotOwned
<1>7. CASE (\E q \in Servers : ServerDies(q)) \/ EvictStep \/ Aside
    <2>1. thread' = thread
        BY <1>7 DEF ServerDies, EvictStep, PlanEviction, StopEvicted, RemoveEvicted, ApplyEviction, ReportEvicted, Aside
    <2>2. \A s \in Slots : slot'[s] = slot[s] \/ slot'[s] = IdleSlot
        BY <1>7 DEF ServerDies, EvictStep, PlanEviction, StopEvicted, RemoveEvicted, ApplyEviction, ReportEvicted, Aside
    <2>3. IdleSlot.state \notin InProgress \cup {"serving"}
        BY DEF IdleSlot, InProgress
    <2> QED
        BY <2>1, <2>2, <2>3 DEF SlotOwned
<1> QED
    BY <1>2, <1>3, <1>4, <1>5, <1>6, <1>7 DEF StepKind

-----------------------------------------------------------------------------
(* A slot on which the goroutines keep their order *)

\* The table has a server of the profile, watched or left to a task.
Served(s, p) ==
    /\ runtimes[s] # NoServer /\ server[runtimes[s]].profile = p
    /\ thread[runtimes[s]].pc = "watch" \/ runtimes[s] \in excused

\* The same of the next state.
ServedAfter(s, p) ==
    /\ runtimes'[s] # NoServer /\ server'[runtimes'[s]].profile = p
    /\ thread'[runtimes'[s]].pc = "watch" \/ runtimes'[s] \in excused'

\* One goroutine at a time, and no eviction meanwhile.
Alone(s) ==
    /\ \A x, y \in Working(s) : x = y
    /\ Working(s) # {} => ~Evicting(s)

\* Where a thread takes a server for granted, and where a slot says ready, it is there;
\* beside a slot that is ready work has only begun.
Fit(s) ==
    /\ \A x \in Working(s) : thread[x].pc \in ServedPC => Served(s, thread[x].profile)
    /\ slot[s].state = "ready" =>
          /\ Served(s, slot[s].profile) \/ \E q \in Servers : thread[q].pc = "reserve" /\ thread[q].slot = s
          /\ \A x \in Working(s) : thread[x].pc \in {"cache", "queue", "admitted"}
                                   \/ (x \in Servers /\ thread[x].pc = "reserve")

OrderOK == \A s \in Slots \ overlapped : Alone(s) /\ Fit(s)

OverlapRecorded == overlapped' = (overlapped \cup Overlap') \cap Unsettled'

\* It is enough to look at the slots that were in order and have one goroutine.
LEMMA OrderFrame ==
    ASSUME OrderOK, OverlapRecorded, \A s \in Slots : Alone(s) /\ Fit(s) /\ Alone(s)' => Fit(s)'
    PROVE  OrderOK'
<1> SUFFICES ASSUME NEW s \in Slots, s \notin overlapped' PROVE Alone(s)' /\ Fit(s)'
    BY DEF OrderOK
<1>1. CASE s \notin Unsettled'
    <2>1. Working(s)' = {} /\ slot'[s].state \in {"idle", "error"}
        BY <1>1 DEF Unsettled
    <2> QED
        BY <2>1 DEF Alone, Fit
<1>2. CASE s \in Unsettled'
    <2>1. s \notin overlapped /\ s \notin Overlap'
        BY <1>2 DEF OverlapRecorded
    <2> DEFINE W == Working(s)'
    <2>2. ~(Cardinality(W) > 1) /\ (W # {} => ~Evicting(s)')
        BY <2>1 DEF Overlap
    <2>3. W \subseteq Threads
        BY DEF Working
    <2>4. IsFiniteSet(W)
        BY <2>3, ThreadsFinite, FS_Subset
    <2> HIDE DEF W
    <2>5. \A x, y \in W : x = y
        BY <2>2, <2>4, ManyElements
    <2>6. Alone(s)'
        BY <2>2, <2>5 DEF Alone, W
    <2> QED
        BY <2>1, <2>6 DEF OrderOK
<1> QED
    BY <1>1, <1>2

\* A step of thread x that leaves the table, the profiles and the watchers as they
\* are, and the excuses but for those of x's own slot while it recovers.
Settled(x) ==
    /\ UNCHANGED runtimes
    /\ \A s \in Slots : runtimes[s] # NoServer => server'[runtimes[s]].profile = server[runtimes[s]].profile
    /\ thread[x].pc # "watch"
    /\ excused' = excused \/ (thread[x].pc = "recover" /\ excused' = excused \ {runtimes[thread[x].slot]})

LEMMA TidyFit ==
    ASSUME Base, Base', TableOK, NEW x \in Threads, NEW r \in ThreadRecord, Moved(x, r), Tidy(x, r), Settled(x),
           r.pc \in ServedPC => thread[x].pc \in ServedPC \/ RuntimeServerReady(r.slot, r.profile),
           NEW s \in Slots, Alone(s), Fit(s)
    PROVE  Fit(s)'
<1>1. /\ thread'[x] = r /\ \A y \in Threads : y # x => thread'[y] = thread[y]
    BY MovedTyped DEF Moved, Base
<1>2. /\ thread[x].pc = "idle" => thread[x].slot \notin Slots
      /\ r.pc = "idle" => r.slot \notin Slots
    BY HostConstants DEF Tidy, Base, ThreadOK, IdleThread
<1>3. /\ r.pc \in ThreadPC /\ thread[x].pc \in ThreadPC /\ r.pc # "watch" /\ thread[x].pc # "watch"
      /\ \A y \in Threads : thread[y].pc \in SettlePC <=> thread[y].pc \notin {"idle", "watch"}
    <2>1. \A y \in Threads : thread[y].pc \in ThreadPC
        BY DEF Base, Typed, ThreadRecord
    <2>2. "idle" \notin SettlePC /\ "watch" \notin SettlePC
        BY DEF SettlePC, StartPC
    <2> QED
        BY <2>1, <2>2 DEF Tidy, Settled, ThreadPC, ThreadRecord
<1>4. \A y \in Threads : y \in Working(s) <=> thread[y].slot = s /\ thread[y].pc \notin {"idle", "watch"}
    BY <1>3 DEF Working
<1>5. /\ \A y \in Threads : y # x => (y \in Working(s)' <=> y \in Working(s))
      /\ x \in Working(s)' <=> r.slot = s /\ r.pc # "idle"
    <2>1. r.pc \in SettlePC <=> r.pc # "idle"
        BY <1>3 DEF ThreadPC, SettlePC, StartPC
    <2> QED
        BY <1>1, <2>1 DEF Working
<1>6. Working(s)' \subseteq Threads /\ Working(s) \subseteq Threads
    BY DEF Working
\* Its server is still there.
<1>7. ASSUME NEW p, Served(s, p), ~(thread[x].slot = s /\ thread[x].pc = "recover") PROVE ServedAfter(s, p)
    <2> DEFINE q == runtimes[s]
    <2>1. /\ q # NoServer /\ server[q].profile = p /\ (thread[q].pc = "watch" \/ q \in excused)
          /\ runtimes'[s] = q /\ server'[q].profile = p
        BY <1>7 DEF Served, Settled
    <2>2. q \in Servers /\ q \in Threads
        BY <2>1 DEF Base, Typed, ProcsTyped, Threads
    <2>3. thread[x].pc = "recover" => thread[x].slot \in Slots
        BY DEF Base, ThreadOK, EarlyPC
    <2>4. thread[x].pc = "recover" => runtimes[thread[x].slot] # q
        BY <1>7, <2>1, <2>3 DEF TableOK
    <2> HIDE DEF q
    <2>5. thread[q].pc = "watch" => thread'[q].pc = "watch"
        BY <1>1, <1>3, <2>2
    <2>6. q \in excused => q \in excused'
        BY <2>4 DEF Settled
    <2> QED
        BY <2>1, <2>5, <2>6 DEF ServedAfter
<1>8. ASSUME NEW y \in Working(s)', thread'[y].pc \in ServedPC PROVE ServedAfter(s, thread'[y].profile)
    <2>1. CASE y # x
        <3>1. y \in Working(s) /\ thread'[y] = thread[y]
            BY <1>1, <1>5, <1>6, <1>8, <2>1
        <3>2. Served(s, thread[y].profile)
            BY <1>8, <3>1 DEF Fit
        <3>3. ~(thread[x].slot = s /\ thread[x].pc = "recover")
            BY <1>4, <2>1, <3>1 DEF Alone
        <3>4. ServedAfter(s, thread[y].profile)
            BY <1>7, <3>2, <3>3
        <3> QED
            BY <3>1, <3>4
    <2>2. CASE y = x /\ thread[x].pc \in ServedPC
        <3>1. thread[x].pc \notin {"idle", "recover"} /\ r.pc # "idle" /\ r.slot = s
            BY <1>1, <1>5, <1>6, <1>8, <2>2 DEF ServedPC
        <3>2. thread[x].slot = s /\ thread[x].profile = r.profile
            BY <3>1 DEF Tidy
        <3>3. Served(s, r.profile)
            BY <1>3, <1>4, <2>2, <3>1, <3>2 DEF Fit
        <3>4. ServedAfter(s, r.profile)
            BY <1>7, <3>1, <3>3
        <3> QED
            BY <1>1, <2>2, <3>4
    <2>3. CASE y = x /\ thread[x].pc \notin ServedPC
        <3>1. r.slot = s /\ RuntimeServerReady(s, r.profile)
            BY <1>1, <1>5, <1>6, <1>8, <2>3
        <3> DEFINE q == runtimes[s]
        <3>2. q # NoServer /\ server[q].alive /\ server[q].profile = r.profile
            BY <3>1 DEF RuntimeServerReady
        <3>3. thread[q].pc = "watch" /\ q \in Threads
            BY <3>2 DEF TableOK, Base, Typed, ProcsTyped, Threads
        <3>4. runtimes'[s] = q /\ server'[q].profile = r.profile
            BY <3>2 DEF Settled
        <3> HIDE DEF q
        <3>5. thread'[q].pc = "watch"
            BY <1>1, <1>3, <3>3
        <3> QED
            BY <1>1, <2>3, <3>2, <3>4, <3>5 DEF ServedAfter
    <2> QED
        BY <2>1, <2>2, <2>3
<1>9. ASSUME slot'[s].state = "ready"
      PROVE  /\ ServedAfter(s, slot'[s].profile) \/ \E q \in Servers : thread'[q].pc = "reserve" /\ thread'[q].slot = s
             /\ \A y \in Working(s)' : thread'[y].pc \in {"cache", "queue", "admitted"}
                                       \/ (y \in Servers /\ thread'[y].pc = "reserve")
    <2>1. CASE /\ s = thread[x].slot /\ r.pc = "idle" /\ slot'[s].profile = thread[x].profile
               /\ thread[x].pc \in ServedPC
        <3>1. thread[x].pc \notin {"idle", "watch", "recover"}
            BY <2>1 DEF ServedPC
        <3>2. x \in Working(s)
            BY <1>4, <2>1, <3>1
        <3>3. Served(s, thread[x].profile)
            BY <2>1, <3>2 DEF Fit
        <3>4. ServedAfter(s, thread[x].profile)
            BY <1>7, <3>1, <3>3
        <3>5. Working(s)' = {}
            BY <1>2, <1>5, <1>6, <2>1, <3>2 DEF Alone
        <3> QED
            BY <2>1, <3>4, <3>5
    <2>2. CASE slot'[s] = slot[s] /\ ~(/\ s = thread[x].slot /\ r.pc = "idle" /\ slot'[s].profile = thread[x].profile
                                       /\ thread[x].pc \in ServedPC)
        <3>1. /\ Served(s, slot[s].profile) \/ \E q \in Servers : thread[q].pc = "reserve" /\ thread[q].slot = s
              /\ \A y \in Working(s) : thread[y].pc \in {"cache", "queue", "admitted"}
                                       \/ (y \in Servers /\ thread[y].pc = "reserve")
            BY <1>9, <2>2 DEF Fit
        <3>2. ASSUME thread[x].slot = s, thread[x].pc # "idle"
              PROVE  /\ thread[x].pc \in {"cache", "queue", "admitted", "reserve"}
                     /\ r.pc \in {"idle", "queue"} /\ x \notin Servers
            <4>1. x \in Working(s)
                BY <1>3, <1>4, <3>2
            <4>2. \/ thread[x].pc \in {"cache", "queue", "admitted"}
                  \/ (x \in Servers /\ thread[x].pc = "reserve")
                BY <3>1, <4>1
            <4>3. r.pc \in {"idle", "queue"}
                BY <1>9, <3>2, <4>2 DEF Tidy
            <4>4. r.pc = "queue" => x \notin Servers
                BY HostConstants DEF Tidy, ThreadOK, EarlyPC
            <4>5. r.pc = "idle" => thread[x].pc = "cache"
                BY <1>3, <1>9, <3>2, <4>2 DEF Tidy, ServedPC
            <4>6. thread[x].pc = "cache" => x \notin Servers
                BY HostConstants DEF Base, ThreadOK, EarlyPC
            <4> QED
                BY <4>2, <4>3, <4>4, <4>5, <4>6
        <3>3. ~(thread[x].slot = s /\ thread[x].pc = "recover")
            BY <3>2
        <3>4. \A q \in Servers : thread[q].pc = "reserve" /\ thread[q].slot = s => thread'[q] = thread[q]
            BY <1>1, <3>2 DEF Threads
        <3>5. Served(s, slot[s].profile) => ServedAfter(s, slot[s].profile)
            BY <1>7, <3>3
        <3>6. ASSUME NEW y \in Working(s)'
              PROVE  thread'[y].pc \in {"cache", "queue", "admitted"} \/ (y \in Servers /\ thread'[y].pc = "reserve")
            <4>1. CASE y # x
                BY <1>1, <1>5, <1>6, <3>1, <3>6, <4>1
            <4>2. CASE y = x /\ thread[x].pc = "idle"
                BY <1>1, <4>2 DEF Tidy
            <4>3. CASE y = x /\ thread[x].pc # "idle"
                <5>1. r.slot = s /\ r.pc # "idle"
                    BY <1>5, <1>6, <3>6, <4>3
                <5>2. thread[x].slot = s
                    BY <4>3, <5>1 DEF Tidy
                <5> QED
                    BY <1>1, <3>2, <4>3, <5>1, <5>2
            <4> QED
                BY <4>1, <4>2, <4>3
        <3> QED
            BY <2>2, <3>1, <3>4, <3>5, <3>6
    <2> QED
        BY <1>9, <2>1, <2>2 DEF Tidy, InProgress
<1> QED
    BY <1>8, <1>9 DEF Fit, Served, ServedAfter

\* A slot whose entry in the table, server and goroutines the step leaves alone.
LEMMA SameFit ==
    ASSUME Base, NEW s \in Slots, Fit(s),
           slot'[s] = slot[s], runtimes'[s] = runtimes[s],
           runtimes[s] # NoServer =>
              /\ server'[runtimes[s]].profile = server[runtimes[s]].profile
              /\ thread[runtimes[s]].pc = "watch" => thread'[runtimes[s]].pc = "watch" \/ runtimes[s] \in excused'
              /\ runtimes[s] \in excused => runtimes[s] \in excused',
           \A y \in Threads : (thread[y].slot = s /\ thread[y].pc \in SettlePC)
                              \/ (thread'[y].slot = s /\ thread'[y].pc \in SettlePC) => thread'[y] = thread[y]
    PROVE  Fit(s)'
<1>1. \A p : Served(s, p) => ServedAfter(s, p)
    BY DEF Served, ServedAfter
<1>2. Working(s)' = Working(s)
    BY DEF Working
<1>3. \A y \in Working(s) : y \in Threads /\ thread'[y] = thread[y]
    BY DEF Working
<1>4. \A q \in Servers : thread[q].pc = "reserve" /\ thread[q].slot = s => thread'[q] = thread[q]
    BY DEF Threads, SettlePC
<1>5. ASSUME NEW y \in Working(s)', thread'[y].pc \in ServedPC PROVE ServedAfter(s, thread'[y].profile)
    BY <1>1, <1>2, <1>3, <1>5 DEF Fit
<1>6. ASSUME slot'[s].state = "ready"
      PROVE  /\ ServedAfter(s, slot'[s].profile) \/ \E q \in Servers : thread'[q].pc = "reserve" /\ thread'[q].slot = s
             /\ \A y \in Working(s)' : thread'[y].pc \in {"cache", "queue", "admitted"}
                                       \/ (y \in Servers /\ thread'[y].pc = "reserve")
    <2>1. /\ Served(s, slot[s].profile) \/ \E q \in Servers : thread[q].pc = "reserve" /\ thread[q].slot = s
          /\ \A x \in Working(s) : thread[x].pc \in {"cache", "queue", "admitted"}
                                   \/ (x \in Servers /\ thread[x].pc = "reserve")
        BY <1>6 DEF Fit
    <2> QED
        BY <1>1, <1>2, <1>3, <1>4, <2>1
<1> QED
    BY <1>5, <1>6 DEF Fit, Served, ServedAfter

LEMMA StopFit ==
    ASSUME Base, Base', TableOK, NEW x \in Threads, NEW r \in ThreadRecord, StopStep(x, r),
           NEW s \in Slots, Alone(s), Fit(s)
    PROVE  Fit(s)'
<1>1. /\ thread'[x] = r /\ \A y \in Threads : y # x => thread'[y] = thread[y]
    BY MovedTyped DEF StopStep, Moved, Base
<1>2. /\ r.pc \in {"spawn", "idle"} /\ thread[x].pc \in {"verify", "reserve"}
      /\ StopRuntimeServer(thread[x].slot) /\ Tidy(x, r) /\ UNCHANGED excused
    BY DEF StopStep
<1>3. thread[x].slot \in Slots /\ Typed /\ ThreadOK(x, thread[x])
    BY <1>2 DEF Base, ThreadOK, EarlyPC
<1>4. /\ runtimes'[thread[x].slot] = NoServer
      /\ \A u \in Slots : u # thread[x].slot => runtimes'[u] = runtimes[u]
      /\ \A q \in Servers : server'[q].profile = server[q].profile
    BY <1>2, <1>3, StopTyped
<1>5. CASE s = thread[x].slot
    <2>1. x \in Working(s)
        BY <1>2, <1>5 DEF Working, SettlePC
    <2>2. \A y \in Threads : y \in Working(s)' => y = x
        BY <1>1, <2>1 DEF Alone, Working
    <2>3. r.pc \notin ServedPC
        BY <1>2 DEF ServedPC
    <2>4. slot'[s].state # "ready"
        <3> SUFFICES ASSUME slot'[s].state = "ready" PROVE FALSE
            OBVIOUS
        <3>1. r.pc = "idle" => FALSE
            BY <1>2, <1>3, <1>5 DEF Tidy, ServedPC
        <3>2. r.pc = "spawn" /\ thread[x].pc = "verify"
            BY <1>2, <1>3, <1>5, <3>1 DEF Tidy
        <3>3. slot'[s] = slot[s]
            BY <1>2, <1>5, <3>2 DEF Tidy, InProgress
        <3> QED
            BY <2>1, <3>2, <3>3 DEF Fit
    <2>5. Working(s)' \subseteq Threads
        BY DEF Working
    <2> QED
        BY <1>1, <2>2, <2>3, <2>4, <2>5 DEF Fit
<1>6. CASE s # thread[x].slot
    <2>1. runtimes[s] \in Servers \cup {NoServer} /\ runtimes'[s] = runtimes[s]
        BY <1>3, <1>4, <1>6 DEF Typed, ProcsTyped
    <2>2. slot'[s] = slot[s] \/ slot'[s].state = "idle"
        BY <1>2, <1>6 DEF Tidy
    <2>3. runtimes[s] # NoServer =>
              /\ server'[runtimes[s]].profile = server[runtimes[s]].profile
              /\ thread[runtimes[s]].pc = "watch" => thread'[runtimes[s]].pc = "watch"
              /\ runtimes[s] \in excused => runtimes[s] \in excused'
        BY <1>1, <1>2, <1>4, <2>1 DEF Threads
    <2>4. r.pc = "spawn" => r.slot # s
        BY <1>2, <1>6 DEF Tidy
    <2>5. \A y \in Threads : (thread[y].slot = s /\ thread[y].pc \in SettlePC)
                             \/ (thread'[y].slot = s /\ thread'[y].pc \in SettlePC) => thread'[y] = thread[y]
        BY <1>1, <1>2, <1>6, <2>4 DEF SettlePC, StartPC
    <2>6. CASE slot'[s] = slot[s]
        BY <2>1, <2>3, <2>5, <2>6, SameFit
    <2>7. CASE slot'[s].state = "idle"
        <3>1. \A p : Served(s, p) => ServedAfter(s, p)
            BY <2>1, <2>3 DEF Served, ServedAfter
        <3>2. \A y \in Working(s)' : y \in Working(s) /\ thread'[y] = thread[y]
            BY <2>5 DEF Working
        <3>3. \A y \in Working(s)' : thread'[y].pc \in ServedPC => ServedAfter(s, thread'[y].profile)
            BY <3>1, <3>2 DEF Fit
        <3> QED
            BY <2>7, <3>3 DEF Fit, Served, ServedAfter
    <2> QED
        BY <2>2, <2>6, <2>7
<1> QED
    BY <1>5, <1>6

LEMMA InstallFit ==
    ASSUME Base, Base', WaitsOK, TableOK,
           NEW x \in Threads, NEW q \in Servers, NEW r \in ThreadRecord, NEW w \in ThreadRecord,
           InstallStep(x, r, q, w), NEW s \in Slots, Alone(s), Fit(s)
    PROVE  Fit(s)'
<1>1. /\ thread[x].pc = "wait" /\ thread[x].server = q /\ r.pc = "ready" /\ w.pc = "watch"
      /\ UNCHANGED <<slot, server, excused>> /\ Tidy(x, r)
    BY DEF InstallStep
<1>2. /\ thread[x].slot \in Slots /\ q \in Threads /\ q # NoServer
      /\ r.slot = thread[x].slot /\ r.profile = thread[x].profile
    BY <1>1, HostConstants DEF Base, ThreadOK, EarlyPC, Threads, Tidy
<1>3. thread[q].pc = "idle" /\ server[q].profile = thread[x].profile
    BY <1>1 DEF WaitsOK
<1>4. /\ thread'[x] = r /\ thread'[q] = w /\ \A y \in Threads : y # x /\ y # q => thread'[y] = thread[y]
    BY <1>1, <1>2, <1>3 DEF InstallStep, Base, Typed
<1>5. runtimes'[thread[x].slot] = q /\ \A u \in Slots : u # thread[x].slot => runtimes'[u] = runtimes[u]
    BY <1>2 DEF InstallStep, Base, Typed, ProcsTyped
<1>6. "idle" \notin SettlePC /\ "watch" \notin SettlePC /\ {"wait", "ready"} \subseteq SettlePC
    BY DEF SettlePC, StartPC
<1>7. CASE s = thread[x].slot
    <2>1. x \in Working(s)
        BY <1>1, <1>6, <1>7 DEF Working
    <2>2. \A y \in Working(s)' : y = x
        BY <1>1, <1>4, <1>6, <2>1 DEF Alone, Working
    <2>3. ServedAfter(s, r.profile)
        BY <1>1, <1>2, <1>3, <1>4, <1>5, <1>7 DEF ServedAfter
    <2>4. slot'[s].state # "ready"
        BY <1>1, <2>1 DEF Fit
    <2>5. \A y \in Working(s)' : thread'[y].pc \in ServedPC => ServedAfter(s, thread'[y].profile)
        BY <1>4, <2>2, <2>3
    <2> QED
        BY <2>4, <2>5 DEF Fit, Served, ServedAfter
<1>8. CASE s # thread[x].slot
    <2>1. runtimes[s] \in Servers \cup {NoServer} /\ runtimes'[s] = runtimes[s]
        BY <1>5, <1>8 DEF Base, Typed, ProcsTyped
    <2>2. runtimes[s] # NoServer => (thread[runtimes[s]].pc = "watch" => thread'[runtimes[s]].pc = "watch")
        BY <1>1, <1>3, <1>4, <2>1 DEF Threads
    <2>3. \A y \in Threads : (thread[y].slot = s /\ thread[y].pc \in SettlePC)
                             \/ (thread'[y].slot = s /\ thread'[y].pc \in SettlePC) => thread'[y] = thread[y]
        BY <1>1, <1>2, <1>3, <1>4, <1>6, <1>8
    <2> QED
        BY <1>1, <2>1, <2>2, <2>3, SameFit
<1> QED
    BY <1>7, <1>8

LEMMA ClaimFit ==
    ASSUME Base, Base', TableOK, NEW q \in Servers, NEW r \in ThreadRecord, ClaimStep(q, r),
           NEW s \in Slots, Alone(s), Fit(s), Alone(s)'
    PROVE  Fit(s)'
<1>1. q \in Threads /\ Typed /\ q # NoServer
    BY HostConstants DEF Threads, Base
<1>2. /\ thread'[q] = r /\ \A y \in Threads : y # q => thread'[y] = thread[y]
    BY <1>1, MovedTyped DEF ClaimStep, Moved
<1>3. thread[q].pc = "watch" /\ UNCHANGED <<slot, server>> /\ thread[q].slot \in Slots
    <2>1. thread[q].pc = "watch" /\ UNCHANGED <<slot, server>>
        BY DEF ClaimStep
    <2> QED
        BY <1>1, <2>1 DEF Base, ThreadOK, EarlyPC
<1>4. "idle" \notin SettlePC /\ "watch" \notin SettlePC /\ "reserve" \in SettlePC
    BY DEF SettlePC, StartPC
<1>5. runtimes[s] \in Servers \cup {NoServer}
    BY <1>1 DEF Typed, ProcsTyped
<1>6. runtimes[s] = q => s = thread[q].slot
    BY <1>1, <1>3 DEF TableOK
<1>7. CASE /\ runtimes[thread[q].slot] = q /\ r.pc = "reserve" /\ r.slot = thread[q].slot
           /\ runtimes' = [runtimes EXCEPT ![thread[q].slot] = NoServer] /\ UNCHANGED excused
    <2>1. CASE s = thread[q].slot
        <3>1. q \in Working(s)'
            BY <1>1, <1>2, <1>4, <1>7, <2>1 DEF Working
        <3>2. \A y \in Working(s)' : y = q
            BY <3>1 DEF Alone
        <3>3. thread'[q].pc = "reserve" /\ thread'[q].slot = s /\ "reserve" \notin ServedPC
            BY <1>2, <1>7, <2>1 DEF ServedPC
        <3> QED
            BY <3>2, <3>3 DEF Fit
    <2>2. CASE s # thread[q].slot
        <3>1. runtimes'[s] = runtimes[s] /\ runtimes[s] # q
            BY <1>1, <1>6, <1>7, <2>2 DEF Typed, ProcsTyped
        <3>2. runtimes[s] # NoServer => thread'[runtimes[s]] = thread[runtimes[s]]
            BY <1>2, <1>5, <3>1 DEF Threads
        <3>3. \A y \in Threads : (thread[y].slot = s /\ thread[y].pc \in SettlePC)
                                 \/ (thread'[y].slot = s /\ thread'[y].pc \in SettlePC) => thread'[y] = thread[y]
            BY <1>2, <1>3, <1>4, <1>7, <2>2
        <3> QED
            BY <1>3, <1>7, <3>1, <3>2, <3>3, SameFit
    <2> QED
        BY <2>1, <2>2
<1>8. CASE /\ r = IdleThread /\ UNCHANGED runtimes
           /\ excused' = IF runtimes[thread[q].slot] = q THEN excused \cup {q} ELSE excused
    <2>1. r.pc = "idle" /\ r.slot \notin Slots
        BY <1>8, HostConstants DEF IdleThread
    <2>2. runtimes[s] # NoServer => (thread[runtimes[s]].pc = "watch" => thread'[runtimes[s]].pc = "watch" \/ runtimes[s] \in excused')
        BY <1>2, <1>5, <1>6, <1>8 DEF Threads
    <2>3. excused \subseteq excused'
        BY <1>8
    <2>4. \A y \in Threads : (thread[y].slot = s /\ thread[y].pc \in SettlePC)
                             \/ (thread'[y].slot = s /\ thread'[y].pc \in SettlePC) => thread'[y] = thread[y]
        BY <1>2, <1>3, <1>4, <2>1
    <2>5. runtimes'[s] = runtimes[s]
        BY <1>8
    <2> QED
        BY <1>3, <2>2, <2>3, <2>4, <2>5, SameFit
<1> QED
    BY <1>7, <1>8 DEF ClaimStep

LEMMA EvictFit ==
    ASSUME Base, Base', EvictStep, NEW s \in Slots, Alone(s), Fit(s) PROVE Fit(s)'
<1>1. UNCHANGED <<thread, excused>>
    BY DEF EvictStep, PlanEviction, StopEvicted, RemoveEvicted, ApplyEviction, ReportEvicted, procs
<1>2. \A q \in Servers : server'[q].profile = server[q].profile
    <2>1. CASE StopEvicted
        BY <2>1 DEF StopEvicted, Base, Typed, ProcsTyped
    <2>2. CASE ~StopEvicted
        BY <2>2 DEF EvictStep, PlanEviction, RemoveEvicted, ApplyEviction, ReportEvicted, procs
    <2> QED
        BY <2>1, <2>2
<1>3. runtimes[s] \in Servers \cup {NoServer}
    BY DEF Base, Typed, ProcsTyped
<1>4. CASE ApplyEviction /\ s \in evict.slots
    <2>1. slot'[s] = IdleSlot /\ Evicting(s)
        BY <1>4 DEF ApplyEviction, Evicting
    <2>2. Working(s) = {}
        BY <2>1 DEF Alone
    <2>3. Working(s)' = {}
        BY <1>1, <2>2 DEF Working
    <2> QED
        BY <2>1, <2>3 DEF Fit, IdleSlot
<1>5. CASE ~(ApplyEviction /\ s \in evict.slots)
    <2>1. slot'[s] = slot[s] /\ runtimes'[s] = runtimes[s]
        <3>1. CASE ApplyEviction
            BY <1>5, <3>1 DEF ApplyEviction
        <3>2. CASE ~ApplyEviction
            BY <3>2 DEF EvictStep, PlanEviction, StopEvicted, RemoveEvicted, ReportEvicted, procs
        <3> QED
            BY <3>1, <3>2
    <2> QED
        BY <1>1, <1>2, <1>3, <2>1, SameFit
<1> QED
    BY <1>4, <1>5

LEMMA OrderKept ==
    ASSUME Base, Base', WaitsOK, TableOK, OrderOK, StepKind, OverlapRecorded PROVE OrderOK'
<1> SUFFICES ASSUME NEW s \in Slots, Alone(s), Fit(s), Alone(s)' PROVE Fit(s)'
    BY OrderFrame
<1>1. Typed /\ \A u \in Slots : runtimes[u] \in Servers \cup {NoServer}
    BY DEF Base, Typed, ProcsTyped
<1>2. CASE \E x \in Threads, r \in ThreadRecord : QuietStep(x, r)
    <2>1. PICK x \in Threads, r \in ThreadRecord : QuietStep(x, r)
        BY <1>2
    <2>2. Moved(x, r) /\ Tidy(x, r) /\ Settled(x)
        BY <2>1 DEF QuietStep, Quiet, Settled
    <2>3. r.pc \in ServedPC => thread[x].pc \in ServedPC \/ RuntimeServerReady(r.slot, r.profile)
        BY <2>1 DEF QuietStep, Quiet
    <2> QED
        BY <2>2, <2>3, TidyFit
<1>3. CASE \E x \in Threads, r \in ThreadRecord : StopStep(x, r)
    BY <1>3, StopFit
<1>4. CASE \E x \in Threads, r \in ThreadRecord, q \in Servers : SpawnStep(x, r, q)
    <2>1. PICK x \in Threads, r \in ThreadRecord, q \in Servers : SpawnStep(x, r, q)
        BY <1>4
    <2>2. /\ Moved(x, r) /\ Tidy(x, r) /\ r.pc = "wait" /\ thread[x].pc = "spawn" /\ UNCHANGED <<runtimes, excused>>
          /\ \A u \in Slots : runtimes[u] # q
        BY <2>1 DEF SpawnStep, Unused
    <2>3. \A k \in Servers : k # q => server'[k] = server[k]
        BY <1>1, <2>1 DEF SpawnStep, Typed, ProcsTyped
    <2>4. Settled(x)
        BY <1>1, <2>2, <2>3 DEF Settled
    <2> QED
        BY <2>2, <2>4, TidyFit DEF ServedPC
<1>5. CASE \E x \in Threads, q \in Servers, r, w \in ThreadRecord : InstallStep(x, r, q, w)
    BY <1>5, InstallFit
<1>6. CASE \E x \in Threads : FailStep(x)
    <2>1. PICK x \in Threads : FailStep(x)
        BY <1>6
    <2>2. /\ Moved(x, IdleThread) /\ Tidy(x, IdleThread) /\ thread[x].pc = "wait" /\ UNCHANGED <<runtimes, excused>>
          /\ server' = Kill(thread[x].server)
        BY <2>1 DEF FailStep
    <2>3. thread[x].server \in Servers
        BY <2>2 DEF Base, ThreadOK
    <2>4. \A k \in Servers : server'[k].profile = server[k].profile
        BY <1>1, <2>2, <2>3, KillTyped
    <2>5. Settled(x)
        BY <1>1, <2>2, <2>4 DEF Settled
    <2>6. IdleThread \in ThreadRecord /\ IdleThread.pc \notin ServedPC
        BY IdleOK DEF IdleThread, ServedPC
    <2> QED
        BY <2>2, <2>5, <2>6, TidyFit
<1>7. CASE (\E q \in Servers : ServerDies(q)) \/ Aside
    <2>1. UNCHANGED <<slot, thread, runtimes, excused>>
        BY <1>7 DEF ServerDies, Aside, procs
    <2>2. \A k \in Servers : server'[k].profile = server[k].profile
        BY <1>1, <1>7, KillTyped DEF ServerDies, Aside, procs
    <2> QED
        BY <1>1, <2>1, <2>2, SameFit
<1>8. CASE \E q \in Servers, r \in ThreadRecord : ClaimStep(q, r)
    BY <1>8, ClaimFit
<1>9. CASE EvictStep
    BY <1>9, EvictFit
<1> QED
    BY <1>2, <1>3, <1>4, <1>5, <1>6, <1>7, <1>8, <1>9 DEF StepKind

-----------------------------------------------------------------------------
(* An eviction that no work has met *)

EvictOK ==
    evict.pc # "idle" =>
        /\ evict.artifact \in Artifacts
        /\ alone =>
              /\ Undisturbed
              /\ evict.pc \in {"apply", "write"} =>
                    evict.artifact \notin seeding /\ (evict.path => file[evict.artifact] = "none")
              /\ evict.pc = "write" => evict.artifact \notin cache

AloneRecorded == alone' = (alone /\ (evict'.pc = "idle" \/ Undisturbed'))

LEMMA EvictionKept ==
    ASSUME Base, Base', EvictOK, StepKind, AloneRecorded PROVE EvictOK'
<1>1. evict \in EvictRecord /\ file \in [Artifacts -> {"none", "good", "bad"}]
    BY DEF Base, Typed, FilesTyped
<1>2. evict'.pc # "idle" /\ alone' => alone /\ Undisturbed'
    BY DEF AloneRecorded
<1>3. CASE \E x \in Threads, r \in ThreadRecord : QuietStep(x, r)
    <2>1. UNCHANGED evict /\ FilesWorked
        BY <1>3 DEF QuietStep, Quiet
    <2>2. ASSUME evict.pc # "idle", alone
          PROVE  /\ evict.artifact \in cache' => evict.artifact \in cache
                 /\ evict.artifact \in seeding' => evict.artifact \in seeding
                 /\ file'[evict.artifact] \in {file[evict.artifact], "none"}
        <3>1. evict.artifact \in Artifacts /\ Undisturbed
            BY <2>2 DEF EvictOK
        <3>2. ~Worked(evict.artifact)
            BY <3>1 DEF Worked, Undisturbed
        <3> QED
            BY <2>1, <3>1, <3>2 DEF FilesWorked
    <2> QED
        BY <1>2, <2>1, <2>2 DEF EvictOK
<1>4. CASE UNCHANGED <<evict, cache, file>> /\ (evict.pc = "idle" \/ UNCHANGED seeding)
    BY <1>2, <1>4 DEF EvictOK
<1>5. CASE \/ \E x \in Threads, r \in ThreadRecord : StopStep(x, r)
           \/ \E x \in Threads, r \in ThreadRecord, q \in Servers : SpawnStep(x, r, q)
           \/ \E x \in Threads, q \in Servers, r, w \in ThreadRecord : InstallStep(x, r, q, w)
           \/ \E x \in Threads : FailStep(x)
           \/ \E q \in Servers : ServerDies(q)
           \/ \E q \in Servers, r \in ThreadRecord : ClaimStep(q, r)
           \/ Aside
    BY <1>4, <1>5 DEF StopStep, SpawnStep, InstallStep, FailStep, ServerDies, ClaimStep, Aside, files
<1>6. CASE \E a \in Artifacts : PlanEviction(a)
    <2>1. PICK a \in Artifacts : PlanEviction(a)
        BY <1>6
    <2>2. evict.pc = "idle" /\ UNCHANGED files
        BY <2>1 DEF PlanEviction, ReadLoopFree
    <2>3. UNCHANGED evict \/ (evict'.pc = "stop" /\ evict'.artifact = a)
        BY <2>1 DEF PlanEviction
    <2> QED
        BY <1>2, <2>2, <2>3 DEF EvictOK
<1>7. CASE StopEvicted
    <2>1. evict'.pc = "remove" /\ evict'.artifact = evict.artifact /\ evict.pc = "stop"
        BY <1>1, <1>7 DEF StopEvicted, EvictRecord
    <2> QED
        BY <1>2, <2>1 DEF EvictOK
<1>8. CASE RemoveEvicted
    <2>1. CASE evict' = NoEviction
        BY <2>1 DEF EvictOK, NoEviction
    <2>2. CASE evict' # NoEviction
        <3>1. /\ seeding' = seeding \ {evict.artifact} /\ evict' = [evict EXCEPT !.pc = "apply"] /\ evict.pc = "remove"
              /\ file' = IF evict.path THEN [file EXCEPT ![evict.artifact] = "none"] ELSE file
            BY <1>8, <2>2 DEF RemoveEvicted
        <3>2. evict'.pc = "apply" /\ evict'.artifact = evict.artifact /\ evict'.path = evict.path
            BY <1>1, <3>1 DEF EvictRecord
        <3> QED
            BY <1>1, <1>2, <3>1, <3>2 DEF EvictOK
    <2> QED
        BY <2>1, <2>2
<1>9. CASE ApplyEviction
    <2>1. /\ cache' = cache \ {evict.artifact} /\ UNCHANGED <<file, seeding>> /\ evict.pc = "apply"
          /\ evict' = [evict EXCEPT !.pc = "write", !.snap = cache']
        BY <1>9 DEF ApplyEviction
    <2>2. evict'.pc = "write" /\ evict'.artifact = evict.artifact /\ evict'.path = evict.path
        BY <1>1, <2>1 DEF EvictRecord
    <2> QED
        BY <1>2, <2>1, <2>2 DEF EvictOK
<1>10. CASE ReportEvicted
    BY <1>10 DEF ReportEvicted, EvictOK, NoEviction
<1> QED
    BY <1>3, <1>5, <1>6, <1>7, <1>8, <1>9, <1>10 DEF StepKind, EvictStep
-----------------------------------------------------------------------------
(* The theorems *)

HistoryTyped ==
    /\ overlapped \subseteq Slots /\ clashed \subseteq Slots /\ inherited \subseteq cache /\ alone \in BOOLEAN

\* The inductive invariant.
HostInv ==
    /\ Base /\ HistoryTyped /\ DownloadsOK /\ CountsAgree /\ CacheIsVerified
    /\ SlotOwned /\ ProcsOK /\ EvictsMeet /\ OrderOK /\ EvictOK

\* Nothing runs, nothing is assigned, and the cache is the state file's.
AtRest ==
    /\ slot = Fresh /\ runtimes = [s \in Slots |-> NoServer]
    /\ server = [q \in Servers |-> [alive |-> FALSE, profile |-> NoProfile]]
    /\ thread = [x \in Threads |-> IdleThread] /\ evict = NoEviction /\ since = restarts
    /\ overlapped = {} /\ clashed = {} /\ inherited = cache /\ alone = TRUE

LEMMA RestInv == ASSUME Base, AtRest PROVE HostInv
<1>1. /\ \A x \in Threads : thread[x] = IdleThread
      /\ \A s \in Slots : slot[s] = IdleSlot /\ runtimes[s] = NoServer
      /\ \A q \in Servers : ~server[q].alive
      /\ Servers \subseteq Threads /\ Profiles \subseteq Threads
    BY DEF AtRest, Fresh, Threads
<1>2. /\ IdleThread.pc = "idle" /\ IdleThread.slot = NoSlot /\ NoSlot \notin Slots
      /\ evict.pc = "idle" /\ evict.slots = {} /\ IdleSlot.state = "idle"
      /\ "idle" \notin SettlePC /\ "idle" \notin StartPC
    BY HostConstants DEF AtRest, IdleThread, NoEviction, IdleSlot, SettlePC, StartPC
<1>3. HistoryTyped /\ CountsAgree /\ CacheIsVerified
    BY DEF AtRest, HistoryTyped, CountsAgree, CacheIsVerified
<1>4. DownloadsOK
    BY <1>1, <1>2 DEF DownloadsOK, Downloading
<1>5. SlotOwned
    BY <1>1, <1>2 DEF SlotOwned, InProgress
<1>6. ProcsOK
    BY <1>1, <1>2 DEF ProcsOK, WaitsOK, TableOK, LiveOK, StartsMeet, NoLostServer, Lost
<1>7. EvictsMeet /\ EvictOK
    BY <1>2 DEF EvictsMeet, EvictOK
<1>8. \A s \in Slots : Working(s) = {}
    BY <1>1, <1>2 DEF Working
<1>9. OrderOK
    BY <1>1, <1>2, <1>8 DEF OrderOK, Alone, Fit
<1> QED
    BY <1>3, <1>4, <1>5, <1>6, <1>7, <1>9 DEF HostInv

LEMMA HostInit == ASSUME Init PROVE HostInv
<1>1. Base /\ AtRest
    BY InitBase DEF Init, AtRest
<1> QED
    BY <1>1, RestInv

LEMMA HostStep == ASSUME HostInv, [Next]_vars PROVE HostInv'
<1>1. CASE Restart
    <2>1. Base'
        BY <1>1, NewWorkerTyped DEF HostInv
    <2>2. AtRest'
        BY <1>1 DEF Restart, NewWorker, AtRest, Fresh, Threads
    <2> QED
        BY <2>1, <2>2, RestInv, PTL
<1>2. CASE UNCHANGED vars
    <2>1. UNCHANGED <<slot, cache, file, saved, p2p, seeding, assigns, warm, cooldown, runtimes, restarts,
                      server, thread, evict, left, since, excused, overlapped, clashed, inherited, alone>>
        BY <1>2 DEF vars
    <2>2. Base'
        BY <2>1 DEF HostInv, Base, Typed, FilesTyped, PlansTyped, ProcsTyped
    <2>3. (HistoryTyped /\ DownloadsOK /\ CountsAgree /\ CacheIsVerified /\ SlotOwned)'
        BY <2>1 DEF HostInv, HistoryTyped, DownloadsOK, Downloading, CountsAgree, CacheIsVerified, SlotOwned
    <2>4. (ProcsOK /\ EvictsMeet)'
        BY <2>1 DEF HostInv, ProcsOK, WaitsOK, TableOK, LiveOK, StartsMeet, NoLostServer, Lost, Evicting, EvictsMeet
    <2>5. OrderOK'
        BY <2>1 DEF HostInv, OrderOK, Alone, Fit, Served, Working, Evicting
    <2>6. EvictOK'
        BY <2>1 DEF HostInv, EvictOK, Undisturbed
    <2> QED
        BY <2>2, <2>3, <2>4, <2>5, <2>6 DEF HostInv
<1>3. CASE Step /\ OverlapRecorded /\ ClashRecorded /\ inherited' = inherited \cap cache' /\ AloneRecorded
    <2>1. Base /\ DownloadsOK /\ WaitsOK /\ TableOK
        BY DEF HostInv, ProcsOK
    <2>2. Typed' /\ StepKind
        BY <1>3, <2>1, StepClasses
    <2>3. Base'
        BY <2>1, <2>2, BaseKept
    <2>4. overlapped' \subseteq Slots /\ clashed' \subseteq Slots
        BY <1>3 DEF OverlapRecorded, ClashRecorded, Unsettled, Clashing
    <2>5. alone' \in BOOLEAN
        BY <1>3 DEF AloneRecorded
    <2>6. HistoryTyped'
        BY <1>3, <2>4, <2>5 DEF HistoryTyped
    <2>7. DownloadsOK' /\ CountsAgree'
        BY <2>1, <2>2, DownloadsKept, CountsKept DEF HostInv
    <2>8. CacheIsVerified'
        BY <1>3, <2>1, <2>2, CacheKept DEF HostInv
    <2>9. SlotOwned'
        BY <2>1, <2>2, <2>3, OwnersKept DEF HostInv
    <2>10. ProcsOK'
        BY <1>3, <2>1, <2>2, <2>3, ProcsKept DEF HostInv
    <2>11. EvictsMeet'
        BY <1>3, <2>1, <2>2, <2>3, <2>10, EvictsKept DEF HostInv
    <2>12. OrderOK'
        BY <1>3, <2>1, <2>2, <2>3, OrderKept DEF HostInv
    <2>13. EvictOK'
        BY <1>3, <2>1, <2>2, <2>3, EvictionKept DEF HostInv
    <2> QED
        BY <2>3, <2>6, <2>7, <2>8, <2>9, <2>10, <2>11, <2>12, <2>13 DEF HostInv
<1> QED
    BY <1>1, <1>2, <1>3 DEF Next, OverlapRecorded, ClashRecorded, AloneRecorded

LEMMA HostInvariant == Spec => []HostInv
<1>1. Init => HostInv
    BY HostInit
<1>2. HostInv /\ [Next]_vars => HostInv'
    BY HostStep
<1> QED
    BY <1>1, <1>2, PTL DEF Spec

\* TypeOK: every variable of a Worker keeps its type, restarts of a slot's runtime
\* never above maxRuntimeRestartAttempts included.
THEOREM HostTypeCorrect == Spec => []TypeOK
<1>1. HostInv => TypeOK
    <2> SUFFICES ASSUME HostInv PROVE TypeOK
        OBVIOUS
    <2>1. Typed /\ since = restarts /\ HistoryTyped
        BY DEF HostInv, Base, CountsAgree
    <2>2. since \in [Slots -> Nat]
        BY <2>1, HostConstants DEF Typed, ProcsTyped
    <2> QED
        BY <2>1, <2>2, TypedParts DEF HistoryTyped
<1> QED
    BY <1>1, HostInvariant, PTL

\* RestartsAreLimited: the watcher (claimExitedRuntime) and recoverRuntimeSlot share
\* reserveRuntimeRestart's limit, in whatever order they ask.
THEOREM RestartsStayLimited == Spec => []RestartsAreLimited
<1>1. HostInv => RestartsAreLimited
    <2> SUFFICES ASSUME HostInv, NEW s \in Slots PROVE since[s] <= MaxRestarts
        BY DEF RestartsAreLimited
    <2>1. since = restarts /\ restarts[s] \in 0..MaxRestarts
        BY DEF HostInv, CountsAgree, Base, Typed, ProcsTyped
    <2> QED
        BY <2>1, HostConstants
<1> QED
    BY <1>1, HostInvariant, PTL

\* CacheIsVerified: what this Worker process has put in its cache never has a file of
\* another digest, whatever downloads break off (downloadArtifact) or are evicted.
THEOREM CacheStaysVerified == Spec => []CacheIsVerified
<1>1. HostInv => CacheIsVerified
    BY DEF HostInv
<1> QED
    BY <1>1, HostInvariant, PTL

\* SlotHasOwner: a slot in a state that assignmentAlreadySatisfied takes for progress,
\* or serving, has a goroutine that will settle it.
THEOREM SlotsHaveOwners == Spec => []SlotHasOwner
<1>1. HostInv => SlotHasOwner
    BY DEF HostInv, SlotOwned, SlotHasOwner
<1> QED
    BY <1>1, HostInvariant, PTL

\* NoLostServer: startRuntimeServerForSlot loses no llama-server process, unless a start
\* has met another start or an eviction of its slot.
THEOREM ServersAreKept == Spec => []NoLostServer
<1>1. HostInv => NoLostServer
    BY DEF HostInv, ProcsOK
<1> QED
    BY <1>1, HostInvariant, PTL

\* ReadyIsServed: a slot that says ready has its server, or a watcher that is about to
\* restart it, or one that died while it was serving, unless goroutines overlapped on it.
THEOREM ReadySlotsServed == Spec => []ReadyIsServed
<1>1. HostInv => ReadyIsServed
    <2> SUFFICES ASSUME HostInv, NEW s \in Slots \ overlapped, slot[s].state = "ready"
                 PROVE  \/ \E q \in Servers : thread[q].pc = "reserve" /\ thread[q].slot = s
                        \/ /\ runtimes[s] # NoServer /\ server[runtimes[s]].profile = slot[s].profile
                           /\ server[runtimes[s]].alive \/ thread[runtimes[s]].pc = "watch" \/ runtimes[s] \in excused
        BY DEF ReadyIsServed
    <2>1. Served(s, slot[s].profile) \/ \E q \in Servers : thread[q].pc = "reserve" /\ thread[q].slot = s
        BY DEF HostInv, OrderOK, Fit
    <2> QED
        BY <2>1 DEF Served
<1> QED
    BY <1>1, HostInvariant, PTL

\* EvictionLeavesNothing: when "evicted" is reported, the slots the plan found run nothing
\* that no start has lost, and an eviction that no work met has left no path, file or seed.
THEOREM EvictionsLeaveNothing == Spec => EvictionLeavesNothing
<1> DEFINE Clean ==
        /\ \A q \in Servers : server[q].alive => thread[q].slot \notin evict.slots \ clashed
        /\ alone => /\ evict.artifact \notin cache \cup seeding
                    /\ evict.path => file[evict.artifact] = "none"
<1>1. HostInv /\ ReportEvicted => Clean
    <2> SUFFICES ASSUME HostInv, ReportEvicted PROVE Clean
        OBVIOUS
    <2>1. evict.pc = "write" /\ evict.slots \subseteq Slots
        BY DEF ReportEvicted, HostInv, Base, Typed, EvictRecord
    <2>2. alone => /\ evict.artifact \notin cache \cup seeding
                   /\ evict.path => file[evict.artifact] = "none"
        BY <2>1 DEF HostInv, EvictOK
    <2>3. ASSUME NEW q \in Servers, server[q].alive, thread[q].slot \in evict.slots PROVE thread[q].slot \in clashed
        <3>1. thread[q].pc # "idle"
            BY <2>1, <2>3, HostConstants DEF HostInv, Base, ThreadOK, IdleThread, Threads
        <3>2. thread[q].pc = "watch" /\ \A x \in Threads : thread[x].server = q => thread[x].pc # "wait"
            BY <2>3, <3>1 DEF HostInv, ProcsOK, LiveOK, WaitsOK
        <3>3. CASE Lost(q)
            BY <3>3 DEF HostInv, ProcsOK, NoLostServer
        <3>4. CASE ~Lost(q)
            <4>1. PICK s \in Slots : runtimes[s] = q
                BY <2>3, <3>2, <3>4 DEF Lost
            <4>2. thread[q].slot = s
                BY <3>2, <4>1, HostConstants DEF HostInv, ProcsOK, TableOK
            <4> QED
                BY <2>1, <2>3, <4>1, <4>2, HostConstants DEF HostInv, EvictsMeet
        <3> QED
            BY <3>3, <3>4
    <2> QED
        BY <2>2, <2>3
<1>2. HostInv /\ [Next]_vars => [ReportEvicted => Clean]_vars
    BY <1>1
<1> QED
    BY <1>2, HostInvariant, PTL DEF Spec, EvictionLeavesNothing
=============================================================================
