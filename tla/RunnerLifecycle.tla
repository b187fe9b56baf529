---------------------------- MODULE RunnerLifecycle ----------------------------
(***************************************************************************)
(* The runners of the desktop application: how one is built, replaced when *)
(* the configuration changes, retired while its runs go on and shut down   *)
(* (app/src/main/runner-lifecycle.ts, runtime-config-change.ts, index.ts). *)
(*                                                                         *)
(* Builds form a queue.  Those who ask for one are the start of the        *)
(* application, the route that saves the configuration and the route that  *)
(* saves a key; all run in one process and interleave where they await.    *)
(* A runner keeps the configuration and the keys it was built from.        *)
(* Configuration objects are compared by identity: a token, new with each  *)
(* accepted revision.                                                      *)
(***************************************************************************)
EXTENDS Naturals, Sequences, FiniteSets, SequencesExt

CONSTANTS
    Caller,         \* subset of {"boot", "save", "key"} that contains "boot"
    Content,        \* what a runner reads of a configuration
    Stream,         \* requests that start a run
    MaxRetired,     \* MAX_RETIRED_RUNNERS
    MaxRunners, MaxSaves, MaxKeys, MaxBuildFaults,
    Nothing

LifecycleAssumption ==
    /\ "boot" \in Caller /\ Caller \subseteq {"boot", "save", "key"}
    /\ Nothing \notin Content \cup Nat
LifecycleBounds == {MaxRetired, MaxRunners, MaxSaves, MaxKeys, MaxBuildFaults} \subseteq Nat
ASSUME LifecycleConstants == LifecycleAssumption /\ LifecycleBounds

VARIABLES
    slot,           \* the accepted configuration: [token, content]
    served,         \* token of the configuration the API server answers with
    key,            \* number of keys saved to the environment
    runner,         \* [1..MaxRunners -> a runner]
    current, lastBuilt, retired,
    activity,       \* the runners whose runs are watched and can be stopped
    router,         \* the runner whose router serves requests
    host, tools,    \* the plugin host's runner; the runners that hold its tools
    loading,        \* the runner the host is being loaded for
    builds,          \* callers in the build queue
    place,             \* [Caller -> where it is]
    asked,          \* the save at work: its content, and whether it needs a rebuild
    result,         \* [Caller -> how its last operation ended]
    notApplied,     \* a content that was saved and whose rebuild failed
    held,           \* what the replacement at work read: the configuration, the runner it replaces
    stream,         \* [Stream -> where the request is, its runner]
    saves, buildFaults

config == <<slot, served, key, saves>>
runners == <<runner, current, lastBuilt, retired, activity, router>>
plugins == <<host, tools, loading>>
callers == <<place, asked, result, notApplied, held>>
lifecycleVars == <<config, runners, plugins, builds, callers, stream, buildFaults>>

-----------------------------------------------------------------------------
RunnerId == 1 .. MaxRunners
Token == Nat \ {0}
Revision == [token : Token, content : Content]
Runner ==
    [state : {"none", "building", "up", "failed", "down"}, token : Token \cup {0},
     content : Content \cup {Nothing}, key : 0 .. MaxKeys]
Request == [at : {"idle", "open", "run", "late", "done"}, on : RunnerId \cup {0}]
Place ==
    {"new", "failed", "first", "idle", "persist", "queued", "released", "build", "publish", "attach"}
NoRunner == [state |-> "none", token |-> 0, content |-> Nothing, key |-> 0]
Idle == [at |-> "idle", on |-> 0]

Up == {r \in RunnerId : runner[r].state = "up"}
Building == {r \in RunnerId : runner[r].state = "building"}
Fresh == {r \in RunnerId : runner[r].state = "none"}
AnyOf(rs) == CHOOSE r \in rs : TRUE

\* An accepted revision is a new object.
Accept(content) == [token |-> slot.token + 1, content |-> content]

\* Runs registered with a runner (activeRuns).
Busy == {stream[s].on : s \in {t \in Stream : stream[t].at = "run"}}

Shut(rs) == [r \in RunnerId |-> IF r \in rs THEN [runner[r] EXCEPT !.state = "down"] ELSE runner[r]]

\* activitySources: the current runner and the retired ones.
Sources(now, old) == old \cup ({now} \ {Nothing})

Ended(c, outcome) == result' = [result EXCEPT ![c] = outcome]
GoTo(c, there) == place' = [place EXCEPT ![c] = there]

\* A save that fails remembers what was written and is not in effect.
Remembered(c, outcome) ==
    IF c # "save" THEN notApplied
    ELSE IF outcome = "error" THEN asked.content ELSE Nothing

Return(c, outcome) ==
    /\ GoTo(c, "idle") /\ Ended(c, outcome)
    /\ notApplied' = Remembered(c, outcome)
    /\ UNCHANGED <<asked, held>>

-----------------------------------------------------------------------------
(* Callers.                                                                *)

\* rebuild(): the queue is awaited as it is, then entered; nothing overtakes in
\* between, as both are continuations of the build that ends.
Rebuild(c) == GoTo(c, "queued") /\ builds' = Append(builds, c)

\* startExecution: the first build is asked for with the configuration of the
\* call; after a failure a retry reads the configuration again.
Built(revision) == [state |-> "building", token |-> revision.token, content |-> revision.content, key |-> key]

StartBoot ==
    /\ place["boot"] \in {"new", "failed"} /\ Fresh # {}
    /\ slot' = IF place["boot"] = "failed" THEN Accept(slot.content) ELSE slot
    /\ runner' = [runner EXCEPT ![AnyOf(Fresh)] = Built(slot')]
    /\ builds' = Append(builds, "boot")
    /\ GoTo("boot", "first")
    /\ UNCHANGED <<served, key, saves, current, lastBuilt, retired, activity, router, plugins,
                   asked, result, notApplied, held, stream, buildFaults>>

\* createRuntimeConfigUpdater: what changed is decided against the accepted
\* revision before the new one is written, and whether an earlier write of it
\* never took effect.
NeedsRebuild_NoRetry(content) == content # slot.content
NeedsRebuild(content) == content # slot.content \/ content = notApplied

Save(content) ==
    /\ "save" \in Caller /\ place["save"] = "idle" /\ saves < MaxSaves
    /\ saves' = saves + 1
    /\ asked' = [content |-> content, rebuild |-> NeedsRebuild(content)]
    /\ GoTo("save", "persist") /\ Ended("save", "none")
    /\ UNCHANGED <<slot, served, key, runners, plugins, builds, notApplied, held, stream, buildFaults>>

\* persistRuntimeConfig: the slot and the server's copy follow the file.
PersistConfig ==
    /\ "save" \in Caller /\ place["save"] = "persist"
    /\ slot' = Accept(asked.content)
    /\ served' = slot'.token
    /\ IF asked.rebuild
         THEN Rebuild("save") /\ UNCHANGED <<result, notApplied>>
         ELSE GoTo("save", "idle") /\ Ended("save", "ok") /\ UNCHANGED <<builds, notApplied>>
    /\ UNCHANGED <<key, saves, runners, plugins, asked, held, stream, buildFaults>>

\* POST of a key: into the environment, then a rebuild.
SaveKey ==
    /\ "key" \in Caller /\ place["key"] = "idle" /\ key < MaxKeys
    /\ key' = key + 1
    /\ Rebuild("key") /\ Ended("key", "none")
    /\ UNCHANGED <<slot, served, saves, runners, plugins, asked, notApplied, held, stream, buildFaults>>

-----------------------------------------------------------------------------
(* The head of the queue: one build at a time.                             *)

Heads(c) == builds # <<>> /\ Head(builds) = c
\* A build that fails does not stop the queue.
Advance(outcome) == builds' = Tail(builds)
Finish(c, outcome) == Return(c, outcome) /\ Advance(outcome)

\* start(): the first runner is published; a configuration saved meanwhile has
\* not been seen by any runner yet.
FirstBuilt ==
    /\ Heads("boot") /\ place["boot"] = "first"
    /\ LET r == AnyOf(Building) IN
         /\ runner' = [runner EXCEPT ![r].state = "up"]
         /\ current' = r /\ router' = r /\ loading' = r
         /\ lastBuilt' = runner[r].token
         /\ activity' = {r}
         /\ IF slot.token # runner[r].token
              THEN GoTo("boot", "queued") /\ builds' = Append(Tail(builds), "boot")
              ELSE GoTo("boot", "idle") /\ builds' = Tail(builds)
    /\ UNCHANGED <<config, retired, host, tools, asked, result, notApplied, held, stream, buildFaults>>

Gone(r) == runner' = [runner EXCEPT ![r].state = "failed"]

FirstFails ==
    /\ Heads("boot") /\ place["boot"] = "first"
    /\ buildFaults < MaxBuildFaults /\ buildFaults' = buildFaults + 1
    /\ Gone(AnyOf(Building))
    /\ GoTo("boot", "failed") /\ Advance("error")
    /\ UNCHANGED <<config, current, lastBuilt, retired, activity, router, plugins,
                   asked, result, notApplied, held, stream>>

\* rebuild(): nothing to replace; or the published runner describes the
\* accepted revision already.
UpToDate == lastBuilt = slot.token

Skip(c) ==
    /\ Heads(c) /\ place[c] = "queued"
    /\ \/ current = Nothing /\ Finish(c, "error")
       \/ current # Nothing /\ UpToDate /\ Finish(c, "ok")
    /\ UNCHANGED <<config, runners, plugins, stream, buildFaults>>

\* buildReplacement(): the configuration is read, then idle retired runners are
\* shut down, which is awaited.
Outdated(c) == Heads(c) /\ place[c] = "queued" /\ current # Nothing /\ ~UpToDate
IdleRetired == retired \ Busy

Release(c) ==
    /\ Outdated(c) /\ IdleRetired # {}
    /\ retired' = retired \ IdleRetired
    /\ runner' = Shut(IdleRetired)
    /\ activity' = Sources(current, retired')
    /\ held' = [config |-> slot, old |-> Nothing]
    /\ GoTo(c, "released")
    /\ UNCHANGED <<config, current, lastBuilt, router, plugins, builds, asked, result, notApplied,
                   stream, buildFaults>>

Room == Cardinality(retired) < MaxRetired

\* The configuration it read becomes the accepted one again, and is built.
Begins(c, read) ==
    /\ Room /\ Fresh # {}
    /\ slot' = Accept(read.content)
    /\ runner' = [runner EXCEPT ![AnyOf(Fresh)] = Built(slot')]
    /\ held' = [config |-> slot', old |-> current]
    /\ GoTo(c, "build")
    /\ UNCHANGED <<served, key, saves, current, lastBuilt, retired, activity, router, plugins, builds,
                   asked, result, notApplied, stream, buildFaults>>

RefuseBuild(c) ==
    /\ ~Room
    /\ Finish(c, "error")
    /\ UNCHANGED <<config, runners, plugins, stream, buildFaults>>

PrepareBuild(c) ==
    \/ Outdated(c) /\ IdleRetired = {} /\ (Begins(c, slot) \/ RefuseBuild(c))
    \/ Heads(c) /\ place[c] = "released" /\ (Begins(c, held.config) \/ RefuseBuild(c))

BuildFails(c) ==
    /\ Heads(c) /\ place[c] = "build"
    /\ buildFaults < MaxBuildFaults /\ buildFaults' = buildFaults + 1
    /\ Gone(AnyOf(Building))
    /\ Finish(c, "error")
    /\ UNCHANGED <<config, current, lastBuilt, retired, activity, router, plugins, stream>>

\* server.setRunner: the router of the new runner serves from here on.
Publish(c) ==
    /\ Heads(c) /\ place[c] = "build"
    /\ LET r == AnyOf(Building) IN
         /\ runner' = [runner EXCEPT ![r].state = "up"]
         /\ current' = r /\ router' = r
    /\ lastBuilt' = held.config.token
    /\ GoTo(c, "publish")
    /\ UNCHANGED <<config, retired, activity, plugins, builds, asked, result, notApplied, held, stream, buildFaults>>

\* server.setConfig, and the plugin host moves its tools, which is awaited.
Attach(c) ==
    /\ Heads(c) /\ place[c] = "publish"
    /\ served' = held.config.token
    /\ IF host = Nothing THEN UNCHANGED <<host, tools>> ELSE host' = current /\ tools' = {current}
    /\ GoTo(c, "attach")
    /\ UNCHANGED <<slot, key, saves, runners, loading, builds, asked, result, notApplied, held, stream, buildFaults>>

Retire(c) ==
    /\ Heads(c) /\ place[c] = "attach"
    /\ retired' = retired \cup {held.old}
    /\ activity' = Sources(current, retired')
    /\ Finish(c, "ok")
    /\ UNCHANGED <<config, runner, current, lastBuilt, router, plugins, stream, buildFaults>>

-----------------------------------------------------------------------------
(* The timer of a retired runner, the plugin host and the requests.        *)

Drained_Unasked(r) == TRUE
Drained(r) == r \notin Busy

\* inspectRetired
Inspect(r) ==
    /\ r \in retired /\ Drained(r)
    /\ retired' = retired \ {r}
    /\ runner' = Shut({r})
    /\ activity' = Sources(current, retired')
    /\ UNCHANGED <<config, current, lastBuilt, router, plugins, builds, callers, stream, buildFaults>>

\* loadPluginHost: the host is created for the runner it was asked for, unless
\* that was replaced.
IsCurrent(r) == current = r

LoadHost ==
    /\ loading # Nothing
    /\ loading' = Nothing
    /\ IF IsCurrent(loading) THEN host' = loading /\ tools' = {loading} ELSE UNCHANGED <<host, tools>>
    /\ UNCHANGED <<config, runners, builds, callers, stream, buildFaults>>

\* A request takes the runner, prepares its workspace and attachments, and
\* only then starts a run on it.
OpenStream(s) ==
    /\ stream[s].at = "idle" /\ router # Nothing
    /\ stream' = [stream EXCEPT ![s] = [at |-> "open", on |-> current]]
    /\ UNCHANGED <<config, runners, plugins, builds, callers, buildFaults>>

Run(s) ==
    /\ stream[s].at = "open"
    /\ stream' = [stream EXCEPT ![s].at = IF runner[stream[s].on].state = "up" THEN "run" ELSE "late"]
    /\ UNCHANGED <<config, runners, plugins, builds, callers, buildFaults>>

End(s) ==
    /\ stream[s].at = "run"
    /\ stream' = [stream EXCEPT ![s].at = "done"]
    /\ UNCHANGED <<config, runners, plugins, builds, callers, buildFaults>>

-----------------------------------------------------------------------------
LifecycleInit ==
    /\ \E content \in Content : slot = [token |-> 1, content |-> content]
    /\ served = 1 /\ key = 0 /\ saves = 0
    /\ runner = [r \in RunnerId |-> NoRunner]
    /\ current = Nothing /\ lastBuilt = Nothing /\ retired = {} /\ activity = {} /\ router = Nothing
    /\ host = Nothing /\ tools = {} /\ loading = Nothing
    /\ builds = <<>>
    /\ place = [c \in Caller |-> IF c = "boot" THEN "new" ELSE "idle"]
    /\ asked = [content |-> Nothing, rebuild |-> FALSE]
    /\ result = [c \in Caller |-> "none"]
    /\ notApplied = Nothing /\ held = [config |-> slot, old |-> Nothing]
    /\ stream = [s \in Stream |-> Idle]
    /\ buildFaults = 0

\* Whoever becomes the head decides in the same turn of the event loop: no file
\* is written and no request arrives before that.
Deciding == builds # <<>> /\ place[Head(builds)] = "queued"
Decide(c) == Skip(c) \/ Release(c) \/ PrepareBuild(c)
Build(c) == PrepareBuild(c) \/ BuildFails(c) \/ Publish(c) \/ Attach(c) \/ Retire(c)

LifecycleNext ==
    \/ Deciding /\ \E c \in Caller : Decide(c)
    \/ /\ ~Deciding
       /\ \/ StartBoot \/ FirstBuilt \/ FirstFails
          \/ (\E content \in Content : Save(content)) \/ PersistConfig \/ SaveKey
          \/ \E c \in Caller : Build(c)
          \/ LoadHost
          \/ \E r \in RunnerId : Inspect(r)
          \/ \E s \in Stream : OpenStream(s) \/ Run(s) \/ End(s)

LifecycleSpec == LifecycleInit /\ [][LifecycleNext]_lifecycleVars

\* Builds, file writes and the event loop go on; users and streams owe nothing.
LifecycleFairness == WF_lifecycleVars(Deciding /\ LifecycleNext) /\ WF_lifecycleVars(~Deciding /\ (FirstBuilt \/ PersistConfig \/ \E c \in Caller : Build(c)))

-----------------------------------------------------------------------------
\* Types, and the bound on retired runners: a build is refused before there
\* are more of them (runner-lifecycle.ts, MAX_RETIRED_RUNNERS).
LifecycleTypeOK ==
    /\ slot \in Revision /\ served \in Token
    /\ key \in 0 .. MaxKeys /\ saves \in 0 .. MaxSaves /\ buildFaults \in 0 .. MaxBuildFaults
    /\ runner \in [RunnerId -> Runner]
    /\ {current, router, host, loading} \subseteq RunnerId \cup {Nothing}
    /\ lastBuilt \in Token \cup {Nothing}
    /\ retired \cup activity \cup tools \subseteq RunnerId /\ Cardinality(retired) <= MaxRetired
    /\ builds \in Seq(Caller)
    /\ place \in [Caller -> Place]
    /\ asked \in [content : Content \cup {Nothing}, rebuild : BOOLEAN]
    /\ held \in [config : Revision, old : RunnerId \cup {Nothing}]
    /\ result \in [Caller -> {"none", "ok", "error"}]
    /\ notApplied \in Content \cup {Nothing}
    /\ stream \in [Stream -> Request]

AtRest == builds = <<>>

\* runtime-config-change.ts: a save that was reported as done is what the next
\* run is configured by, whatever failed before it and whatever was building
\* when it came, until a key is saved.
SavedIsInEffect ==
    "save" \in Caller /\ key = 0 /\ current # Nothing /\ result["save"] = "ok" =>
        runner[current].content = asked.content

\* plugin-host-startup.ts, plugins/src/host.ts: while nothing is replaced, the
\* plugin host and its tools are with the published runner, however late the
\* host was loaded.
HostFollows == AtRest /\ host # Nothing => host = current /\ tools = {current}

\* runner-lifecycle.ts: a runner that is up is published, retired or being
\* replaced; the one that serves is up; nobody else's runs go on.
Replaced == {held.old : c \in {d \in Caller : place[d] \in {"publish", "attach"}}}
NoRunnerIsLost ==
    /\ Up = (retired \cup Replaced \cup {current}) \ {Nothing}
    /\ Busy \subseteq Up

\* run-activity-monitor.ts: every run can be seen and stopped, except, until a
\* replacement ends, those of the runner just published; and of the one it replaces,
\* which is no source when a retired runner is inspected in between.
RunsAreWatched == Busy \subseteq activity \cup Replaced \cup (IF Replaced = {} THEN {} ELSE {current})

\* All of them.
RunnersAreKept == LifecycleTypeOK /\ NoRunnerIsLost /\ RunsAreWatched /\ HostFollows

\* runner-lifecycle.ts, enqueue; runtime-config-change.ts: a save is answered,
\* whatever failed in the queue before it.
SavesReturn == place["save"] \in {"persist", "queued"} ~> place["save"] = "idle"

\* index.ts, 91 and 525: a saved key is in effect once its request is answered.
KeyIsUsed == "key" \in Caller /\ result["key"] = "ok" => runner[current].key = key
=============================================================================
