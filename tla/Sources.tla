------------------------------- MODULE Sources -------------------------------
(***************************************************************************)
(* The trigger sources: the cron wheel (src/sources/cron.rs), the webhook  *)
(* listener (src/webserver/axum_listener.rs), and the hot-reload that      *)
(* gives both their duties (src/harness/ingest.rs, src/stimuli/mod.rs).    *)
(* Both put fired triggers on one bounded channel; what the ingestor does  *)
(* with one is module Ingest's business.                                   *)
(*                                                                         *)
(* A duty's schedule is the set of the instants at which it is due.  Each  *)
(* file event spawns a reload task of its own: two of them interleave.     *)
(***************************************************************************)
EXTENDS FiniteSetsExt, Sequences, Functions

CONSTANTS
  Duty,        \* duty ids
  HookPath,    \* webhook paths
  Roster,      \* what stimuli/ may hold: sets of functions from duties to triggers
  FirstRoster, \* what it holds when the daemon boots
  Reloader,    \* reload tasks that may be at work at once
  Capacity,    \* the bound of the trigger channel
  Park,        \* how long a wheel without a schedule sleeps
  MaxClock,    \* bound: instants
  MaxChanges,  \* bound: edits of stimuli/
  MaxPosts     \* bound: webhook requests

Trigger ==
  [kind : {"cron"}, at : SUBSET (1 .. MaxClock)] \cup [kind : {"webhook"}, path : HookPath]
    \cup {[kind |-> "none"]}

ASSUME SourcesAssumption ==
  /\ Roster \subseteq [Duty -> Trigger] /\ FirstRoster \in Roster
  /\ {Capacity, Park} \subseteq Nat \ {0}
  /\ {MaxClock, MaxChanges, MaxPosts} \subseteq Nat

VARIABLES
  clock,
  disk,       \* stimuli/
  events,     \* file events whose reload has not read the disk yet
  watching,   \* the watcher is set up
  registry,   \* the duties in force
  schedules,  \* CronWheel.schedules: the cron duties' instants
  permit,     \* the permit stored in CronWheel.notify
  routes,     \* Inner.routes
  reload,     \* reload[k]: [at, roster]
  wheel,      \* [at, snapshot, now, due]: the loop of the wheel
  channel,    \* duties fired and not yet taken
  request,    \* [at, def]: a webhook request being handled
  changes, posts,  \* what the bounds count
  lastFire,   \* history: lastFire[d], the last instant that d fired for
  overlap,    \* history: the last reload to begin found another at work
  unseen      \* history: stimuli/ changed before the watcher, and no reload since

wheelVars == <<wheel, lastFire>>
reloadVars == <<reload, overlap, unseen>>
tables == <<registry, schedules, permit, routes>>
sourcesVars == <<clock, disk, events, watching, tables, reloadVars, wheelVars, channel,
                 request, changes, posts>>

NoDuty == "none"
Fresh == [at |-> "plan", snapshot |-> << >>, now |-> 0, due |-> {}]
IdleReload == [at |-> "idle", roster |-> << >>]
NoRequest == [at |-> "none", def |-> NoDuty]

\* A cron expression that does not parse is an empty schedule: reschedule skips it.
CronRoutes(r) ==
  [d \in {x \in Duty : r[x].kind = "cron" /\ r[x].at # {}} |-> r[d].at]

\* Where two duties claim a path, either may have it.
WebhookRoutes(r) ==
  {t \in [HookPath -> Duty \cup {NoDuty}] :
     \A p \in HookPath :
       LET claims == {d \in Duty : r[d].kind = "webhook" /\ r[d].path = p} IN
       IF claims = {} THEN t[p] = NoDuty ELSE t[p] \in claims}

\* Mutant of Later: an instant counts as after itself.
NotBefore(s, after) == {x \in s : x >= after}

Later(s, after) == {x \in s : x > after}
NextFire(s, after) == {x \in Later(s, after) : \A y \in Later(s, after) : x <= y}

\* Boot fills the tables before any task runs, and the watcher comes after the sources.
SourcesInit ==
  /\ clock = 0 /\ disk = FirstRoster /\ events = 0 /\ watching = FALSE
  /\ registry = FirstRoster /\ schedules = CronRoutes(FirstRoster) /\ permit = TRUE
  /\ routes \in WebhookRoutes(FirstRoster)
  /\ reload = [k \in Reloader |-> IdleReload]
  /\ wheel = Fresh /\ channel = << >> /\ request = NoRequest
  /\ changes = 0 /\ posts = 0
  /\ lastFire = [d \in Duty |-> 0] /\ overlap = FALSE /\ unseen = FALSE

TimePasses ==
  /\ clock < MaxClock /\ clock' = clock + 1
  /\ UNCHANGED <<disk, events, watching, tables, reloadVars, wheelVars, channel, request,
                 changes, posts>>

----------------------------------------------------------------------------
(* The wheel.                                                              *)

\* The next instant of each duty of the snapshot.
Ticks == UNION {{<<d, x>> : x \in NextFire(wheel.snapshot[d], wheel.now)} : d \in DOMAIN wheel.snapshot}

Plan ==
  /\ wheel.at = "plan"
  /\ wheel' = [at |-> "sleep", snapshot |-> schedules, now |-> clock, due |-> {}]
  /\ UNCHANGED <<clock, disk, events, watching, tables, reloadVars, channel, request,
                 changes, posts, lastFire>>

SleepsUntil == IF Ticks = {} THEN wheel.now + Park ELSE Min({tick[2] : tick \in Ticks})

\* The sleep is over: every duty due by now fires, of the snapshot slept on.
WakeWheel ==
  /\ wheel.at = "sleep" /\ clock >= SleepsUntil
  /\ LET due == {tick \in Ticks : tick[2] <= clock} IN
     wheel' = [wheel EXCEPT !.at = IF due = {} THEN "plan" ELSE "fire", !.due = due]
  /\ UNCHANGED <<clock, disk, events, watching, tables, reloadVars, channel, request,
                 changes, posts, lastFire>>

\* A permit ends the sleep, even one that is over: what was due is not fired.
Notified ==
  /\ wheel.at = "sleep" /\ permit
  /\ permit' = FALSE
  /\ wheel' = [wheel EXCEPT !.at = "plan"]
  /\ UNCHANGED <<clock, disk, events, watching, registry, schedules, routes, reloadVars,
                 channel, request, changes, posts, lastFire>>

\* One send; a full channel holds the wheel here.
Fire(tick) ==
  /\ wheel.at = "fire" /\ tick \in wheel.due /\ Len(channel) < Capacity
  /\ channel' = Append(channel, tick[1])
  /\ wheel' = [wheel EXCEPT !.due = @ \ {tick}, !.at = IF wheel.due = {tick} THEN "plan" ELSE @]
  /\ lastFire' = [lastFire EXCEPT ![tick[1]] = tick[2]]
  /\ UNCHANGED <<clock, disk, events, watching, tables, reloadVars, request, changes, posts>>

----------------------------------------------------------------------------
(* The listener.                                                           *)

\* POST to a registered path; other methods and paths are answered at once.
Post(p) ==
  /\ posts < MaxPosts /\ request.at = "none" /\ routes[p] # NoDuty
  /\ request' = [at |-> "body", def |-> routes[p]]
  /\ posts' = posts + 1
  /\ UNCHANGED <<clock, disk, events, watching, tables, reloadVars, wheelVars, channel, changes>>

\* The body arrived, or was too long or broke off (400).
Body(good) ==
  /\ request.at = "body"
  /\ request' = IF good THEN [request EXCEPT !.at = "send"] ELSE NoRequest
  /\ UNCHANGED <<clock, disk, events, watching, tables, reloadVars, wheelVars, channel,
                 changes, posts>>

\* 202, once there is room.
Accepted ==
  /\ request.at = "send" /\ Len(channel) < Capacity
  /\ channel' = Append(channel, request.def)
  /\ request' = NoRequest
  /\ UNCHANGED <<clock, disk, events, watching, tables, reloadVars, wheelVars, changes, posts>>

\* The ingestor takes the next fired trigger.
TakeFired ==
  /\ channel # << >>
  /\ channel' = Tail(channel)
  /\ UNCHANGED <<clock, disk, events, watching, tables, reloadVars, wheelVars, request,
                 changes, posts>>

----------------------------------------------------------------------------
(* The hot-reload.                                                         *)

Edit(r) ==
  /\ changes < MaxChanges /\ r # disk
  /\ disk' = r /\ changes' = changes + 1
  /\ events' = IF watching THEN events + 1 ELSE events
  /\ unseen' = (unseen \/ ~watching)
  /\ UNCHANGED <<clock, watching, tables, reload, overlap, wheelVars, channel, request, posts>>

Watch ==
  /\ ~watching /\ watching' = TRUE
  /\ UNCHANGED <<clock, disk, events, tables, reloadVars, wheelVars, channel, request,
                 changes, posts>>

\* The task that an event spawned reads the disk.
Load(k) ==
  /\ events > 0 /\ reload[k].at = "idle"
  /\ events' = events - 1
  /\ reload' = [reload EXCEPT ![k] = [at |-> "swap", roster |-> disk]]
  /\ overlap' = (\E j \in Reloader : reload[j].at # "idle")
  /\ unseen' = FALSE
  /\ UNCHANGED <<clock, disk, watching, tables, wheelVars, channel, request, changes, posts>>

Goto(k, at) == reload' = [reload EXCEPT ![k].at = at]

Swap(k) ==
  /\ reload[k].at = "swap"
  /\ registry' = reload[k].roster
  /\ Goto(k, "schedule")
  /\ UNCHANGED <<clock, disk, events, watching, schedules, permit, routes, overlap, unseen,
                 wheelVars, channel, request, changes, posts>>

SetSchedules(k) ==
  /\ reload[k].at = "schedule"
  /\ schedules' = CronRoutes(reload[k].roster)
  /\ Goto(k, "notify")
  /\ UNCHANGED <<clock, disk, events, watching, registry, permit, routes, overlap, unseen,
                 wheelVars, channel, request, changes, posts>>

\* Mutant of Notify: the new schedule waits for the wheel to wake by itself.
NotifyNone(k) ==
  /\ reload[k].at = "notify"
  /\ permit' = permit
  /\ Goto(k, "routes")
  /\ UNCHANGED <<clock, disk, events, watching, registry, schedules, routes, overlap, unseen,
                 wheelVars, channel, request, changes, posts>>

Notify(k) ==
  /\ reload[k].at = "notify"
  /\ permit' = TRUE
  /\ Goto(k, "routes")
  /\ UNCHANGED <<clock, disk, events, watching, registry, schedules, routes, overlap, unseen,
                 wheelVars, channel, request, changes, posts>>

SetRoutes(k) ==
  /\ reload[k].at = "routes"
  /\ routes' \in WebhookRoutes(reload[k].roster)
  /\ reload' = [reload EXCEPT ![k] = IdleReload]
  /\ UNCHANGED <<clock, disk, events, watching, registry, schedules, permit, overlap, unseen,
                 wheelVars, channel, request, changes, posts>>

SourcesNext ==
  \/ TimePasses
  \/ Plan \/ WakeWheel \/ Notified \/ (\E tick \in wheel.due : Fire(tick))
  \/ (\E p \in HookPath : Post(p)) \/ (\E good \in BOOLEAN : Body(good))
  \/ Accepted \/ TakeFired
  \/ (\E r \in Roster : Edit(r)) \/ Watch
  \/ \E k \in Reloader :
       Load(k) \/ Swap(k) \/ SetSchedules(k) \/ Notify(k) \/ SetRoutes(k)

SourcesSpec == SourcesInit /\ [][SourcesNext]_sourcesVars

----------------------------------------------------------------------------
(* Properties.                                                             *)

Schedules == {CronRoutes(r) : r \in Roster}

SourcesTypeOK ==
  /\ clock \in 0 .. MaxClock /\ disk \in Roster /\ registry \in Roster
  /\ {events, changes, posts} \subseteq Nat
  /\ {watching, permit, overlap, unseen} \subseteq BOOLEAN
  /\ schedules \in Schedules /\ routes \in [HookPath -> Duty \cup {NoDuty}]
  /\ reload \in [Reloader -> [at : {"swap", "schedule", "notify", "routes"}, roster : Roster]
                              \cup {IdleReload}]
  /\ wheel \in [at : {"plan", "sleep", "fire"}, snapshot : Schedules \cup {<< >>},
                 now : 0 .. clock, due : SUBSET (Duty \X (1 .. clock))]
  /\ channel \in Seq(Duty) /\ Len(channel) <= Capacity
  /\ request \in [at : {"none", "body", "send"}, def : Duty \cup {NoDuty}]
  /\ lastFire \in [Duty -> 0 .. clock]

\* A duty fires once for an instant it is due at, however late the wheel wakes, however
\* long a full channel holds it, and whatever is rescheduled meanwhile.
FiresOnce ==
  \A tick \in wheel.due : tick[2] > lastFire[tick[1]]

\* ingest.rs, reload: a change of stimuli/ reaches the registry, the wheel and the
\* listener.  When no event and no reload is left, all three hold what the disk holds,
\* but for a change that two reloads ran over each other for, or that came before the
\* watcher; and a wheel that sleeps on an older schedule is about to be notified.
ReloadReachesSources ==
  /\ events = 0 /\ (\A k \in Reloader : reload[k].at = "idle") /\ ~overlap /\ ~unseen
       => registry = disk /\ schedules = CronRoutes(disk) /\ routes \in WebhookRoutes(disk)
  /\ wheel.at = "sleep" /\ wheel.snapshot # schedules
       => permit \/ \E k \in Reloader : reload[k].at = "notify"
=============================================================================
