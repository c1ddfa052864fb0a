---------------------------- MODULE OpAmpReporter ----------------------------
(***************************************************************************)
(* OpAmpReporter: the reports a plugin owes an OpAMP server (OpAmp/        *)
(* OpAmpReporter.cs).                                                      *)
(*                                                                         *)
(* Plugin notifications and server messages only change the scheduling     *)
(* state, each in one section of _stateLock.  Reports are made by the      *)
(* callbacks of two one-shot timers on pool threads: they claim their work *)
(* under _stateLock, report under _reportLock while the plugin's providers *)
(* run for as long as they like, and reschedule under _stateLock again.    *)
(* _serverAcceptsEffectiveConfig and _stopped are volatile and are read    *)
(* outside the lock, one read per step.                                    *)
(***************************************************************************)
EXTENDS Naturals, FiniteSets

CONSTANTS Workers,    \* threads of the pool the timers queue their callbacks to
          NoWorker    \* nobody holds _reportLock

ASSUME NoWorkerAssumption == NoWorker \notin Workers

VARIABLES
    providers,     \* the report kinds the plugin provides
    accepts,       \* _serverAcceptsEffectiveConfig
    pending,       \* _pendingPluginReports
    fullPending,   \* _fullStatePending
    phase,         \* _fullStatePhase
    drainActive,   \* _pluginReportDrainActive
    stopped,       \* _stopped
    timer,         \* the due time of _pluginReportTimer and _fullStateTimer
    reportLock,    \* the holder of _reportLock
    pc,            \* what each pool thread is doing
    use,           \* its place in TryUseEffectiveConfigCapability
    reports,       \* the claimed kinds whose provider it has not called yet
    files          \* the effective configuration it read is not null

\* Kept for the properties only.
VARIABLES
    owed,          \* kinds notified since the last provider call that was not thrown away
    cooling,       \* less than FullStateReportInterval since the last full-state attempt
    seen           \* the capability held at some time since this thread's provider answered

schedVars == <<pending, fullPending, phase, drainActive, timer>>
workVars == <<reportLock, pc, use, reports, files>>
vars == <<providers, accepts, stopped, schedVars, workVars, owed, cooling, seen>>

Effective == "EffectiveConfig"
Status == "RemoteConfigStatus"
Kinds == {Effective, Status}
Timers == {"plugin", "full"}

PluginClaimed == {"lock", "use", "read", "reading", "reuse", "send", "status",
                  "statusReading", "statusCheck", "statusSend", "unlock", "final"}
FullClaimed == {"fLock", "fAccepts", "fRead", "fReading", "fStatus", "fStatusReading",
                "fStopped", "fRecheck", "fSend", "fUnlock", "fFinal"}

\* The threads that run, or are queued to run, the callback of a timer.
Running(t) ==
    {w \in Workers : pc[w] \in IF t = "plugin" THEN PluginClaimed \cup {"queued"}
                                               ELSE FullClaimed \cup {"fQueued"}}

TypeOK ==
    /\ providers \subseteq Kinds /\ accepts \in BOOLEAN
    /\ pending \subseteq Kinds /\ fullPending \in BOOLEAN
    /\ phase \in {"Idle", "Waiting", "Reporting"}
    /\ drainActive \in BOOLEAN /\ stopped \in BOOLEAN
    /\ timer \in [Timers -> {"off", "now", "interval"}]
    /\ reportLock \in Workers \cup {NoWorker}
    /\ pc \in [Workers -> {"free", "queued", "fQueued"} \cup PluginClaimed \cup FullClaimed]
    /\ use \in [Workers -> {"fast", "stop", "slow"}]
    /\ reports \in [Workers -> SUBSET Kinds]
    /\ files \in [Workers -> BOOLEAN]
    /\ owed \subseteq Kinds /\ cooling \in BOOLEAN
    /\ seen \in [Workers -> BOOLEAN]

Init ==
    /\ providers \in SUBSET Kinds
    /\ accepts = FALSE
    /\ pending = {} /\ fullPending = FALSE
    /\ phase = "Idle" /\ drainActive = FALSE /\ stopped = FALSE
    /\ timer = [t \in Timers |-> "off"]
    /\ reportLock = NoWorker
    /\ pc = [w \in Workers |-> "free"]
    /\ use = [w \in Workers |-> "fast"]
    /\ reports = [w \in Workers |-> {}]
    /\ files = [w \in Workers |-> FALSE]
    /\ owed = {} /\ cooling = FALSE
    /\ seen = [w \in Workers |-> FALSE]

----------------------------------------------------------------------------
(* Scheduling, under _stateLock.                                           *)

GetEligiblePluginReports(kinds, acc) == IF acc THEN kinds ELSE kinds \ {Effective}

\* Mutant: a capability change never schedules what it unblocks.
MutantTrySchedulePendingPluginReports(kinds, acc, active) ==
    IF active \/ GetEligiblePluginReports(kinds, accepts) = {}
    THEN drainActive' = active /\ UNCHANGED timer
    ELSE drainActive' = TRUE /\ timer' = [timer EXCEPT !["plugin"] = "now"]

\* The flags after the caller's section: kinds pending, the capability, the drain flag.
TrySchedulePendingPluginReports(kinds, acc, active) ==
    IF active \/ GetEligiblePluginReports(kinds, acc) = {}
    THEN drainActive' = active /\ UNCHANGED timer
    ELSE drainActive' = TRUE /\ timer' = [timer EXCEPT !["plugin"] = "now"]

\* NotifyEffectiveConfigChanged and NotifyRemoteConfigStatusChanged.
NotifyPluginReport(k) ==
    /\ k \in providers /\ ~stopped
    /\ pending' = pending \cup {k}
    /\ owed' = owed \cup {k}
    /\ TrySchedulePendingPluginReports(pending \cup {k}, accepts, drainActive)
    /\ UNCHANGED <<providers, accepts, stopped, fullPending, phase, workVars, cooling, seen>>

\* A nonzero advertisement; only subscribed when the plugin provides the configuration.
HandleServerCapabilities(acc) ==
    /\ Effective \in providers /\ ~stopped
    /\ accepts' = acc
    /\ seen' = [w \in Workers |-> seen[w] \/ (acc /\ files[w])]
    /\ TrySchedulePendingPluginReports(pending, acc, drainActive)
    /\ UNCHANGED <<providers, stopped, pending, fullPending, phase, workVars, owed, cooling>>

\* Mutant: the request restarts the timer in every phase.
MutantReportFullState ==
    /\ ~stopped
    /\ fullPending' = TRUE
    /\ IF phase # "Reporting"
       THEN timer' = [timer EXCEPT !["full"] = "now"] /\ phase' = "Waiting"
       ELSE UNCHANGED <<timer, phase>>
    /\ UNCHANGED <<providers, accepts, stopped, pending, drainActive, workVars, owed, cooling, seen>>

\* The server's ReportFullState flag.
ReportFullState ==
    /\ ~stopped
    /\ fullPending' = TRUE
    /\ IF phase = "Idle"
       THEN timer' = [timer EXCEPT !["full"] = "now"] /\ phase' = "Waiting"
       ELSE UNCHANGED <<timer, phase>>
    /\ UNCHANGED <<providers, accepts, stopped, pending, drainActive, workVars, owed, cooling, seen>>

\* Queued and running callbacks are not waited for.
Stop ==
    /\ ~stopped
    /\ stopped' = TRUE
    /\ pending' = {} /\ fullPending' = FALSE
    /\ phase' = "Idle" /\ drainActive' = FALSE
    /\ timer' = [t \in Timers |-> "off"]
    /\ owed' = {}
    /\ UNCHANGED <<providers, accepts, workVars, cooling, seen>>

\* A due timer queues its callback; Timer.Change left no further due time.
TimerFires(t, w) ==
    /\ pc[w] = "free"
    /\ timer[t] = "now" \/ (timer[t] = "interval" /\ ~cooling)
    /\ timer' = [timer EXCEPT ![t] = "off"]
    /\ pc' = [pc EXCEPT ![w] = IF t = "plugin" THEN "queued" ELSE "fQueued"]
    /\ UNCHANGED <<providers, accepts, stopped, pending, fullPending, phase, drainActive,
                   reportLock, use, reports, files, owed, cooling, seen>>

\* FullStateReportInterval has passed since the last attempt.
IntervalElapses ==
    /\ cooling
    /\ cooling' = FALSE
    /\ UNCHANGED <<providers, accepts, stopped, schedVars, workVars, owed, seen>>

----------------------------------------------------------------------------
(* What both callbacks do.                                                 *)

Goto(w, at, next) == pc[w] = at /\ pc' = [pc EXCEPT ![w] = next]

\* Entering and leaving the section of _reportLock.
AcquireReportLock(w, at, next) ==
    /\ Goto(w, at, next)
    /\ reportLock = NoWorker
    /\ reportLock' = w
    /\ UNCHANGED <<providers, accepts, stopped, schedVars, use, reports, files, owed, cooling, seen>>

ReleaseReportLock(w, at, next) ==
    /\ Goto(w, at, next)
    /\ reportLock' = NoWorker
    /\ files' = [files EXCEPT ![w] = FALSE]
    /\ seen' = [seen EXCEPT ![w] = FALSE]
    /\ UNCHANGED <<providers, accepts, stopped, schedVars, use, reports, owed, cooling>>

\* A step that only reads volatile flags and moves on.
Decide(w, at, next) ==
    /\ Goto(w, at, next)
    /\ UNCHANGED <<providers, accepts, stopped, schedVars, reportLock, use, reports, files, owed, cooling, seen>>

\* Mutant: a report the server no longer accepts is dropped, not kept for later.
MutantUseSlow(w, at, no) ==
    /\ pc' = [pc EXCEPT ![w] = no]
    /\ UNCHANGED pending
    /\ owed' = IF stopped THEN owed ELSE owed \cup {Effective}

\* The section of _stateLock: the capability is gone, so the report is pending again.
UseSlow(w, at, no) ==
    /\ pc' = [pc EXCEPT ![w] = no]
    /\ pending' = IF stopped THEN pending ELSE pending \cup {Effective}
    /\ owed' = IF stopped THEN owed ELSE owed \cup {Effective}

\* TryUseEffectiveConfigCapability: two volatile reads, then the section of _stateLock.
TryUse(w, at, yes, no) ==
    /\ pc[w] = at
    /\ \/ /\ use[w] = "fast"
          /\ use' = [use EXCEPT ![w] = IF accepts THEN "stop" ELSE "slow"]
          /\ UNCHANGED <<pc, pending, owed, reports>>
       \/ /\ use[w] = "stop" /\ stopped
          /\ use' = [use EXCEPT ![w] = "slow"]
          /\ UNCHANGED <<pc, pending, owed, reports>>
       \/ /\ ~stopped /\ (use[w] = "stop" \/ (use[w] = "slow" /\ accepts))
          /\ use' = [use EXCEPT ![w] = "fast"]
          /\ pc' = [pc EXCEPT ![w] = yes]
          /\ UNCHANGED <<pending, owed, reports>>
       \/ /\ use[w] = "slow" /\ (stopped \/ ~accepts)
          /\ use' = [use EXCEPT ![w] = "fast"]
          /\ reports' = [reports EXCEPT ![w] = @ \ {Effective}]
          /\ UseSlow(w, at, no)
    /\ UNCHANGED <<providers, accepts, stopped, fullPending, phase, drainActive, timer,
                   reportLock, files, cooling, seen>>

\* ReadEffectiveConfig and ReadRemoteConfigStatus: the provider is called unless stopped.
CallProvider(w, k, at, calling, skip) ==
    /\ LET calls == ~stopped /\ k \in providers IN
       /\ Goto(w, at, IF calls THEN calling ELSE skip)
       /\ IF calls /\ pc[w] \in PluginClaimed
          THEN owed' = owed \ {k} ELSE UNCHANGED owed
    /\ reports' = [reports EXCEPT ![w] = @ \ {k}]
    /\ UNCHANGED <<providers, accepts, stopped, schedVars, reportLock, use, files, cooling, seen>>

\* The provider answers with a configuration; seen starts again at this point.
ProviderAnswers(w, at, next) ==
    /\ Goto(w, at, next)
    /\ files' = [files EXCEPT ![w] = TRUE]
    /\ seen' = [seen EXCEPT ![w] = accepts]
    /\ UNCHANGED <<providers, accepts, stopped, schedVars, reportLock, use, reports, owed, cooling>>

----------------------------------------------------------------------------
(* HandleScheduledPluginReports.                                           *)

AfterEffective(w) == IF Status \in reports[w] THEN "status" ELSE "unlock"

\* Claim the eligible kinds under _stateLock; none of them left means straight to finally.
ClaimPluginReports(w) ==
    /\ pc[w] = "queued"
    /\ LET claimed == GetEligiblePluginReports(pending, accepts) IN
       IF stopped \/ ~drainActive
       THEN pc' = [pc EXCEPT ![w] = "free"] /\ UNCHANGED <<pending, reports>>
       ELSE /\ pc' = [pc EXCEPT ![w] = IF claimed = {} THEN "final" ELSE "lock"]
            /\ reports' = [reports EXCEPT ![w] = claimed]
            /\ pending' = pending \ claimed
    /\ UNCHANGED <<providers, accepts, stopped, fullPending, phase, drainActive, timer,
                   reportLock, use, files, owed, cooling, seen>>

\* The provider may also throw, which ends the report as a null answer does.
ReportEffectiveConfig(w) ==
    \/ TryUse(w, "use", "read", AfterEffective(w))
    \/ CallProvider(w, Effective, "read", "reading", AfterEffective(w))
    \/ ProviderAnswers(w, "reading", "reuse")
    \/ Decide(w, "reading", AfterEffective(w))
    \/ TryUse(w, "reuse", "send", AfterEffective(w))
    \/ Decide(w, "send", AfterEffective(w))

ReportRemoteConfigStatus(w) ==
    \/ CallProvider(w, Status, "status", "statusReading", "unlock")
    \/ Decide(w, "statusReading", "statusCheck")
    \/ Decide(w, "statusReading", "unlock")
    \/ Decide(w, "statusCheck", IF stopped THEN "unlock" ELSE "statusSend")
    \/ Decide(w, "statusSend", "unlock")

\* Mutant: the drain ends without looking for work that arrived meanwhile.
MutantFinishPluginReports(w) ==
    /\ Goto(w, "final", "free")
    /\ drainActive' = FALSE
    /\ UNCHANGED <<providers, accepts, stopped, pending, fullPending, phase, timer,
                   reportLock, use, reports, files, owed, cooling, seen>>

\* The finally block, under _stateLock.
FinishPluginReports(w) ==
    /\ Goto(w, "final", "free")
    /\ IF stopped
       THEN drainActive' = FALSE /\ UNCHANGED timer
       ELSE TrySchedulePendingPluginReports(pending, accepts, FALSE)
    /\ UNCHANGED <<providers, accepts, stopped, pending, fullPending, phase,
                   reportLock, use, reports, files, owed, cooling, seen>>

PluginCallback(w) ==
    \/ ClaimPluginReports(w)
    \/ ReportEffectiveConfig(w)
    \/ ReportRemoteConfigStatus(w)
    \/ ReleaseReportLock(w, "unlock", "final")
    \/ FinishPluginReports(w)

PluginTakesLock(w) ==
    AcquireReportLock(w, "lock", IF Effective \in reports[w] THEN "use" ELSE "status")

----------------------------------------------------------------------------
(* HandleScheduledFullState.                                               *)

\* Under _stateLock: a callback that finds no request ends the cooldown.
ClaimFullState(w) ==
    /\ pc[w] = "fQueued"
    /\ IF stopped \/ phase # "Waiting"
       THEN pc' = [pc EXCEPT ![w] = "free"] /\ UNCHANGED <<fullPending, phase>>
       ELSE /\ pc' = [pc EXCEPT ![w] = IF fullPending THEN "fLock" ELSE "free"]
            /\ phase' = IF fullPending THEN "Reporting" ELSE "Idle"
            /\ fullPending' = FALSE
    /\ UNCHANGED <<providers, accepts, stopped, pending, drainActive, timer,
                   reportLock, use, reports, files, owed, cooling, seen>>

\* Mutant: the revocation that arrived while a provider ran is not looked at.
MutantRecheckFullState(w) == Decide(w, "fRecheck", "fSend")

\* The configuration is left out when the capability is gone by now.
RecheckFullState(w) ==
    /\ Goto(w, "fRecheck", "fSend")
    /\ files' = [files EXCEPT ![w] = @ /\ accepts]
    /\ UNCHANGED <<providers, accepts, stopped, schedVars, reportLock, use, reports, owed, cooling, seen>>

\* ReportFullStateCore; an exception of a provider is a null answer, one of the sender is logged.
ReportFullStateCore(w) ==
    \/ Decide(w, "fAccepts", IF accepts THEN "fRead" ELSE "fStatus")
    \/ CallProvider(w, Effective, "fRead", "fReading", "fStatus")
    \/ ProviderAnswers(w, "fReading", "fStatus")
    \/ Decide(w, "fReading", "fStatus")
    \/ CallProvider(w, Status, "fStatus", "fStatusReading", "fStopped")
    \/ Decide(w, "fStatusReading", "fStopped")
    \/ Decide(w, "fStopped", IF stopped THEN "fUnlock" ELSE "fRecheck")
    \/ RecheckFullState(w)
    \/ Decide(w, "fSend", "fUnlock")

\* The finally block: every attempt, failed ones too, starts the interval.
FinishFullState(w) ==
    /\ Goto(w, "fFinal", "free")
    /\ cooling' = TRUE
    /\ IF stopped
       THEN phase' = "Idle" /\ UNCHANGED timer
       ELSE phase' = "Waiting" /\ timer' = [timer EXCEPT !["full"] = "interval"]
    /\ UNCHANGED <<providers, accepts, stopped, pending, fullPending, drainActive,
                   reportLock, use, reports, files, owed, seen>>

FullCallback(w) ==
    \/ ClaimFullState(w)
    \/ ReportFullStateCore(w)
    \/ ReleaseReportLock(w, "fUnlock", "fFinal")
    \/ FinishFullState(w)

FullTakesLock(w) == AcquireReportLock(w, "fLock", "fAccepts")

----------------------------------------------------------------------------
Next ==
    \/ \E k \in Kinds : NotifyPluginReport(k)
    \/ \E acc \in BOOLEAN : HandleServerCapabilities(acc)
    \/ ReportFullState
    \/ Stop
    \/ IntervalElapses
    \/ \E w \in Workers :
          \/ \E t \in Timers : TimerFires(t, w)
          \/ PluginCallback(w) \/ PluginTakesLock(w)
          \/ FullCallback(w) \/ FullTakesLock(w)

Spec == Init /\ [][Next]_vars

\* Pool threads run, providers return, timers fire and the monitor starves no waiter.
Fairness ==
    /\ WF_vars(IntervalElapses)
    /\ \A t \in Timers : WF_vars(\E w \in Workers : TimerFires(t, w))
    /\ \A w \in Workers :
          /\ WF_vars(PluginCallback(w)) /\ WF_vars(FullCallback(w))
          /\ SF_vars(PluginTakesLock(w)) /\ SF_vars(FullTakesLock(w))

FairSpec == Spec /\ Fairness

----------------------------------------------------------------------------
(* A change the plugin announced is never forgotten while the reporter     *)
(* runs: it is still pending, or a claimed drain has yet to call the       *)
(* provider for it.  Notifications during a provider call and revocations  *)
(* between the call and the submission (TryUseEffectiveConfigCapability)   *)
(* are the hard cases.                                                     *)
NothingForgotten ==
    ~stopped => \A k \in owed :
        k \in pending \/ \E w \in Running("plugin") : k \in reports[w]

(* Each timer has at most one callback due, queued or running, whatever    *)
(* arrives meanwhile, and while the reporter runs the scheduling flags say *)
(* exactly that: no eligible report waits without a callback to take it.   *)
ScheduledOnce ==
    /\ \A t \in Timers :
          /\ \A v, w \in Running(t) : v = w
          /\ timer[t] # "off" => Running(t) = {}
    /\ ~stopped =>
          /\ drainActive <=> (timer["plugin"] # "off" \/ Running("plugin") # {})
          /\ phase # "Idle" <=> (timer["full"] # "off" \/ Running("full") # {})
          /\ GetEligiblePluginReports(pending, accepts) # {} => drainActive
          /\ fullPending => phase # "Idle"

(* Effective configuration is submitted only if the server accepted it at  *)
(* some time after the provider had answered: a revocation processed       *)
(* before that answer is always reflected in the message.                  *)
RevocationIsHonoured ==
    \A w \in Workers :
        pc[w] = "send" \/ (pc[w] = "fSend" /\ files[w]) => seen[w]

(* Two full-state attempts are at least FullStateReportInterval apart,     *)
(* however many requests the server sends and whether or not they fail.    *)
IntervalIsKept ==
    [][\A w \in Workers : pc[w] = "fQueued" /\ pc'[w] = "fLock" => ~cooling]_vars

(* Every announced change is read from the plugin again, and every         *)
(* full-state request is taken up, unless the reporter is stopped or the   *)
(* server does not accept the configuration.                               *)
EveryRequestIsServed ==
    /\ \A k \in Kinds : (k \in owed) ~> (k \notin owed \/ stopped \/ (k = Effective /\ ~accepts))
    /\ fullPending ~> ~fullPending
==============================================================================
