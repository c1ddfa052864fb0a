---------------------------- MODULE OpAmpLifecycle ----------------------------
(***************************************************************************)
(* The life of the OpAMP client: OpAmpLoader and OpAmpManager from         *)
(* preparation to disposal (OpAmpLoader.cs, OpAmpManager.cs,               *)
(* OpAmpClientProxy.cs, Instrumentation.cs).                               *)
(*                                                                         *)
(* Five threads of control: the initialisation, which prepares and starts  *)
(* the client; the startup task; the exit handler or the preparation in    *)
(* StopManager; the stop task; and the forced cleanup that the deadline of *)
(* StopManager sets off.  The upstream client and the plugin's callbacks   *)
(* are external: each call of them may fail, and may also never return.    *)
(***************************************************************************)
EXTENDS Naturals

VARIABLES
    prep,            \* the initialisation thread
    manager,         \* where the OpAmpManager is
    loaderStopped,   \* OpAmpLoader._stopped
    exited,          \* the exit handler has entered StopOpAmpClientIfRunning
    stopper,         \* the call of StopManager
    shutdownStarted, \* _shutdownStarted
    startup,         \* _startupTask
    cancelled,       \* the startup token is cancelled
    stopTask,        \* the task of StopOpAmpClientCoreAsync
    lifecycle,       \* the holder of _pluginLifecycleLock
    forceRequested,  \* _forceShutdownRequested
    forced,          \* the forced cleanup and its continuation
    disposing,       \* the calls of Dispose by the stop task and by the forced cleanup
    disposed,        \* _disposed
    clientDisposed   \* _clientDisposed

\* Kept for the properties only.
VARIABLES
    disposals,       \* calls of the client's Dispose
    called           \* lifecycle callbacks of the plugin that were called

loaderVars == <<prep, manager, loaderStopped, exited, stopper>>
taskVars == <<shutdownStarted, startup, cancelled, stopTask, lifecycle>>
cleanVars == <<forceRequested, forced, disposing, disposed, clientDisposed, disposals>>

StopTaskDone == stopTask = "dispose" /\ disposing["stop"] = "done"
lifeVars == <<loaderVars, taskVars, cleanVars, called>>

LifeInit ==
    /\ prep = "begin" /\ manager = "none"
    /\ loaderStopped = FALSE /\ exited = FALSE /\ stopper = "none"
    /\ shutdownStarted = FALSE /\ startup = "none" /\ cancelled = FALSE
    /\ stopTask = "none" /\ lifecycle = "free"
    /\ forceRequested = FALSE /\ forced = "none"
    /\ disposing = [p \in {"stop", "forced"} |-> "none"]
    /\ disposed = FALSE /\ clientDisposed = FALSE
    /\ disposals = 0 /\ called = {}

----------------------------------------------------------------------------
(* OpAmpLoader.                                                            *)

\* PrepareOpAmpClient up to TryCreate.
Prepares ==
    /\ prep = "begin"
    /\ prep' = IF loaderStopped THEN "done" ELSE "create"
    /\ UNCHANGED <<manager, loaderStopped, exited, stopper, taskVars, cleanVars, called>>

\* TryCreate returns: it runs plugin code outside the lock and may fail before or after there is
\* a manager, which nobody else sees until then.
Creates ==
    /\ prep = "create"
    /\ \/ prep' = "done" /\ UNCHANGED manager
       \/ prep' = "register" /\ manager' = "candidate"
       \/ prep' = "discard" /\ manager' = "candidate"
    /\ UNCHANGED <<loaderStopped, exited, stopper, taskVars, cleanVars, called>>

\* Mutant: a candidate that comes too late is dropped instead of stopped.
MutantRegisters ==
    /\ prep \in {"register", "discard"}
    /\ IF prep = "register" /\ ~loaderStopped
       THEN prep' = "prepared" /\ manager' = "registered" /\ UNCHANGED stopper
       ELSE prep' = "done" /\ UNCHANGED <<manager, stopper>>
    /\ UNCHANGED <<loaderStopped, exited, taskVars, cleanVars, called>>

\* The second section of the lifecycle lock; a candidate that cannot be registered is stopped.
Registers ==
    /\ prep \in {"register", "discard"}
    /\ IF prep = "register" /\ ~loaderStopped
       THEN prep' = "prepared" /\ manager' = "registered" /\ UNCHANGED stopper
       ELSE prep' = "done" /\ manager' = "taken" /\ stopper' = "stop"
    /\ UNCHANGED <<loaderStopped, exited, taskVars, cleanVars, called>>

\* StartOpAmpClient and StartClient, under the loader's lock.
StartsClient ==
    /\ prep = "prepared"
    /\ prep' = "done"
    /\ startup' = IF manager = "registered" /\ ~shutdownStarted THEN "queued" ELSE startup
    /\ UNCHANGED <<manager, loaderStopped, exited, stopper, shutdownStarted, cancelled,
                   stopTask, lifecycle, cleanVars, called>>

\* StopOpAmpClientIfRunning takes the manager out under the lock.
StopsIfRunning ==
    /\ ~exited
    /\ exited' = TRUE
    /\ loaderStopped' = TRUE
    /\ IF manager = "registered"
       THEN manager' = "taken" /\ stopper' = "stop"
       ELSE UNCHANGED <<manager, stopper>>
    /\ UNCHANGED <<prep, taskVars, cleanVars, called>>

\* StopManager: StopOpAmpClientAsync stops the reporter and starts the stop task.
StopsManager ==
    /\ stopper = "stop"
    /\ stopper' = "wait"
    /\ shutdownStarted' = TRUE
    /\ stopTask' = "before"
    /\ UNCHANGED <<prep, manager, loaderStopped, exited, startup, cancelled, lifecycle,
                   cleanVars, called>>

WaitSucceeds ==
    /\ stopper = "wait" /\ StopTaskDone
    /\ stopper' = "done"
    /\ UNCHANGED <<prep, manager, loaderStopped, exited, taskVars, cleanVars, called>>

\* The deadline passes, or the task has failed: RequestForcedShutdown.
WaitTimesOut ==
    /\ stopper = "wait" /\ ~StopTaskDone
    /\ stopper' = "done"
    /\ forceRequested' = TRUE /\ forced' = "client"
    /\ UNCHANGED <<prep, manager, loaderStopped, exited, taskVars, disposing, disposed,
                   clientDisposed, disposals, called>>

----------------------------------------------------------------------------
(* The startup task: StartClientCoreAsync.                                 *)

\* The client connects, or fails, or is cancelled; it may also never answer.
ClientAnswers ==
    /\ startup = "queued"
    /\ startup' \in {"connected", "done"}
    /\ UNCHANGED <<loaderVars, shutdownStarted, cancelled, stopTask, lifecycle, cleanVars, called>>

\* Mutant: the callback does not look whether shutdown has begun.
MutantCallsAfterStarted ==
    /\ startup = "connected" /\ lifecycle = "free"
    /\ startup' = "after" /\ lifecycle' = "startup" /\ called' = called \cup {"after"}
    /\ UNCHANGED <<loaderVars, shutdownStarted, cancelled, stopTask, cleanVars>>

\* AfterOpAmpClientStarted, under _pluginLifecycleLock unless shutdown has begun.
CallsAfterStarted ==
    /\ startup = "connected" /\ lifecycle = "free"
    /\ IF shutdownStarted
       THEN startup' = "done" /\ UNCHANGED <<lifecycle, called>>
       ELSE startup' = "after" /\ lifecycle' = "startup" /\ called' = called \cup {"after"}
    /\ UNCHANGED <<loaderVars, shutdownStarted, cancelled, stopTask, cleanVars>>

AfterStartedReturns ==
    /\ startup = "after"
    /\ startup' = "done" /\ lifecycle' = "free"
    /\ UNCHANGED <<loaderVars, shutdownStarted, cancelled, stopTask, cleanVars, called>>

----------------------------------------------------------------------------
(* Disposal, shared by the stop task and the forced cleanup.               *)

\* Mutant: the exchange of _clientDisposed is a read.
MutantForceDisposeClient ==
    clientDisposed' = TRUE /\ disposals' = disposals + 1

\* ForceDisposeClient: whoever exchanges _clientDisposed first disposes the client.
ForceDisposeClient ==
    /\ clientDisposed' = TRUE
    /\ disposals' = IF clientDisposed THEN disposals ELSE disposals + 1

\* OpAmpManager.Dispose; a second call returns at once.
DisposeBegins(p) ==
    /\ disposing[p] = "begin"
    /\ disposing' = [disposing EXCEPT ![p] = IF disposed THEN "done" ELSE "cancel"]
    /\ shutdownStarted' = TRUE /\ disposed' = TRUE
    /\ UNCHANGED <<loaderVars, startup, cancelled, stopTask, lifecycle, forceRequested, forced,
                   clientDisposed, disposals, called>>

\* CancelStartup in Dispose; its callbacks run inline.
DisposeCancels(p) ==
    /\ disposing[p] = "cancel"
    /\ disposing' = [disposing EXCEPT ![p] = "client"]
    /\ cancelled' = TRUE
    /\ UNCHANGED <<loaderVars, shutdownStarted, startup, stopTask, lifecycle, forceRequested,
                   forced, disposed, clientDisposed, disposals, called>>

\* ForceDisposeClient in Dispose; the client's Dispose may throw.
DisposesClient(p) ==
    /\ disposing[p] = "client"
    /\ disposing' \in {[disposing EXCEPT ![p] = "done"], [disposing EXCEPT ![p] = "failed"]}
    /\ ForceDisposeClient
    /\ UNCHANGED <<loaderVars, taskVars, forceRequested, forced, disposed, called>>

----------------------------------------------------------------------------
(* The stop task: StopOpAmpClientCoreAsync.                                *)

\* BeforeOpAmpClientStopped, under _pluginLifecycleLock.
CallsBeforeStopped ==
    /\ stopTask = "before" /\ lifecycle = "free"
    /\ stopTask' = "inBefore" /\ lifecycle' = "stop"
    /\ called' = called \cup {"before"}
    /\ UNCHANGED <<loaderVars, shutdownStarted, startup, cancelled, cleanVars>>

BeforeStoppedReturns ==
    /\ stopTask = "inBefore"
    /\ stopTask' = "cancel" /\ lifecycle' = "free"
    /\ UNCHANGED <<loaderVars, shutdownStarted, startup, cancelled, cleanVars, called>>

\* CancelStartup, whose callbacks run inline.
CancelsStartup ==
    /\ stopTask = "cancel"
    /\ stopTask' = "await" /\ cancelled' = TRUE
    /\ UNCHANGED <<loaderVars, shutdownStarted, startup, lifecycle, cleanVars, called>>

\* The startup task, if there was one, has ended.
AwaitsStartup ==
    /\ stopTask = "await" /\ startup \in {"none", "done"}
    /\ IF startup # "none" /\ ~forceRequested
       THEN stopTask' = "transport" /\ UNCHANGED disposing
       ELSE stopTask' = "dispose" /\ disposing' = [disposing EXCEPT !["stop"] = "begin"]
    /\ UNCHANGED <<loaderVars, shutdownStarted, startup, cancelled, lifecycle, forceRequested,
                   forced, disposed, clientDisposed, disposals, called>>

\* StopTransportSafelyAsync, then the finally block.
TransportStops ==
    /\ stopTask = "transport"
    /\ stopTask' = "dispose" /\ disposing' = [disposing EXCEPT !["stop"] = "begin"]
    /\ UNCHANGED <<loaderVars, shutdownStarted, startup, cancelled, lifecycle, forceRequested,
                   forced, disposed, clientDisposed, disposals, called>>

----------------------------------------------------------------------------
(* The forced cleanup.                                                     *)

\* ForceDisposeClient on a thread of its own, whatever the other tasks wait for; its
\* completion, after a failure too, sets off the continuation that disposes the manager.
ForcedDisposal ==
    /\ forced = "client"
    /\ forced' = "done"
    /\ ForceDisposeClient
    /\ disposing' = [disposing EXCEPT !["forced"] = "begin"]
    /\ UNCHANGED <<loaderVars, taskVars, forceRequested, disposed, called>>

----------------------------------------------------------------------------
\* Steps that wait for the plugin or the upstream client and may never come.
External ==
    \/ Creates \/ ClientAnswers \/ AfterStartedReturns \/ BeforeStoppedReturns
    \/ CancelsStartup \/ TransportStops
    \/ \E p \in {"stop", "forced"} : DisposeCancels(p)

LoaderStep == Prepares \/ Registers \/ StartsClient
StopperStep == StopsManager \/ WaitSucceeds \/ WaitTimesOut
DisposeStep(p) == DisposeBegins(p) \/ DisposesClient(p)

LifeNext ==
    \/ LoaderStep \/ StopsIfRunning \/ StopperStep
    \/ CallsAfterStarted \/ CallsBeforeStopped \/ AwaitsStartup \/ ForcedDisposal
    \/ \E p \in {"stop", "forced"} : DisposeStep(p)
    \/ External

\* The process's own threads run and the timed wait ends; nothing is said of External.
LifeFairness ==
    /\ WF_lifeVars(LoaderStep) /\ WF_lifeVars(StopperStep)
    /\ WF_lifeVars(CallsAfterStarted) /\ WF_lifeVars(CallsBeforeStopped) /\ WF_lifeVars(AwaitsStartup)
    /\ WF_lifeVars(ForcedDisposal) /\ \A p \in {"stop", "forced"} : WF_lifeVars(DisposeStep(p))

LifeSpec == LifeInit /\ [][LifeNext]_lifeVars /\ LifeFairness

----------------------------------------------------------------------------
(* The plugin never sees its client start after it saw it stop, and the    *)
(* two callbacks never overlap, although startup and shutdown run on       *)
(* threads of their own (StartClientCoreAsync, InvokeBeforeStopCallback).  *)
StartedBeforeStopped ==
    /\ [][("after" \notin called /\ "after" \in called') => "before" \notin called]_lifeVars
    /\ [](~(startup = "after" /\ stopTask = "inBefore"))

(* The client is disposed once, by whichever of the stop task, the forced  *)
(* cleanup and its continuation comes first, and without a missed deadline *)
(* only when startup and transport are through with it.                    *)
DisposedOnceAndIdle ==
    /\ disposals = IF clientDisposed THEN 1 ELSE 0
    /\ clientDisposed /\ ~forceRequested =>
          startup \in {"none", "done"} /\ stopTask = "dispose"
    /\ stopTask = "transport" => startup = "done"

(* Once the process exits, every manager that TryCreate has returned has   *)
(* its client disposed and the caller of StopManager returns, even if      *)
(* plugin callbacks, the connection or the cancellation never return.      *)
ExitReachesDisposal ==
    /\ (exited /\ manager # "none") ~> clientDisposed
    /\ (stopper # "none") ~> (stopper = "done")
===============================================================================
