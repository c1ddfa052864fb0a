------------------------- MODULE OpAmpReporterProofs -------------------------
(***************************************************************************)
(* Proofs about OpAmpReporter for any number of pool threads.  ScheduledOnce*)
(* and NothingForgotten are not inductive: they need to know what stage    *)
(* each callback has reached, what it still has to report there, and that  *)
(* a stopped reporter has no timer left.  IInv adds just that.             *)
(*                                                                         *)
(* And about OpAmpLifecycle, the life of the client the reporter belongs   *)
(* to.  LifeInv says that StopManager runs once, that the plugin's lock    *)
(* belongs to the task whose callback runs, and what every task has behind *)
(* it by the time it reaches each of its places.                           *)
(***************************************************************************)
EXTENDS OpAmpReporter, OpAmpLifecycle, TLAPS

PluginSet == PluginClaimed \cup {"queued"}
FullSet == FullClaimed \cup {"fQueued"}
PCs == {"free", "queued", "fQueued"} \cup PluginClaimed \cup FullClaimed

\* The drain: one callback, announced by the flag, for whatever may be reported now.
DrainInv ==
    /\ \A v, w \in Workers : pc[v] \in PluginSet /\ pc[w] \in PluginSet => v = w
    /\ timer["plugin"] # "off" => ~stopped /\ \A w \in Workers : pc[w] \notin PluginSet
    /\ ~stopped =>
          /\ drainActive <=> (timer["plugin"] # "off" \/ \E w \in Workers : pc[w] \in PluginSet)
          /\ GetEligiblePluginReports(pending, accepts) # {} => drainActive

\* The full state: one callback, whose stage is the phase, and none within the interval.
FullInv ==
    /\ \A v, w \in Workers : pc[v] \in FullSet /\ pc[w] \in FullSet => v = w
    /\ timer["full"] # "off" => ~stopped /\ phase = "Waiting" /\ \A w \in Workers : pc[w] \notin FullSet
    /\ ~stopped =>
          /\ \A w \in Workers : /\ pc[w] = "fQueued" => phase = "Waiting"
                                /\ pc[w] \in FullClaimed => phase = "Reporting"
          /\ phase # "Idle" => timer["full"] # "off" \/ \E w \in Workers : pc[w] \in FullSet
          /\ fullPending => phase # "Idle"
          /\ phase = "Idle" \/ timer["full"] = "now" \/ (\E w \in Workers : pc[w] = "fQueued")
                => ~cooling

\* What a callback still has to report at each of its stages.
StageInv ==
    \A w \in Workers :
        /\ pc[w] \notin {"use", "reuse"} => use[w] = "fast"
        /\ reports[w] \subseteq providers
        /\ pc[w] \notin {"lock", "use", "read"} => Effective \notin reports[w]
        /\ pc[w] \notin {"lock", "use", "read", "reading", "reuse", "send", "status"}
              => reports[w] = {}
        /\ pc[w] = "status" => reports[w] \subseteq {Status}
        /\ pc[w] \in {"use", "read", "reading", "reuse"} => Effective \in providers

\* Only what the plugin provides is ever owed.
OwedInv ==
    /\ pending \subseteq providers /\ owed \subseteq providers
    /\ ~stopped => \A k \in owed :
          k \in pending \/ \E w \in Workers : pc[w] \in PluginSet /\ k \in reports[w]

\* seen records every moment at which the capability held since the answer.
SeenInv ==
    \A w \in Workers :
        /\ files[w] /\ accepts => seen[w]
        /\ pc[w] = "reuse" => files[w] /\ (use[w] = "stop" => seen[w])
        /\ pc[w] = "send" => seen[w]
        /\ pc[w] = "fSend" /\ files[w] => seen[w]

IInv == TypeOK /\ DrainInv /\ FullInv /\ StageInv /\ OwedInv /\ SeenInv

----------------------------------------------------------------------------
(* Steps inside a claimed callback.                                        *)

\* Both places belong to the same callback, between its claim and its end.
Together(a, b) ==
    \/ a \in PluginClaimed /\ b \in PluginClaimed
    \/ a \in FullClaimed /\ b \in FullClaimed

LEMMA Classes ==
    /\ PluginClaimed \cup FullClaimed \subseteq PCs
    /\ \A a, b : Together(a, b) =>
          /\ a \in PluginSet <=> b \in PluginSet
          /\ a \in FullSet <=> b \in FullSet
          /\ a \in FullClaimed <=> b \in FullClaimed
          /\ a # "fQueued" /\ b # "fQueued" /\ b \in PCs
BY DEF PCs, PluginSet, FullSet, PluginClaimed, FullClaimed, Together

\* The scheduling state does not notice how far a callback is.
LEMMA InnerSchedule ==
    ASSUME IInv, NEW w \in Workers, NEW b, Together(pc[w], b),
           pc' = [pc EXCEPT ![w] = b],
           UNCHANGED <<accepts, stopped, fullPending, phase, drainActive, timer, cooling>>,
           pending' = pending \/ (pending' = pending \cup {Effective} /\ ~accepts)
    PROVE  DrainInv' /\ FullInv'
<1>1. /\ pc[w] \in PluginSet <=> b \in PluginSet
      /\ pc[w] \in FullSet <=> b \in FullSet
      /\ pc[w] \in FullClaimed <=> b \in FullClaimed
      /\ pc[w] # "fQueued" /\ b # "fQueued"
  BY Classes
<1>2. \A v \in Workers : /\ pc'[v] \in PluginSet <=> pc[v] \in PluginSet
                         /\ pc'[v] \in FullSet <=> pc[v] \in FullSet
                         /\ pc'[v] \in FullClaimed <=> pc[v] \in FullClaimed
                         /\ pc'[v] = "fQueued" <=> pc[v] = "fQueued"
  BY <1>1 DEF IInv, TypeOK
<1>3. GetEligiblePluginReports(pending, accepts)' = GetEligiblePluginReports(pending, accepts)
  BY DEF GetEligiblePluginReports, IInv, TypeOK
<1>4. DrainInv'
  BY <1>2, <1>3 DEF IInv, DrainInv
<1>5. FullInv'
  BY <1>2 DEF IInv, FullInv
<1> QED BY <1>4, <1>5

LEMMA AcquireKeeps ==
    ASSUME IInv, NEW w \in Workers, PluginTakesLock(w) \/ FullTakesLock(w)
    PROVE  IInv'
<1> DEFINE next == IF pc[w] = "fLock" THEN "fAccepts"
                   ELSE IF Effective \in reports[w] THEN "use" ELSE "status"
<1>1. /\ pc[w] \in {"lock", "fLock"} /\ pc' = [pc EXCEPT ![w] = next] /\ reportLock' = w
      /\ UNCHANGED <<providers, accepts, stopped, schedVars, use, reports, files, owed, cooling, seen>>
  BY DEF PluginTakesLock, FullTakesLock, AcquireReportLock, Goto
<1>2. Together(pc[w], next)
  BY <1>1 DEF Together, PluginClaimed, FullClaimed
<1>3. TypeOK'
  BY <1>1, <1>2, Classes DEF IInv, TypeOK, PCs, schedVars
<1>4. DrainInv' /\ FullInv'
  BY <1>1, <1>2, InnerSchedule DEF schedVars
<1>5. StageInv'
  BY <1>1 DEF IInv, TypeOK, StageInv, Kinds
<1>6. OwedInv'
  BY <1>1, <1>2, Classes DEF IInv, TypeOK, OwedInv, schedVars
<1>7. SeenInv'
  BY <1>1 DEF IInv, TypeOK, SeenInv
<1> QED BY <1>3, <1>4, <1>5, <1>6, <1>7 DEF IInv

LEMMA ReleaseKeeps ==
    ASSUME IInv, NEW w \in Workers,
           ReleaseReportLock(w, "unlock", "final") \/ ReleaseReportLock(w, "fUnlock", "fFinal")
    PROVE  IInv'
<1> DEFINE next == IF pc[w] = "unlock" THEN "final" ELSE "fFinal"
<1>1. /\ pc[w] \in {"unlock", "fUnlock"} /\ pc' = [pc EXCEPT ![w] = next] /\ reportLock' = NoWorker
      /\ files' = [files EXCEPT ![w] = FALSE] /\ seen' = [seen EXCEPT ![w] = FALSE]
      /\ UNCHANGED <<providers, accepts, stopped, schedVars, use, reports, owed, cooling>>
  BY DEF ReleaseReportLock, Goto
<1>2. Together(pc[w], next)
  BY <1>1 DEF Together, PluginClaimed, FullClaimed
<1>3. TypeOK'
  BY <1>1, <1>2, Classes DEF IInv, TypeOK, PCs, schedVars
<1>4. DrainInv' /\ FullInv'
  BY <1>1, <1>2, InnerSchedule DEF schedVars
<1>5. StageInv'
  BY <1>1 DEF IInv, TypeOK, StageInv
<1>6. OwedInv'
  BY <1>1, <1>2, Classes DEF IInv, TypeOK, OwedInv, schedVars
<1>7. SeenInv'
  BY <1>1 DEF IInv, TypeOK, SeenInv
<1> QED BY <1>3, <1>4, <1>5, <1>6, <1>7 DEF IInv

\* The moves of ReportEffectiveConfig, ReportRemoteConfigStatus and ReportFullStateCore that only
\* read flags.
LEMMA DecideKeeps ==
    ASSUME IInv, NEW w \in Workers, NEW at, NEW next, Decide(w, at, next),
           \/ at \in {"reading", "send"} /\ next = AfterEffective(w)
           \/ /\ at \in {"statusReading", "statusCheck", "statusSend"}
              /\ next \in {"statusCheck", "statusSend", "unlock"}
           \/ /\ at \in {"fAccepts", "fReading", "fStatusReading", "fStopped", "fSend"}
              /\ next \in {"fRead", "fStatus", "fStopped", "fRecheck", "fUnlock"}
    PROVE  IInv'
<1>1. /\ pc[w] = at /\ pc' = [pc EXCEPT ![w] = next]
      /\ UNCHANGED <<providers, accepts, stopped, schedVars, reportLock, use, reports, files, owed,
                     cooling, seen>>
  BY DEF Decide, Goto
<1>2. Together(pc[w], next)
  BY <1>1 DEF Together, PluginClaimed, FullClaimed, AfterEffective
<1>3. TypeOK'
  BY <1>1, <1>2, Classes DEF IInv, TypeOK, PCs, schedVars
<1>4. DrainInv' /\ FullInv'
  BY <1>1, <1>2, InnerSchedule DEF schedVars
<1>5. StageInv'
  <2>1. reports[w] \subseteq {Effective, Status}
    BY DEF IInv, TypeOK, Kinds
  <2>2. pc[w] \in {"reading", "send"} => Effective \notin reports[w]
    BY <1>1 DEF IInv, StageInv
  <2> QED BY <1>1, <2>1, <2>2 DEF IInv, TypeOK, StageInv, AfterEffective
<1>6. OwedInv'
  BY <1>1, <1>2, Classes DEF IInv, TypeOK, OwedInv, schedVars
<1>7. SeenInv'
  BY <1>1 DEF IInv, TypeOK, SeenInv, AfterEffective
<1> QED BY <1>3, <1>4, <1>5, <1>6, <1>7 DEF IInv

LEMMA AnswerKeeps ==
    ASSUME IInv, NEW w \in Workers,
           ProviderAnswers(w, "reading", "reuse") \/ ProviderAnswers(w, "fReading", "fStatus")
    PROVE  IInv'
<1> DEFINE next == IF pc[w] = "reading" THEN "reuse" ELSE "fStatus"
<1>1. /\ pc[w] \in {"reading", "fReading"} /\ pc' = [pc EXCEPT ![w] = next]
      /\ files' = [files EXCEPT ![w] = TRUE] /\ seen' = [seen EXCEPT ![w] = accepts]
      /\ UNCHANGED <<providers, accepts, stopped, schedVars, reportLock, use, reports, owed, cooling>>
  BY DEF ProviderAnswers, Goto
<1>2. Together(pc[w], next)
  BY <1>1 DEF Together, PluginClaimed, FullClaimed
<1>3. TypeOK'
  <2>1. seen' \in [Workers -> BOOLEAN] /\ files' \in [Workers -> BOOLEAN]
    BY <1>1, Zenon DEF IInv, TypeOK
  <2> QED BY <1>1, <1>2, <2>1, Classes DEF IInv, TypeOK, PCs, schedVars
<1>4. DrainInv' /\ FullInv'
  BY <1>1, <1>2, InnerSchedule DEF schedVars
<1>5. StageInv'
  BY <1>1 DEF IInv, TypeOK, StageInv
<1>6. OwedInv'
  BY <1>1, <1>2, Classes DEF IInv, TypeOK, OwedInv, schedVars
<1>7. SeenInv'
  <2>1. use[w] = "fast"
    BY <1>1 DEF IInv, StageInv
  <2> QED BY <1>1, <2>1 DEF IInv, TypeOK, SeenInv
<1> QED BY <1>3, <1>4, <1>5, <1>6, <1>7 DEF IInv

LEMMA RecheckKeeps ==
    ASSUME IInv, NEW w \in Workers, RecheckFullState(w)
    PROVE  IInv'
<1>1. /\ pc[w] = "fRecheck" /\ pc' = [pc EXCEPT ![w] = "fSend"]
      /\ files' = [files EXCEPT ![w] = files[w] /\ accepts]
      /\ UNCHANGED <<providers, accepts, stopped, schedVars, reportLock, use, reports, owed, cooling, seen>>
  BY DEF RecheckFullState, Goto
<1>2. Together(pc[w], "fSend")
  BY <1>1 DEF Together, FullClaimed
<1>3. TypeOK'
  <2>1. files' \in [Workers -> BOOLEAN]
    BY <1>1, Zenon DEF IInv, TypeOK
  <2> QED BY <1>1, <1>2, <2>1, Classes DEF IInv, TypeOK, PCs, schedVars
<1>4. DrainInv' /\ FullInv'
  BY <1>1, <1>2, InnerSchedule DEF schedVars
<1>5. StageInv'
  BY <1>1 DEF IInv, TypeOK, StageInv
<1>6. OwedInv'
  BY <1>1, <1>2, Classes DEF IInv, TypeOK, OwedInv, schedVars
<1>7. SeenInv'
  BY <1>1 DEF IInv, TypeOK, SeenInv
<1> QED BY <1>3, <1>4, <1>5, <1>6, <1>7 DEF IInv

\* ReadEffectiveConfig and ReadRemoteConfigStatus, in both callbacks.
LEMMA CallProviderKeeps ==
    ASSUME IInv, NEW w \in Workers, NEW k, NEW at, NEW calling, NEW skip,
           CallProvider(w, k, at, calling, skip),
           \/ k = Effective /\ at = "read" /\ calling = "reading" /\ skip = AfterEffective(w)
           \/ k = Status /\ at = "status" /\ calling = "statusReading" /\ skip = "unlock"
           \/ k = Effective /\ at = "fRead" /\ calling = "fReading" /\ skip = "fStatus"
           \/ k = Status /\ at = "fStatus" /\ calling = "fStatusReading" /\ skip = "fStopped"
    PROVE  IInv'
<1> DEFINE calls == ~stopped /\ k \in providers
           next == IF calls THEN calling ELSE skip
<1>1. /\ pc[w] = at /\ pc' = [pc EXCEPT ![w] = next]
      /\ reports' = [reports EXCEPT ![w] = reports[w] \ {k}]
      /\ owed' = IF calls /\ at \in PluginClaimed THEN owed \ {k} ELSE owed
      /\ UNCHANGED <<providers, accepts, stopped, schedVars, reportLock, use, files, cooling, seen>>
  BY DEF CallProvider, Goto
<1>2. Together(pc[w], next)
  BY <1>1 DEF Together, PluginClaimed, FullClaimed, AfterEffective
<1>3. TypeOK'
  BY <1>1, <1>2, Classes DEF IInv, TypeOK, PCs, schedVars
<1>4. DrainInv' /\ FullInv'
  BY <1>1, <1>2, InnerSchedule DEF schedVars
<1>5. StageInv'
  <2>1. reports[w] \subseteq {Effective, Status} /\ Effective # Status
    BY DEF IInv, TypeOK, Kinds, Effective, Status
  <2>2. pc[w] = "status" => reports[w] \subseteq {Status}
    BY DEF IInv, StageInv
  <2> QED BY <1>1, <2>1, <2>2 DEF IInv, TypeOK, StageInv, AfterEffective
<1>6. OwedInv'
  <2>1. at \in FullClaimed => reports[w] = {} /\ at \notin PluginSet
    BY <1>1 DEF IInv, StageInv, FullClaimed, PluginSet, PluginClaimed
  <2>2. at \in PluginClaimed \/ at \in FullClaimed
    BY DEF PluginClaimed, FullClaimed
  <2>3. \A v \in Workers : pc'[v] \in PluginSet <=> pc[v] \in PluginSet
    BY <1>1, <1>2, Classes DEF IInv, TypeOK
  <2>4. pending' \subseteq providers' /\ owed' \subseteq providers'
    BY <1>1 DEF IInv, OwedInv, schedVars
  <2>5. ASSUME ~stopped, NEW j \in owed', j \notin pending
        PROVE  \E v \in Workers : pc[v] \in PluginSet /\ j \in reports'[v]
    <3>1. j \in owed /\ j \in providers
      BY <1>1, <2>5 DEF IInv, OwedInv
    <3>2. PICK v \in Workers : pc[v] \in PluginSet /\ j \in reports[v]
      BY <2>5, <3>1 DEF IInv, OwedInv
    <3>3. v = w => at \in PluginClaimed /\ j # k
      BY <1>1, <2>1, <2>2, <2>5, <3>1, <3>2
    <3> QED BY <1>1, <3>2, <3>3 DEF IInv, TypeOK
  <2> QED BY <1>1, <2>3, <2>4, <2>5 DEF OwedInv, schedVars
<1>7. SeenInv'
  BY <1>1 DEF IInv, TypeOK, SeenInv, AfterEffective
<1> QED BY <1>3, <1>4, <1>5, <1>6, <1>7 DEF IInv

\* The first three alternatives of TryUseEffectiveConfigCapability: flags are read.
LEMMA TryUseReads ==
    ASSUME IInv, NEW w \in Workers, NEW at \in {"use", "reuse"}, NEW u \in {"fast", "stop", "slow"},
           NEW next, pc[w] = at, pc' = [pc EXCEPT ![w] = next], use' = [use EXCEPT ![w] = u],
           \/ next = at /\ (u = "stop" => use[w] = "fast" /\ accepts)
           \/ /\ next = IF at = "use" THEN "read" ELSE "send"
              /\ u = "fast" /\ (use[w] = "stop" \/ accepts),
           UNCHANGED <<providers, accepts, stopped, schedVars, reportLock, reports, files, owed, cooling, seen>>
    PROVE  IInv'
<1>1. Together(pc[w], next)
  BY DEF Together, PluginClaimed
<1>2. TypeOK'
  BY <1>1, Classes DEF IInv, TypeOK, PCs, schedVars
<1>3. DrainInv' /\ FullInv'
  BY <1>1, InnerSchedule DEF schedVars
<1>4. StageInv'
  BY DEF IInv, TypeOK, StageInv
<1>5. OwedInv'
  BY <1>1, Classes DEF IInv, TypeOK, OwedInv, schedVars
<1>6. SeenInv'
  BY DEF IInv, TypeOK, SeenInv
<1> QED BY <1>2, <1>3, <1>4, <1>5, <1>6 DEF IInv

\* The last alternative: the report becomes pending again, or is dropped by a stopped reporter.
LEMMA TryUseGivesUp ==
    ASSUME IInv, NEW w \in Workers, pc[w] \in {"use", "reuse"}, stopped \/ ~accepts,
           UseSlow(w, pc[w], AfterEffective(w)),
           use' = [use EXCEPT ![w] = "fast"],
           reports' = [reports EXCEPT ![w] = reports[w] \ {Effective}],
           UNCHANGED <<providers, accepts, stopped, fullPending, phase, drainActive, timer,
                       reportLock, files, cooling, seen>>
    PROVE  IInv'
<1> DEFINE next == AfterEffective(w)
<1>1. /\ pc' = [pc EXCEPT ![w] = next]
      /\ pending' = IF stopped THEN pending ELSE pending \cup {Effective}
      /\ owed' = IF stopped THEN owed ELSE owed \cup {Effective}
  BY DEF UseSlow
<1>2. Together(pc[w], next) /\ next \in {"status", "unlock"}
  BY DEF Together, PluginClaimed, AfterEffective
<1>3. TypeOK'
  BY <1>1, <1>2, Classes DEF IInv, TypeOK, PCs, Kinds
<1>4. DrainInv' /\ FullInv'
  BY <1>1, <1>2, InnerSchedule
<1>5. StageInv'
  <2>1. reports[w] \subseteq {Effective, Status}
    BY DEF IInv, TypeOK, Kinds
  <2> QED BY <1>1, <1>2, <2>1 DEF IInv, TypeOK, StageInv, AfterEffective
<1>6. OwedInv'
  <2>1. \A v \in Workers : pc'[v] \in PluginSet <=> pc[v] \in PluginSet
    BY <1>1, <1>2, Classes DEF IInv, TypeOK
  <2>2. Effective \in providers
    BY DEF IInv, StageInv
  <2> QED BY <1>1, <2>1, <2>2 DEF IInv, TypeOK, OwedInv
<1>7. SeenInv'
  BY <1>1, <1>2 DEF IInv, TypeOK, SeenInv
<1> QED BY <1>3, <1>4, <1>5, <1>6, <1>7 DEF IInv

LEMMA TryUseKeeps ==
    ASSUME IInv, NEW w \in Workers,
           TryUse(w, "use", "read", AfterEffective(w)) \/ TryUse(w, "reuse", "send", AfterEffective(w))
    PROVE  IInv'
<1> DEFINE yes == IF pc[w] = "use" THEN "read" ELSE "send"
<1>1. pc[w] \in {"use", "reuse"} /\ pc = [pc EXCEPT ![w] = pc[w]]
  BY DEF TryUse, IInv, TypeOK
<1>2. CASE /\ use[w] = "slow" /\ (stopped \/ ~accepts)
           /\ use' = [use EXCEPT ![w] = "fast"]
           /\ UseSlow(w, pc[w], AfterEffective(w))
           /\ reports' = [reports EXCEPT ![w] = reports[w] \ {Effective}]
           /\ UNCHANGED <<providers, accepts, stopped, fullPending, phase, drainActive, timer,
                          reportLock, files, cooling, seen>>
  BY <1>1, <1>2, TryUseGivesUp
<1>3. ASSUME NEW u \in {"stop", "slow"}, use' = [use EXCEPT ![w] = u],
             u = "stop" => use[w] = "fast" /\ accepts,
             UNCHANGED <<pc, pending, owed, reports>>,
             UNCHANGED <<providers, accepts, stopped, fullPending, phase, drainActive, timer,
                         reportLock, files, cooling, seen>>
      PROVE  IInv'
  <2>1. pc' = [pc EXCEPT ![w] = pc[w]]
    BY <1>1, <1>3
  <2> QED BY <1>1, <1>3, <2>1, TryUseReads DEF schedVars
<1>4. ASSUME use[w] = "stop" \/ accepts, use' = [use EXCEPT ![w] = "fast"],
             pc' = [pc EXCEPT ![w] = yes], UNCHANGED <<pending, owed, reports>>,
             UNCHANGED <<providers, accepts, stopped, fullPending, phase, drainActive, timer,
                         reportLock, files, cooling, seen>>
      PROVE  IInv'
  BY <1>1, <1>4, TryUseReads DEF schedVars
<1> QED BY <1>1, <1>2, <1>3, <1>4 DEF TryUse, UseSlow

----------------------------------------------------------------------------
(* Steps that schedule, claim and finish.                                  *)

\* TrySchedulePendingPluginReports turns the flags of a section of _stateLock into flags that agree
\* with the timer again.
LEMMA ScheduleDrain ==
    ASSUME IInv, NEW kinds, NEW acc, NEW active \in BOOLEAN,
           TrySchedulePendingPluginReports(kinds, acc, active), ~stopped, ~stopped',
           pending' = kinds, accepts' = acc,
           \A v, w \in Workers : pc'[v] \in PluginSet /\ pc'[w] \in PluginSet => v = w,
           timer["plugin"] # "off" => \A w \in Workers : pc'[w] \notin PluginSet,
           active <=> (timer["plugin"] # "off" \/ \E w \in Workers : pc'[w] \in PluginSet)
    PROVE  /\ DrainInv' /\ timer'["full"] = timer["full"]
           /\ timer' \in [Timers -> {"off", "now", "interval"}] /\ drainActive' \in BOOLEAN
<1>1. timer \in [Timers -> {"off", "now", "interval"}] /\ "plugin" \in Timers /\ "full" \in Timers
  BY DEF IInv, TypeOK, Timers
<1>2. CASE active \/ GetEligiblePluginReports(kinds, acc) = {}
  <2>1. drainActive' = active /\ timer' = timer
    BY <1>2 DEF TrySchedulePendingPluginReports
  <2>2. GetEligiblePluginReports(pending, accepts)' # {} => drainActive'
    BY <1>2, <2>1 DEF GetEligiblePluginReports
  <2> QED BY <1>1, <2>1, <2>2 DEF DrainInv
<1>3. CASE ~(active \/ GetEligiblePluginReports(kinds, acc) = {})
  <2>1. drainActive' = TRUE /\ timer' = [timer EXCEPT !["plugin"] = "now"]
    BY <1>3 DEF TrySchedulePendingPluginReports
  <2> QED BY <1>1, <1>3, <2>1 DEF DrainInv
<1> QED BY <1>2, <1>3

LEMMA NotifyKeeps ==
    ASSUME IInv, NEW k \in Kinds, NotifyPluginReport(k)
    PROVE  IInv'
<1> USE DEF NotifyPluginReport
<1>1. UNCHANGED <<pc, use, reports, files, reportLock>>
  BY DEF workVars
<1>2. drainActive \in BOOLEAN
  BY DEF IInv, TypeOK
<1>3. /\ DrainInv' /\ timer'["full"] = timer["full"]
      /\ timer' \in [Timers -> {"off", "now", "interval"}] /\ drainActive' \in BOOLEAN
  BY <1>1, <1>2, ScheduleDrain DEF IInv, DrainInv
<1>4. TypeOK'
  BY <1>1, <1>3 DEF IInv, TypeOK
<1>5. FullInv'
  BY <1>1, <1>3 DEF IInv, FullInv
<1>6. StageInv' /\ OwedInv' /\ SeenInv'
  BY <1>1 DEF IInv, StageInv, OwedInv, SeenInv
<1> QED BY <1>3, <1>4, <1>5, <1>6 DEF IInv

LEMMA CapabilitiesKeep ==
    ASSUME IInv, NEW acc \in BOOLEAN, HandleServerCapabilities(acc)
    PROVE  IInv'
<1> USE DEF HandleServerCapabilities
<1>1. UNCHANGED <<pc, use, reports, files, reportLock>>
  BY DEF workVars
<1>2. drainActive \in BOOLEAN
  BY DEF IInv, TypeOK
<1>3. /\ DrainInv' /\ timer'["full"] = timer["full"]
      /\ timer' \in [Timers -> {"off", "now", "interval"}] /\ drainActive' \in BOOLEAN
  BY <1>1, <1>2, ScheduleDrain DEF IInv, DrainInv
<1>4. TypeOK'
  <2>1. seen' \in [Workers -> BOOLEAN]
    BY Zenon
  <2> QED BY <1>1, <1>3, <2>1 DEF IInv, TypeOK
<1>5. FullInv'
  BY <1>1, <1>3 DEF IInv, FullInv
<1>6. StageInv' /\ OwedInv'
  BY <1>1 DEF IInv, StageInv, OwedInv
<1>7. SeenInv'
  BY <1>1 DEF IInv, TypeOK, SeenInv
<1> QED BY <1>3, <1>4, <1>5, <1>6, <1>7 DEF IInv

LEMMA RequestKeeps ==
    ASSUME IInv, ReportFullState
    PROVE  IInv'
<1> USE DEF ReportFullState
<1>1. UNCHANGED <<pc, use, reports, files, reportLock>>
  BY DEF workVars
<1>2. /\ timer' \in [Timers -> {"off", "now", "interval"}] /\ timer'["plugin"] = timer["plugin"]
      /\ IF phase = "Idle" THEN timer'["full"] = "now" ELSE timer' = timer
  BY DEF IInv, TypeOK, Timers
<1>3. TypeOK'
  BY <1>1, <1>2 DEF IInv, TypeOK
<1>4. DrainInv'
  BY <1>1, <1>2 DEF IInv, DrainInv, GetEligiblePluginReports
<1>5. FullInv'
  BY <1>1, <1>2 DEF IInv, FullInv, FullSet
<1>6. StageInv' /\ OwedInv' /\ SeenInv'
  BY <1>1 DEF IInv, StageInv, OwedInv, SeenInv
<1> QED BY <1>3, <1>4, <1>5, <1>6 DEF IInv

LEMMA StopKeeps ==
    ASSUME IInv, Stop
    PROVE  IInv'
<1> USE DEF Stop
<1>1. UNCHANGED <<pc, use, reports, files, reportLock>>
  BY DEF workVars
<1>2. TypeOK'
  BY <1>1 DEF IInv, TypeOK
<1>3. DrainInv' /\ FullInv'
  BY <1>1 DEF IInv, DrainInv, FullInv, Timers
<1>4. StageInv' /\ OwedInv' /\ SeenInv'
  BY <1>1 DEF IInv, StageInv, OwedInv, SeenInv
<1> QED BY <1>2, <1>3, <1>4 DEF IInv

LEMMA ElapseKeeps ==
    ASSUME IInv, IntervalElapses
    PROVE  IInv'
BY DEF IInv, IntervalElapses, TypeOK, DrainInv, FullInv, StageInv, OwedInv, SeenInv, schedVars, workVars,
       GetEligiblePluginReports

LEMMA FireKeeps ==
    ASSUME IInv, NEW t \in Timers, NEW w \in Workers, TimerFires(t, w)
    PROVE  IInv'
<1> DEFINE next == IF t = "plugin" THEN "queued" ELSE "fQueued"
<1>1. /\ pc[w] = "free" /\ pc' = [pc EXCEPT ![w] = next] /\ timer[t] # "off"
      /\ timer' = [timer EXCEPT ![t] = "off"] /\ t \in {"plugin", "full"}
      /\ timer["full"] = "interval" /\ t = "full" => ~cooling
      /\ UNCHANGED <<providers, accepts, stopped, pending, fullPending, phase, drainActive,
                     reportLock, use, reports, files, owed, cooling, seen>>
  BY DEF TimerFires, Timers
<1>2. /\ "free" \notin PluginSet /\ "free" \notin FullSet /\ "queued" \in PluginSet
      /\ "queued" \notin FullSet /\ "fQueued" \in FullSet /\ "fQueued" \notin PluginSet
      /\ "fQueued" \notin FullClaimed /\ "queued" \notin FullClaimed
  BY DEF PluginSet, FullSet, PluginClaimed, FullClaimed
<1>3. TypeOK'
  BY <1>1 DEF IInv, TypeOK
<1>4. DrainInv'
  <2>1. GetEligiblePluginReports(pending, accepts)' = GetEligiblePluginReports(pending, accepts)
    BY <1>1 DEF GetEligiblePluginReports
  <2> QED BY <1>1, <1>2, <2>1 DEF IInv, TypeOK, DrainInv, Timers
<1>5. FullInv'
  BY <1>1, <1>2 DEF IInv, TypeOK, FullInv, Timers
<1>6. StageInv'
  BY <1>1 DEF IInv, TypeOK, StageInv
<1>7. OwedInv'
  BY <1>1, <1>2 DEF IInv, TypeOK, OwedInv
<1>8. SeenInv'
  BY <1>1 DEF IInv, TypeOK, SeenInv
<1> QED BY <1>3, <1>4, <1>5, <1>6, <1>7, <1>8 DEF IInv

LEMMA ClaimPluginKeeps ==
    ASSUME IInv, NEW w \in Workers, ClaimPluginReports(w)
    PROVE  IInv'
<1> DEFINE claimed == GetEligiblePluginReports(pending, accepts)
           next == IF claimed = {} THEN "final" ELSE "lock"
<1>1. /\ pc[w] = "queued"
      /\ UNCHANGED <<providers, accepts, stopped, fullPending, phase, drainActive, timer,
                     reportLock, use, files, owed, cooling, seen>>
  BY DEF ClaimPluginReports
<1>2. /\ "free" \notin PluginSet /\ "free" \notin FullSet /\ "queued" \in PluginSet
      /\ "queued" \notin FullSet /\ "lock" \in PluginSet /\ "lock" \notin FullSet
      /\ "final" \in PluginSet /\ "final" \notin FullSet
      /\ FullClaimed \subseteq FullSet /\ "fQueued" \in FullSet
  BY DEF PluginSet, FullSet, PluginClaimed, FullClaimed
<1>3. reports[w] = {} /\ use[w] = "fast"
  BY <1>1 DEF IInv, StageInv
<1>4. claimed \subseteq pending /\ claimed \subseteq Kinds /\ pending \subseteq providers
  BY DEF GetEligiblePluginReports, IInv, TypeOK, OwedInv
<1>5. CASE stopped \/ ~drainActive
  <2>1. pc' = [pc EXCEPT ![w] = "free"] /\ UNCHANGED <<pending, reports>>
    BY <1>5 DEF ClaimPluginReports
  <2>2. stopped
    BY <1>1, <1>2, <1>5 DEF IInv, DrainInv
  <2>3. TypeOK'
    BY <1>1, <2>1 DEF IInv, TypeOK
  <2>4. DrainInv' /\ FullInv'
    BY <1>1, <1>2, <2>1, <2>2 DEF IInv, TypeOK, DrainInv, FullInv
  <2>5. StageInv' /\ OwedInv' /\ SeenInv'
    BY <1>1, <2>1, <2>2 DEF IInv, TypeOK, StageInv, OwedInv, SeenInv
  <2> QED BY <2>3, <2>4, <2>5 DEF IInv
<1>6. CASE ~stopped /\ drainActive
  <2>1. /\ pc' = [pc EXCEPT ![w] = next] /\ next \in {"lock", "final"}
        /\ reports' = [reports EXCEPT ![w] = claimed] /\ pending' = pending \ claimed
    BY <1>6 DEF ClaimPluginReports
  <2>2. \A v \in Workers : /\ pc'[v] \in PluginSet <=> pc[v] \in PluginSet
                           /\ pc'[v] \in FullSet <=> pc[v] \in FullSet
                           /\ pc'[v] \in FullSet => pc'[v] = pc[v]
                           /\ pc[v] \in FullSet => pc'[v] = pc[v]
    BY <1>1, <1>2, <2>1 DEF IInv, TypeOK
  <2>3. TypeOK'
    <3>1. next \in PluginClaimed
      BY <2>1 DEF PluginClaimed
    <3> QED BY <1>1, <1>4, <2>1, <3>1 DEF IInv, TypeOK
  <2>4. DrainInv'
    BY <1>1, <1>6, <2>2 DEF IInv, DrainInv
  <2>5. FullInv'
    BY <1>1, <1>2, <2>2 DEF IInv, FullInv
  <2>6. StageInv'
    BY <1>1, <1>3, <1>4, <2>1 DEF IInv, TypeOK, StageInv
  <2>7. OwedInv'
    BY <1>1, <1>2, <1>3, <1>4, <2>1, <2>2 DEF IInv, TypeOK, OwedInv
  <2>8. SeenInv'
    BY <1>1, <2>1 DEF IInv, TypeOK, SeenInv
  <2> QED BY <2>3, <2>4, <2>5, <2>6, <2>7, <2>8 DEF IInv
<1> QED BY <1>5, <1>6 DEF IInv, TypeOK

LEMMA FinishPluginKeeps ==
    ASSUME IInv, NEW w \in Workers, FinishPluginReports(w)
    PROVE  IInv'
<1>1. /\ pc[w] = "final" /\ pc' = [pc EXCEPT ![w] = "free"]
      /\ UNCHANGED <<providers, accepts, stopped, pending, fullPending, phase,
                     reportLock, use, reports, files, owed, cooling, seen>>
  BY DEF FinishPluginReports, Goto
<1>2. /\ "free" \notin PluginSet /\ "free" \notin FullSet /\ "final" \in PluginSet
      /\ "final" \notin FullSet /\ FullClaimed \subseteq FullSet /\ "fQueued" \in FullSet
  BY DEF PluginSet, FullSet, PluginClaimed, FullClaimed
<1>3. timer["plugin"] = "off" /\ \A v \in Workers : pc'[v] \notin PluginSet
  BY <1>1, <1>2 DEF IInv, TypeOK, DrainInv
<1>4. /\ DrainInv' /\ timer'["full"] = timer["full"]
      /\ timer' \in [Timers -> {"off", "now", "interval"}] /\ drainActive' \in BOOLEAN
  <2>1. CASE stopped
    <3>1. drainActive' = FALSE /\ timer' = timer
      BY <2>1 DEF FinishPluginReports
    <3> QED BY <1>1, <1>3, <2>1, <3>1 DEF IInv, TypeOK, DrainInv
  <2>2. CASE ~stopped
    <3>1. TrySchedulePendingPluginReports(pending, accepts, FALSE)
      BY <2>2 DEF FinishPluginReports
    <3> QED BY <1>1, <1>3, <2>2, <3>1, ScheduleDrain
  <2> QED BY <2>1, <2>2
<1>5. TypeOK'
  BY <1>1, <1>4 DEF IInv, TypeOK
<1>6. FullInv'
  <2>1. \A v \in Workers : /\ pc'[v] \in FullSet <=> pc[v] \in FullSet
                           /\ pc'[v] \in FullSet => pc'[v] = pc[v]
                           /\ pc[v] \in FullSet => pc'[v] = pc[v]
    BY <1>1, <1>2 DEF IInv, TypeOK
  <2> QED BY <1>1, <1>2, <1>4, <2>1 DEF IInv, FullInv
<1>7. StageInv' /\ SeenInv'
  BY <1>1 DEF IInv, TypeOK, StageInv, SeenInv
<1>8. OwedInv'
  <2>1. reports[w] = {}
    BY <1>1 DEF IInv, StageInv
  <2> QED BY <1>1, <2>1 DEF IInv, TypeOK, OwedInv
<1> QED BY <1>4, <1>5, <1>6, <1>7, <1>8 DEF IInv

LEMMA ClaimFullKeeps ==
    ASSUME IInv, NEW w \in Workers, ClaimFullState(w)
    PROVE  /\ IInv'
           /\ \A v \in Workers : pc[v] = "fQueued" /\ pc'[v] = "fLock" => ~cooling
<1> DEFINE next == IF ~stopped /\ fullPending THEN "fLock" ELSE "free"
<1>1. /\ pc[w] = "fQueued"
      /\ UNCHANGED <<providers, accepts, stopped, pending, drainActive, timer,
                     reportLock, use, reports, files, owed, cooling, seen>>
  BY DEF ClaimFullState
<1>2. /\ "free" \notin PluginSet /\ "free" \notin FullSet /\ "fQueued" \in FullSet
      /\ "fQueued" \notin PluginSet /\ "fLock" \in FullSet /\ "fLock" \notin PluginSet
      /\ "fLock" \in FullClaimed /\ FullClaimed \subseteq FullSet /\ "free" \notin FullClaimed
      /\ "fQueued" \notin FullClaimed
  BY DEF PluginSet, FullSet, PluginClaimed, FullClaimed
<1>3. ~stopped => phase = "Waiting" /\ ~cooling
  BY <1>1 DEF IInv, FullInv
<1>4. /\ pc' = [pc EXCEPT ![w] = next]
      /\ IF stopped THEN UNCHANGED <<fullPending, phase>>
         ELSE phase' = (IF fullPending THEN "Reporting" ELSE "Idle") /\ fullPending' = FALSE
  BY <1>3 DEF ClaimFullState
<1>5. timer["full"] = "off" /\ \A v \in Workers : v # w => pc[v] \notin FullSet
  BY <1>1, <1>2 DEF IInv, FullInv
<1>6. TypeOK'
  BY <1>1, <1>2, <1>4 DEF IInv, TypeOK
<1>7. DrainInv'
  <2>1. \A v \in Workers : pc'[v] \in PluginSet <=> pc[v] \in PluginSet
    BY <1>1, <1>2, <1>4 DEF IInv, TypeOK
  <2> QED BY <1>1, <2>1 DEF IInv, DrainInv, GetEligiblePluginReports
<1>8. FullInv'
  BY <1>1, <1>2, <1>3, <1>4, <1>5 DEF IInv, TypeOK, FullInv
<1>9. StageInv' /\ SeenInv'
  BY <1>1, <1>4 DEF IInv, TypeOK, StageInv, SeenInv
<1>10. OwedInv'
  <2>1. \A v \in Workers : pc'[v] \in PluginSet <=> pc[v] \in PluginSet
    BY <1>1, <1>2, <1>4 DEF IInv, TypeOK
  <2> QED BY <1>1, <2>1 DEF IInv, OwedInv
<1>11. \A v \in Workers : pc[v] = "fQueued" /\ pc'[v] = "fLock" => ~cooling
  BY <1>1, <1>3, <1>4 DEF IInv, TypeOK
<1> QED BY <1>6, <1>7, <1>8, <1>9, <1>10, <1>11 DEF IInv

LEMMA FinishFullKeeps ==
    ASSUME IInv, NEW w \in Workers, FinishFullState(w)
    PROVE  IInv'
<1>1. /\ pc[w] = "fFinal" /\ pc' = [pc EXCEPT ![w] = "free"] /\ cooling' = TRUE
      /\ UNCHANGED <<providers, accepts, stopped, pending, fullPending, drainActive,
                     reportLock, use, reports, files, owed, seen>>
  BY DEF FinishFullState, Goto
<1>2. /\ "free" \notin PluginSet /\ "free" \notin FullSet /\ "fFinal" \in FullSet
      /\ "fFinal" \notin PluginSet /\ "fQueued" \in FullSet /\ FullClaimed \subseteq FullSet
  BY DEF PluginSet, FullSet, PluginClaimed, FullClaimed
<1>3. timer["full"] = "off" /\ \A v \in Workers : pc'[v] \notin FullSet
  BY <1>1, <1>2 DEF IInv, TypeOK, FullInv
<1>4. /\ timer' \in [Timers -> {"off", "now", "interval"}] /\ timer'["plugin"] = timer["plugin"]
      /\ IF stopped THEN phase' = "Idle" /\ timer'["full"] = "off"
         ELSE phase' = "Waiting" /\ timer'["full"] = "interval"
  BY <1>3 DEF FinishFullState, IInv, TypeOK, Timers
<1>5. TypeOK'
  BY <1>1, <1>4 DEF IInv, TypeOK
<1>6. DrainInv' /\ OwedInv'
  <2>1. \A v \in Workers : pc'[v] \in PluginSet <=> pc[v] \in PluginSet
    BY <1>1, <1>2 DEF IInv, TypeOK
  <2> QED BY <1>1, <1>4, <2>1 DEF IInv, DrainInv, OwedInv, GetEligiblePluginReports
<1>7. FullInv'
  BY <1>1, <1>2, <1>3, <1>4 DEF FullInv
<1>8. StageInv' /\ SeenInv'
  BY <1>1 DEF IInv, TypeOK, StageInv, SeenInv
<1> QED BY <1>5, <1>6, <1>7, <1>8 DEF IInv

----------------------------------------------------------------------------
LEMMA InitHolds == Init => IInv
<1> SUFFICES ASSUME Init PROVE IInv
  OBVIOUS
<1> USE DEF Init
<1>1. "free" \notin PluginSet /\ "free" \notin FullSet /\ "free" \notin FullClaimed
  BY DEF PluginSet, FullSet, PluginClaimed, FullClaimed
<1>2. TypeOK
  BY DEF TypeOK
<1>3. DrainInv
  BY <1>1 DEF DrainInv, Timers, GetEligiblePluginReports
<1>4. FullInv
  BY <1>1 DEF FullInv, Timers
<1>5. StageInv /\ OwedInv /\ SeenInv
  BY DEF StageInv, OwedInv, SeenInv
<1> QED BY <1>2, <1>3, <1>4, <1>5 DEF IInv

LEMMA PluginCallbackKeeps ==
    ASSUME IInv, NEW w \in Workers, PluginCallback(w)
    PROVE  IInv'
<1>1. CASE ClaimPluginReports(w)
  BY <1>1, ClaimPluginKeeps
<1>2. CASE ReportEffectiveConfig(w)
  <2>1. CASE CallProvider(w, Effective, "read", "reading", AfterEffective(w))
    BY <2>1, CallProviderKeeps
  <2>2. CASE Decide(w, "reading", AfterEffective(w)) \/ Decide(w, "send", AfterEffective(w))
    BY <2>2, DecideKeeps
  <2> QED BY <1>2, <2>1, <2>2, TryUseKeeps, AnswerKeeps DEF ReportEffectiveConfig
<1>3. CASE ReportRemoteConfigStatus(w)
  <2>1. CASE CallProvider(w, Status, "status", "statusReading", "unlock")
    BY <2>1, CallProviderKeeps
  <2>2. CASE \/ Decide(w, "statusReading", "statusCheck") \/ Decide(w, "statusReading", "unlock")
             \/ Decide(w, "statusCheck", IF stopped THEN "unlock" ELSE "statusSend")
             \/ Decide(w, "statusSend", "unlock")
    BY <2>2, DecideKeeps
  <2> QED BY <1>3, <2>1, <2>2 DEF ReportRemoteConfigStatus
<1>4. CASE ReleaseReportLock(w, "unlock", "final")
  BY <1>4, ReleaseKeeps
<1>5. CASE FinishPluginReports(w)
  BY <1>5, FinishPluginKeeps
<1> QED BY <1>1, <1>2, <1>3, <1>4, <1>5 DEF PluginCallback

LEMMA FullCallbackKeeps ==
    ASSUME IInv, NEW w \in Workers, FullCallback(w)
    PROVE  IInv'
<1>1. CASE ClaimFullState(w)
  BY <1>1, ClaimFullKeeps
<1>2. CASE ReportFullStateCore(w)
  <2>1. CASE \/ CallProvider(w, Effective, "fRead", "fReading", "fStatus")
             \/ CallProvider(w, Status, "fStatus", "fStatusReading", "fStopped")
    BY <2>1, CallProviderKeeps
  <2>2. CASE \/ Decide(w, "fAccepts", IF accepts THEN "fRead" ELSE "fStatus")
             \/ Decide(w, "fReading", "fStatus") \/ Decide(w, "fStatusReading", "fStopped")
             \/ Decide(w, "fStopped", IF stopped THEN "fUnlock" ELSE "fRecheck")
             \/ Decide(w, "fSend", "fUnlock")
    BY <2>2, DecideKeeps
  <2> QED BY <1>2, <2>1, <2>2, AnswerKeeps, RecheckKeeps DEF ReportFullStateCore
<1>3. CASE ReleaseReportLock(w, "fUnlock", "fFinal")
  BY <1>3, ReleaseKeeps
<1>4. CASE FinishFullState(w)
  BY <1>4, FinishFullKeeps
<1> QED BY <1>1, <1>2, <1>3, <1>4 DEF FullCallback

LEMMA NextKeeps == IInv /\ [Next]_vars => IInv'
<1> SUFFICES ASSUME IInv, [Next]_vars PROVE IInv'
  OBVIOUS
<1>1. CASE UNCHANGED vars
  BY <1>1 DEF vars, schedVars, workVars, IInv, TypeOK, DrainInv, FullInv, StageInv, OwedInv, SeenInv,
     GetEligiblePluginReports
<1>2. ASSUME NEW w \in Workers,
             \/ \E t \in Timers : TimerFires(t, w)
             \/ PluginCallback(w) \/ PluginTakesLock(w)
             \/ FullCallback(w) \/ FullTakesLock(w)
      PROVE  IInv'
  BY <1>2, FireKeeps, PluginCallbackKeeps, FullCallbackKeeps, AcquireKeeps
<1> QED BY <1>1, <1>2, NotifyKeeps, CapabilitiesKeep, RequestKeeps, StopKeeps, ElapseKeeps DEF Next

LEMMA Invariant == Spec => []IInv
<1> QED BY InitHolds, NextKeeps, PTL DEF Spec

\* Every field and every callback stage keeps its type, for any number of pool threads.
THEOREM TypeCorrect == Spec => []TypeOK
<1>1. IInv => TypeOK
  BY DEF IInv
<1> QED BY <1>1, Invariant, PTL

\* However notifications, capability changes, requests and late callbacks interleave, a timer has at
\* most one callback outstanding and the scheduling flags of OpAmpReporter tell the truth about it.
THEOREM OneCallback == Spec => []ScheduledOnce
<1>1. IInv => ScheduledOnce
  <2> SUFFICES ASSUME IInv PROVE ScheduledOnce
    OBVIOUS
  <2>1. /\ Running("plugin") = {w \in Workers : pc[w] \in PluginSet}
        /\ Running("full") = {w \in Workers : pc[w] \in FullSet}
    BY DEF Running, PluginSet, FullSet
  <2>2. Timers = {"plugin", "full"}
    BY DEF Timers
  <2>3. \A t \in Timers : /\ \A v, w \in Running(t) : v = w
                          /\ timer[t] # "off" => Running(t) = {}
    BY <2>1, <2>2 DEF IInv, DrainInv, FullInv
  <2>4. ~stopped =>
          /\ drainActive <=> (timer["plugin"] # "off" \/ Running("plugin") # {})
          /\ GetEligiblePluginReports(pending, accepts) # {} => drainActive
    BY <2>1 DEF IInv, DrainInv
  <2>5. ~stopped =>
          /\ phase # "Idle" <=> (timer["full"] # "off" \/ Running("full") # {})
          /\ fullPending => phase # "Idle"
    BY <2>1 DEF IInv, FullInv, FullSet
  <2> QED BY <2>3, <2>4, <2>5 DEF ScheduledOnce
<1> QED BY <1>1, Invariant, PTL

\* Until the reporter is stopped, a change the plugin announced is pending or about to be read.
THEOREM NoneForgotten == Spec => []NothingForgotten
<1>1. IInv => NothingForgotten
  BY DEF IInv, OwedInv, NothingForgotten, Running, PluginSet
<1> QED BY <1>1, Invariant, PTL

\* A revocation handled before the provider answered is honoured by both kinds of report.
THEOREM Revocation == Spec => []RevocationIsHonoured
<1>1. IInv => RevocationIsHonoured
  BY DEF IInv, SeenInv, RevocationIsHonoured
<1> QED BY <1>1, Invariant, PTL

LEMMA OnlyTheClaim ==
    ASSUME TypeOK, [Next]_vars, NEW v \in Workers, pc[v] = "fQueued", pc'[v] = "fLock"
    PROVE  ClaimFullState(v)
<1>1. pc' # pc
  OBVIOUS
<1>2. PICK w \in Workers :
           \/ \E t \in Timers : TimerFires(t, w)
           \/ PluginCallback(w) \/ PluginTakesLock(w)
           \/ FullCallback(w) \/ FullTakesLock(w)
  BY <1>1 DEF Next, vars, workVars, NotifyPluginReport, HandleServerCapabilities, ReportFullState, Stop,
     IntervalElapses
<1>3. ASSUME \E b : pc' = [pc EXCEPT ![w] = b] PROVE v = w
  BY <1>1, <1>3 DEF TypeOK
<1>4. CASE \E t \in Timers : TimerFires(t, w)
  <2>1. pc[w] = "free" /\ \E b : pc' = [pc EXCEPT ![w] = b]
    BY <1>4 DEF TimerFires
  <2> QED BY <1>3, <2>1
<1>5. CASE PluginCallback(w) \/ PluginTakesLock(w)
  <2>1. pc[w] # "fQueued"
    BY <1>5 DEF PluginCallback, PluginTakesLock, AcquireReportLock, ClaimPluginReports,
       ReportEffectiveConfig, ReportRemoteConfigStatus, ReleaseReportLock, FinishPluginReports, TryUse,
       CallProvider, ProviderAnswers, Decide, Goto
  <2>2. pc' = pc \/ \E b : pc' = [pc EXCEPT ![w] = b]
    BY <1>5 DEF PluginCallback, PluginTakesLock, AcquireReportLock, ClaimPluginReports,
       ReportEffectiveConfig, ReportRemoteConfigStatus, ReleaseReportLock, FinishPluginReports, TryUse,
       UseSlow, CallProvider, ProviderAnswers, Decide, Goto
  <2> QED BY <1>1, <1>3, <2>1, <2>2
<1>6. CASE FullTakesLock(w) \/ (FullCallback(w) /\ ~ClaimFullState(w))
  <2>1. pc[w] # "fQueued" /\ \E b : pc' = [pc EXCEPT ![w] = b]
    BY <1>6 DEF FullCallback, FullTakesLock, AcquireReportLock, ReportFullStateCore, ReleaseReportLock,
       FinishFullState, RecheckFullState, CallProvider, ProviderAnswers, Decide, Goto
  <2> QED BY <1>3, <2>1
<1>7. CASE ClaimFullState(w)
  BY <1>3, <1>7 DEF ClaimFullState
<1> QED BY <1>2, <1>4, <1>5, <1>6, <1>7

\* The server cannot make the reporter attempt full-state reports faster than the interval.
THEOREM IntervalKept == Spec => IntervalIsKept
<1>1. IInv /\ [Next]_vars =>
          [\A w \in Workers : pc[w] = "fQueued" /\ pc'[w] = "fLock" => ~cooling]_vars
  <2> SUFFICES ASSUME IInv, [Next]_vars, NEW w \in Workers, pc[w] = "fQueued", pc'[w] = "fLock"
               PROVE  ~cooling
    OBVIOUS
  <2>1. ClaimFullState(w)
    BY OnlyTheClaim DEF IInv
  <2> QED BY <2>1, ClaimFullKeeps
<1> QED BY <1>1, Invariant, PTL DEF Spec, IntervalIsKept

----------------------------------------------------------------------------
(* The life of the client.                                                 *)

Disposers == {"stop", "forced"}

\* The values the state of the client's life takes.
LifeTypeOK ==
    /\ prep \in {"begin", "create", "register", "discard", "prepared", "done"}
    /\ manager \in {"none", "candidate", "registered", "taken"}
    /\ stopper \in {"none", "stop", "wait", "done"}
    /\ {loaderStopped, exited, shutdownStarted, cancelled, forceRequested, disposed,
        clientDisposed} \subseteq BOOLEAN
    /\ startup \in {"none", "queued", "connected", "after", "done"}
    /\ stopTask \in {"none", "before", "inBefore", "cancel", "await", "transport", "dispose"}
    /\ lifecycle \in {"free", "startup", "stop"}
    /\ forced \in {"none", "client", "done"}
    /\ disposing \in [Disposers -> {"none", "begin", "cancel", "client", "done", "failed"}]
    /\ called \subseteq {"after", "before"}

\* The manager is taken out once, so StopManager is called once, and startup is queued once.
TakenInv ==
    /\ prep \in {"begin", "create"} => manager = "none"
    /\ prep \in {"register", "discard"} => manager = "candidate"
    /\ stopper # "none" => manager = "taken"
    /\ startup # "none" => prep = "done"

\* The plugin's lock belongs to the task whose callback runs.
CallbackInv ==
    /\ lifecycle = "startup" <=> startup = "after"
    /\ lifecycle = "stop" <=> stopTask = "inBefore"
    /\ "before" \in called => stopTask # "none"

\* What has happened by the time each task is where it is.
StageOrder ==
    /\ stopTask # "none" => shutdownStarted /\ stopper \in {"wait", "done"}
    /\ stopTask = "transport" => startup = "done"
    /\ stopTask = "dispose" => startup \in {"none", "done"}
    /\ disposing["stop"] # "none" => stopTask = "dispose"
    /\ forced # "none" \/ disposing["forced"] # "none" => forceRequested
    /\ disposals = IF clientDisposed THEN 1 ELSE 0
    /\ clientDisposed /\ ~forceRequested => stopTask = "dispose"

LifeInv == LifeTypeOK /\ TakenInv /\ CallbackInv /\ StageOrder

\* The loader moves the manager and queues the startup only before shutdown has begun.
LEMMA LoaderKeepsLife ==
    ASSUME LifeInv,
           Prepares \/ Creates \/ Registers \/ StartsClient \/ StopsIfRunning
    PROVE  LifeInv'
<1>1. CASE Prepares \/ Creates
  <2>1. LifeTypeOK'
    <3>1. CASE Prepares
      BY <3>1 DEF LifeInv, LifeTypeOK, Prepares, taskVars, cleanVars
    <3>2. CASE Creates
      BY <3>2 DEF LifeInv, LifeTypeOK, Creates, taskVars, cleanVars
    <3> QED BY <1>1, <3>1, <3>2
  <2>2. TakenInv'
    BY <1>1 DEF LifeInv, LifeTypeOK, TakenInv, Prepares, Creates, loaderVars, taskVars, cleanVars
  <2>3. CallbackInv'
    BY <1>1 DEF LifeInv, LifeTypeOK, TakenInv, CallbackInv, StageOrder, Prepares, Creates, loaderVars,
       taskVars, cleanVars
  <2>4. StageOrder'
    BY <1>1 DEF LifeInv, LifeTypeOK, TakenInv, CallbackInv, StageOrder, Prepares, Creates, loaderVars,
       taskVars, cleanVars
  <2> QED BY <2>1, <2>2, <2>3, <2>4 DEF LifeInv
<1>2. CASE Registers
  <2>1. LifeTypeOK'
    BY <1>2 DEF LifeInv, LifeTypeOK, Registers, loaderVars, taskVars, cleanVars
  <2>2. TakenInv'
    BY <1>2 DEF LifeInv, LifeTypeOK, TakenInv, Registers, loaderVars, taskVars, cleanVars
  <2>3. CallbackInv'
    BY <1>2 DEF LifeInv, LifeTypeOK, TakenInv, CallbackInv, StageOrder, Registers, loaderVars,
       taskVars, cleanVars
  <2>4. StageOrder'
    BY <1>2 DEF LifeInv, LifeTypeOK, TakenInv, CallbackInv, StageOrder, Registers, loaderVars,
       taskVars, cleanVars
  <2> QED BY <2>1, <2>2, <2>3, <2>4 DEF LifeInv
<1>3. CASE StartsClient
  <2>1. LifeTypeOK'
    BY <1>3 DEF LifeInv, LifeTypeOK, StartsClient, loaderVars, taskVars, cleanVars
  <2>2. TakenInv'
    BY <1>3 DEF LifeInv, LifeTypeOK, TakenInv, StartsClient, loaderVars, taskVars, cleanVars
  <2>3. CallbackInv'
    BY <1>3 DEF LifeInv, LifeTypeOK, TakenInv, CallbackInv, StageOrder, StartsClient, loaderVars,
       taskVars, cleanVars
  <2>4. StageOrder'
    BY <1>3 DEF LifeInv, LifeTypeOK, TakenInv, CallbackInv, StageOrder, StartsClient, loaderVars,
       taskVars, cleanVars
  <2> QED BY <2>1, <2>2, <2>3, <2>4 DEF LifeInv
<1>4. CASE StopsIfRunning
  <2>1. LifeTypeOK'
    BY <1>4 DEF LifeInv, LifeTypeOK, StopsIfRunning, loaderVars, taskVars, cleanVars
  <2>2. TakenInv'
    BY <1>4 DEF LifeInv, LifeTypeOK, TakenInv, StopsIfRunning, loaderVars, taskVars, cleanVars
  <2>3. CallbackInv'
    BY <1>4 DEF LifeInv, LifeTypeOK, TakenInv, CallbackInv, StageOrder, StopsIfRunning, loaderVars,
       taskVars, cleanVars
  <2>4. StageOrder'
    BY <1>4 DEF LifeInv, LifeTypeOK, TakenInv, CallbackInv, StageOrder, StopsIfRunning, loaderVars,
       taskVars, cleanVars
  <2> QED BY <2>1, <2>2, <2>3, <2>4 DEF LifeInv
<1> QED BY <1>1, <1>2, <1>3, <1>4

\* StopManager starts the stop task once; its deadline only asks for the forced cleanup.
LEMMA StopperKeepsLife ==
    ASSUME LifeInv,
           StopsManager \/ WaitSucceeds \/ WaitTimesOut
    PROVE  LifeInv'
<1>1. CASE StopsManager
  <2>1. LifeTypeOK'
    BY <1>1 DEF LifeInv, LifeTypeOK, StopsManager, loaderVars, taskVars, cleanVars
  <2>2. TakenInv'
    BY <1>1 DEF LifeInv, LifeTypeOK, TakenInv, StopsManager, loaderVars, taskVars, cleanVars
  <2>3. CallbackInv'
    BY <1>1 DEF LifeInv, LifeTypeOK, TakenInv, CallbackInv, StageOrder, StopsManager, loaderVars,
       taskVars, cleanVars
  <2>4. StageOrder'
    BY <1>1 DEF LifeInv, LifeTypeOK, TakenInv, CallbackInv, StageOrder, StopsManager, loaderVars,
       taskVars, cleanVars
  <2> QED BY <2>1, <2>2, <2>3, <2>4 DEF LifeInv
<1>2. CASE WaitSucceeds
  <2>1. LifeTypeOK'
    BY <1>2 DEF LifeInv, LifeTypeOK, WaitSucceeds, loaderVars, taskVars, cleanVars, StopTaskDone
  <2>2. TakenInv'
    BY <1>2 DEF LifeInv, LifeTypeOK, TakenInv, WaitSucceeds, loaderVars, taskVars, cleanVars,
       StopTaskDone
  <2>3. CallbackInv'
    BY <1>2 DEF LifeInv, LifeTypeOK, TakenInv, CallbackInv, StageOrder, WaitSucceeds, loaderVars,
       taskVars, cleanVars, StopTaskDone
  <2>4. StageOrder'
    BY <1>2 DEF LifeInv, LifeTypeOK, TakenInv, CallbackInv, StageOrder, WaitSucceeds, loaderVars,
       taskVars, cleanVars, StopTaskDone
  <2> QED BY <2>1, <2>2, <2>3, <2>4 DEF LifeInv
<1>3. CASE WaitTimesOut
  <2>1. LifeTypeOK'
    BY <1>3 DEF LifeInv, LifeTypeOK, WaitTimesOut, loaderVars, taskVars, cleanVars, StopTaskDone
  <2>2. TakenInv'
    BY <1>3 DEF LifeInv, LifeTypeOK, TakenInv, WaitTimesOut, loaderVars, taskVars, cleanVars,
       StopTaskDone
  <2>3. CallbackInv'
    BY <1>3 DEF LifeInv, LifeTypeOK, TakenInv, CallbackInv, StageOrder, WaitTimesOut, loaderVars,
       taskVars, cleanVars, StopTaskDone
  <2>4. StageOrder'
    BY <1>3 DEF LifeInv, LifeTypeOK, TakenInv, CallbackInv, StageOrder, WaitTimesOut, loaderVars,
       taskVars, cleanVars, StopTaskDone
  <2> QED BY <2>1, <2>2, <2>3, <2>4 DEF LifeInv
<1> QED BY <1>1, <1>2, <1>3

\* The startup task takes the plugin's lock when it is free and gives it back.
LEMMA StartupKeepsLife ==
    ASSUME LifeInv,
           ClientAnswers \/ CallsAfterStarted \/ AfterStartedReturns
    PROVE  LifeInv'
<1>1. CASE ClientAnswers
  <2>1. LifeTypeOK'
    BY <1>1 DEF LifeInv, LifeTypeOK, ClientAnswers, loaderVars, taskVars, cleanVars
  <2>2. TakenInv'
    BY <1>1 DEF LifeInv, LifeTypeOK, TakenInv, ClientAnswers, loaderVars, taskVars, cleanVars
  <2>3. CallbackInv'
    BY <1>1 DEF LifeInv, LifeTypeOK, TakenInv, CallbackInv, StageOrder, ClientAnswers, loaderVars,
       taskVars, cleanVars
  <2>4. StageOrder'
    BY <1>1 DEF LifeInv, LifeTypeOK, TakenInv, CallbackInv, StageOrder, ClientAnswers, loaderVars,
       taskVars, cleanVars
  <2> QED BY <2>1, <2>2, <2>3, <2>4 DEF LifeInv
<1>2. CASE CallsAfterStarted
  <2>1. LifeTypeOK'
    BY <1>2 DEF LifeInv, LifeTypeOK, CallsAfterStarted, loaderVars, taskVars, cleanVars
  <2>2. TakenInv'
    BY <1>2 DEF LifeInv, LifeTypeOK, TakenInv, CallsAfterStarted, loaderVars, taskVars, cleanVars
  <2>3. CallbackInv'
    BY <1>2 DEF LifeInv, LifeTypeOK, TakenInv, CallbackInv, StageOrder, CallsAfterStarted,
       loaderVars, taskVars, cleanVars
  <2>4. StageOrder'
    BY <1>2 DEF LifeInv, LifeTypeOK, TakenInv, CallbackInv, StageOrder, CallsAfterStarted,
       loaderVars, taskVars, cleanVars
  <2> QED BY <2>1, <2>2, <2>3, <2>4 DEF LifeInv
<1>3. CASE AfterStartedReturns
  <2>1. LifeTypeOK'
    BY <1>3 DEF LifeInv, LifeTypeOK, AfterStartedReturns, loaderVars, taskVars, cleanVars
  <2>2. TakenInv'
    BY <1>3 DEF LifeInv, LifeTypeOK, TakenInv, AfterStartedReturns, loaderVars, taskVars, cleanVars
  <2>3. CallbackInv'
    BY <1>3 DEF LifeInv, LifeTypeOK, TakenInv, CallbackInv, StageOrder, AfterStartedReturns,
       loaderVars, taskVars, cleanVars
  <2>4. StageOrder'
    BY <1>3 DEF LifeInv, LifeTypeOK, TakenInv, CallbackInv, StageOrder, AfterStartedReturns,
       loaderVars, taskVars, cleanVars
  <2> QED BY <2>1, <2>2, <2>3, <2>4 DEF LifeInv
<1> QED BY <1>1, <1>2, <1>3

\* The stop task goes to the disposal when the startup task is over.
LEMMA StopTaskKeepsLife ==
    ASSUME LifeInv,
           CallsBeforeStopped \/ BeforeStoppedReturns \/ CancelsStartup \/ AwaitsStartup \/ TransportStops
    PROVE  LifeInv'
<1>1. CASE CallsBeforeStopped
  <2>1. LifeTypeOK'
    BY <1>1 DEF LifeInv, LifeTypeOK, CallsBeforeStopped, loaderVars, taskVars, cleanVars
  <2>2. TakenInv'
    BY <1>1 DEF LifeInv, LifeTypeOK, TakenInv, CallsBeforeStopped, loaderVars, taskVars, cleanVars
  <2>3. CallbackInv'
    BY <1>1 DEF LifeInv, LifeTypeOK, TakenInv, CallbackInv, StageOrder, CallsBeforeStopped,
       loaderVars, taskVars, cleanVars
  <2>4. StageOrder'
    BY <1>1 DEF LifeInv, LifeTypeOK, TakenInv, CallbackInv, StageOrder, CallsBeforeStopped,
       loaderVars, taskVars, cleanVars
  <2> QED BY <2>1, <2>2, <2>3, <2>4 DEF LifeInv
<1>2. CASE BeforeStoppedReturns
  <2>1. LifeTypeOK'
    BY <1>2 DEF LifeInv, LifeTypeOK, BeforeStoppedReturns, loaderVars, taskVars, cleanVars
  <2>2. TakenInv'
    BY <1>2 DEF LifeInv, LifeTypeOK, TakenInv, BeforeStoppedReturns, loaderVars, taskVars, cleanVars
  <2>3. CallbackInv'
    BY <1>2 DEF LifeInv, LifeTypeOK, TakenInv, CallbackInv, StageOrder, BeforeStoppedReturns,
       loaderVars, taskVars, cleanVars
  <2>4. StageOrder'
    BY <1>2 DEF LifeInv, LifeTypeOK, TakenInv, CallbackInv, StageOrder, BeforeStoppedReturns,
       loaderVars, taskVars, cleanVars
  <2> QED BY <2>1, <2>2, <2>3, <2>4 DEF LifeInv
<1>3. CASE CancelsStartup
  <2>1. LifeTypeOK'
    BY <1>3 DEF LifeInv, LifeTypeOK, CancelsStartup, loaderVars, taskVars, cleanVars
  <2>2. TakenInv'
    BY <1>3 DEF LifeInv, LifeTypeOK, TakenInv, CancelsStartup, loaderVars, taskVars, cleanVars
  <2>3. CallbackInv'
    BY <1>3 DEF LifeInv, LifeTypeOK, TakenInv, CallbackInv, StageOrder, CancelsStartup, loaderVars,
       taskVars, cleanVars
  <2>4. StageOrder'
    BY <1>3 DEF LifeInv, LifeTypeOK, TakenInv, CallbackInv, StageOrder, CancelsStartup, loaderVars,
       taskVars, cleanVars
  <2> QED BY <2>1, <2>2, <2>3, <2>4 DEF LifeInv
<1>4. CASE AwaitsStartup
  <2>1. LifeTypeOK'
    BY <1>4 DEF LifeInv, LifeTypeOK, AwaitsStartup, loaderVars, taskVars, cleanVars, Disposers
  <2>2. TakenInv'
    BY <1>4 DEF LifeInv, LifeTypeOK, TakenInv, AwaitsStartup, loaderVars, taskVars, cleanVars,
       Disposers
  <2>3. CallbackInv'
    BY <1>4 DEF LifeInv, LifeTypeOK, TakenInv, CallbackInv, StageOrder, AwaitsStartup, loaderVars,
       taskVars, cleanVars, Disposers
  <2>4. StageOrder'
    BY <1>4 DEF LifeInv, LifeTypeOK, TakenInv, CallbackInv, StageOrder, AwaitsStartup, loaderVars,
       taskVars, cleanVars, Disposers
  <2> QED BY <2>1, <2>2, <2>3, <2>4 DEF LifeInv
<1>5. CASE TransportStops
  <2>1. LifeTypeOK'
    BY <1>5 DEF LifeInv, LifeTypeOK, TransportStops, loaderVars, taskVars, cleanVars, Disposers
  <2>2. TakenInv'
    BY <1>5 DEF LifeInv, LifeTypeOK, TakenInv, TransportStops, loaderVars, taskVars, cleanVars,
       Disposers
  <2>3. CallbackInv'
    BY <1>5 DEF LifeInv, LifeTypeOK, TakenInv, CallbackInv, StageOrder, TransportStops, loaderVars,
       taskVars, cleanVars, Disposers
  <2>4. StageOrder'
    BY <1>5 DEF LifeInv, LifeTypeOK, TakenInv, CallbackInv, StageOrder, TransportStops, loaderVars,
       taskVars, cleanVars, Disposers
  <2> QED BY <2>1, <2>2, <2>3, <2>4 DEF LifeInv
<1> QED BY <1>1, <1>2, <1>3, <1>4, <1>5

\* Only who exchanges _clientDisposed first disposes the client.
LEMMA DisposalKeepsLife ==
    ASSUME LifeInv, NEW p \in Disposers,
           DisposeBegins(p) \/ DisposeCancels(p) \/ DisposesClient(p) \/ ForcedDisposal
    PROVE  LifeInv'
<1>1. CASE DisposeBegins(p)
  <2>1. LifeTypeOK'
    BY <1>1 DEF LifeInv, LifeTypeOK, DisposeBegins, loaderVars, taskVars, cleanVars,
       ForceDisposeClient, Disposers
  <2>2. TakenInv'
    BY <1>1 DEF LifeInv, LifeTypeOK, TakenInv, DisposeBegins, loaderVars, taskVars, cleanVars,
       ForceDisposeClient, Disposers
  <2>3. CallbackInv'
    BY <1>1 DEF LifeInv, LifeTypeOK, TakenInv, CallbackInv, StageOrder, DisposeBegins, loaderVars,
       taskVars, cleanVars, ForceDisposeClient, Disposers
  <2>4. StageOrder'
    BY <1>1 DEF LifeInv, LifeTypeOK, TakenInv, CallbackInv, StageOrder, DisposeBegins, loaderVars,
       taskVars, cleanVars, ForceDisposeClient, Disposers
  <2> QED BY <2>1, <2>2, <2>3, <2>4 DEF LifeInv
<1>2. CASE DisposeCancels(p)
  <2>1. LifeTypeOK'
    BY <1>2 DEF LifeInv, LifeTypeOK, DisposeCancels, loaderVars, taskVars, cleanVars,
       ForceDisposeClient, Disposers
  <2>2. TakenInv'
    BY <1>2 DEF LifeInv, LifeTypeOK, TakenInv, DisposeCancels, loaderVars, taskVars, cleanVars,
       ForceDisposeClient, Disposers
  <2>3. CallbackInv'
    BY <1>2 DEF LifeInv, LifeTypeOK, TakenInv, CallbackInv, StageOrder, DisposeCancels, loaderVars,
       taskVars, cleanVars, ForceDisposeClient, Disposers
  <2>4. StageOrder'
    BY <1>2 DEF LifeInv, LifeTypeOK, TakenInv, CallbackInv, StageOrder, DisposeCancels, loaderVars,
       taskVars, cleanVars, ForceDisposeClient, Disposers
  <2> QED BY <2>1, <2>2, <2>3, <2>4 DEF LifeInv
<1>3. CASE DisposesClient(p)
  <2>1. LifeTypeOK'
    BY <1>3 DEF LifeInv, LifeTypeOK, DisposesClient, loaderVars, taskVars, cleanVars,
       ForceDisposeClient, Disposers
  <2>2. TakenInv'
    BY <1>3 DEF LifeInv, LifeTypeOK, TakenInv, DisposesClient, loaderVars, taskVars, cleanVars,
       ForceDisposeClient, Disposers
  <2>3. CallbackInv'
    BY <1>3 DEF LifeInv, LifeTypeOK, TakenInv, CallbackInv, StageOrder, DisposesClient, loaderVars,
       taskVars, cleanVars, ForceDisposeClient, Disposers
  <2>4. StageOrder'
    BY <1>3 DEF LifeInv, LifeTypeOK, TakenInv, CallbackInv, StageOrder, DisposesClient, loaderVars,
       taskVars, cleanVars, ForceDisposeClient, Disposers
  <2> QED BY <2>1, <2>2, <2>3, <2>4 DEF LifeInv
<1>4. CASE ForcedDisposal
  <2>1. LifeTypeOK'
    BY <1>4 DEF LifeInv, LifeTypeOK, ForcedDisposal, loaderVars, taskVars, cleanVars,
       ForceDisposeClient, Disposers
  <2>2. TakenInv'
    BY <1>4 DEF LifeInv, LifeTypeOK, TakenInv, ForcedDisposal, loaderVars, taskVars, cleanVars,
       ForceDisposeClient, Disposers
  <2>3. CallbackInv'
    BY <1>4 DEF LifeInv, LifeTypeOK, TakenInv, CallbackInv, StageOrder, ForcedDisposal, loaderVars,
       taskVars, cleanVars, ForceDisposeClient, Disposers
  <2>4. StageOrder'
    BY <1>4 DEF LifeInv, LifeTypeOK, TakenInv, CallbackInv, StageOrder, ForcedDisposal, loaderVars,
       taskVars, cleanVars, ForceDisposeClient, Disposers
  <2> QED BY <2>1, <2>2, <2>3, <2>4 DEF LifeInv
<1> QED BY <1>1, <1>2, <1>3, <1>4

\* Every step of the client's life preserves LifeInv.
LEMMA LifeInductive == LifeInv /\ [LifeNext]_lifeVars => LifeInv'
<1> SUFFICES ASSUME LifeInv, [LifeNext]_lifeVars PROVE LifeInv'
  OBVIOUS
<1>1. CASE LoaderStep \/ StopsIfRunning
  BY <1>1, LoaderKeepsLife DEF LoaderStep
<1>2. CASE StopperStep
  BY <1>2, StopperKeepsLife DEF StopperStep
<1>3. CASE CallsAfterStarted
  BY <1>3, StartupKeepsLife
<1>4. CASE CallsBeforeStopped \/ AwaitsStartup
  BY <1>4, StopTaskKeepsLife
<1>5. CASE ForcedDisposal
  BY <1>5, DisposalKeepsLife DEF Disposers
<1>6. CASE \E p \in {"stop", "forced"} : DisposeStep(p)
  BY <1>6, DisposalKeepsLife DEF DisposeStep, Disposers
<1>7. CASE External
  BY <1>7, LoaderKeepsLife, StartupKeepsLife, StopTaskKeepsLife, DisposalKeepsLife
     DEF External, Disposers
<1>8. CASE UNCHANGED lifeVars
  BY <1>8 DEF LifeInv, LifeTypeOK, TakenInv, CallbackInv, StageOrder,
     lifeVars, loaderVars, taskVars, cleanVars
<1> QED BY <1>1, <1>2, <1>3, <1>4, <1>5, <1>6, <1>7, <1>8 DEF LifeNext

\* LifeInv holds in every reachable state of the client's life.
THEOREM LifeInvariant == LifeSpec => []LifeInv
<1>1. LifeInit => LifeInv
  BY DEF LifeInit, LifeInv, LifeTypeOK, TakenInv, CallbackInv, StageOrder, Disposers
<1> QED BY <1>1, LifeInductive, PTL DEF LifeSpec

\* The client is disposed exactly once, by whichever of the stop task, the forced cleanup and its
\* continuation exchanges _clientDisposed first, and without a missed deadline only when startup and
\* transport have ended, whichever plugin or client calls fail or never return.
THEOREM DisposedOnce == LifeSpec => []DisposedOnceAndIdle
<1>1. LifeInv => DisposedOnceAndIdle
  BY DEF LifeInv, StageOrder, DisposedOnceAndIdle
<1> QED BY <1>1, LifeInvariant, PTL

\* _pluginLifecycleLock and _shutdownStarted together order the plugin's callbacks: they never
\* overlap, and AfterOpAmpClientStarted is not called once BeforeOpAmpClientStopped was.
THEOREM StartSeenFirst == LifeSpec => StartedBeforeStopped
<1>1. LifeInv => ~(startup = "after" /\ stopTask = "inBefore")
  BY DEF LifeInv, CallbackInv
<1>2. LifeInv /\ [LifeNext]_lifeVars =>
          [("after" \notin called /\ "after" \in called') => "before" \notin called]_lifeVars
  <2> SUFFICES ASSUME LifeInv, LifeNext, "after" \notin called, "after" \in called'
               PROVE  "before" \notin called
    BY DEF LifeNext
  <2>1. CallsAfterStarted
    BY DEF LifeNext, LoaderStep, StopperStep, DisposeStep, External, Prepares, Creates, Registers, StartsClient,
       StopsIfRunning, StopsManager, WaitSucceeds, WaitTimesOut, CallsBeforeStopped, AwaitsStartup,
       ForcedDisposal, DisposeBegins, DisposesClient, DisposeCancels, ClientAnswers,
       AfterStartedReturns, BeforeStoppedReturns, CancelsStartup, TransportStops
  <2>2. ~shutdownStarted
    BY <2>1 DEF CallsAfterStarted
  <2> QED BY <2>2 DEF LifeInv, CallbackInv, StageOrder
<1> QED BY <1>1, <1>2, LifeInvariant, PTL DEF LifeSpec, StartedBeforeStopped
=============================================================================
