----------------------------- MODULE MCResumeGuard -----------------------------
(***************************************************************************)
(* ResumeGuard on two small instances that TLC explores in one run: `part' *)
(* says which one a behaviour belongs to.                                  *)
(*   "paths": two paths, a clock that a reboot loses, writes that fail;    *)
(*            the constants of the configuration.                          *)
(*   "crash": one path at a time on sound hardware, but more time and more *)
(*            boots: what `Crash' gives the constants.                     *)
(* Window and StableAfter keep their order: three ticks and one.           *)
(***************************************************************************)
EXTENDS ResumeGuard

CONSTANT FirstPath   \* the path of the instance "crash"

VARIABLE part

Crash == INSTANCE ResumeGuard WITH
  ColdClock <- FALSE, NandMayFail <- FALSE, MaxTime <- 4, MaxBoots <- 5

OnlyFirst == \A r \in Path \ {FirstPath} : pc'[r] = "idle"

In(p, A) == part = p /\ A /\ UNCHANGED part

GuardInit == Init /\ part \in {"paths", "crash"}
GuardNext == In("paths", Next) \/ In("crash", Crash!Next /\ OnlyFirst)

\* Time passes, goroutines run on, and timers and writes are not held up (ResumeGuard!FairSpec).
GuardSpec ==
  /\ GuardInit /\ [][GuardNext]_<<vars, part>>
  /\ WF_vars(In("crash", Crash!Tick))
  /\ WF_vars(In("crash", Crash!PathStep(FirstPath)))
  /\ WF_vars(In("crash", \E w \in writes : Crash!PersistLastPlay(w)))
  /\ WF_vars(In("crash", \E t \in timers : Crash!ClearIfQuiet(t)))

-----------------------------------------------------------------------------
\* The guard lets go again (ResumeGuard!HealsItself, with the bound on time of this instance).
GuardHeals == part = "crash" /\ Blocked /\ now + Window <= 4 ~> ~Blocked
=============================================================================
