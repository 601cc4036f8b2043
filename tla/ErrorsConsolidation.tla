------------------------ MODULE ErrorsConsolidation ------------------------
(***************************************************************************)
(* Lock-free consolidation of repeated errors by the errors plugin         *)
(* (plugin/errors/errors.go).  Every error that matches a pattern bumps    *)
(* the pattern's count; the request that moves it from 0 to 1 arms a timer *)
(* that logs and clears the count when the period is over.  stop() runs on *)
(* shutdown, while requests may still be in flight.                        *)
(*                                                                         *)
(* A step is one atomic operation on shared memory.  A timer is named by   *)
(* the request that armed it: a request arms at most one.                  *)
(***************************************************************************)
EXTENDS Integers, FiniteSets

CONSTANTS Requests,   \* ServeDNS calls
          NPatterns,  \* len(h.patterns)
          NoTimer     \* ptimer == nil

ASSUME RequestsAssumption == IsFiniteSet(Requests) /\ NoTimer \notin Requests
ASSUME NPatternsAssumption == NPatterns \in Nat

Patterns == 1 .. NPatterns

VARIABLES
    stopFlag,   \* errorHandler.stopFlag
    count,      \* count[p]: pattern.count
    ptimer,     \* ptimer[p]: pattern.ptimer
    timer,      \* timer[r]: "unset", "pending", "fired" (callback started), "stopped", "done"
    pc,         \* pc[r]: where request r is in ServeDNS and inc
    pat,        \* pat[r]: first pattern r's error matches; 0 for none
    stopPc,     \* where stop() is
    stopAt,     \* stop()'s loop index i
    stopTimer,  \* stop()'s local t
    logged,     \* logged[p]: sum of the counts given to cLogger
    direct      \* requests whose error was given to eLogger

vars == <<stopFlag, count, ptimer, timer, pc, pat, stopPc, stopAt, stopTimer, logged, direct>>

stopVars == <<stopPc, stopAt, stopTimer>>

Init ==
    /\ stopFlag = FALSE
    /\ count = [p \in Patterns |-> 0]
    /\ ptimer = [p \in Patterns |-> NoTimer]
    /\ timer = [r \in Requests |-> "unset"]
    /\ pc = [r \in Requests |-> "next"]
    /\ pat = [r \in Requests |-> 0]
    /\ stopPc = "idle"
    /\ stopAt = 1
    /\ stopTimer = NoTimer
    /\ logged = [p \in Patterns |-> 0]
    /\ direct = {}

-----------------------------------------------------------------------------
(* Mutation of logPattern: load the count instead of swapping it.          *)
LogPatternLoad(p) ==
    /\ logged' = [logged EXCEPT ![p] = @ + count[p]]
    /\ UNCHANGED count

(* Swap the count for 0 and log what was there.                            *)
logPattern(p) ==
    /\ count' = [count EXCEPT ![p] = 0]
    /\ logged' = [logged EXCEPT ![p] = @ + count[p]]

(* ServeDNS: the rest of the chain returned, with no error, with an error  *)
(* no pattern matches (logged at once), or with one that pattern p matches. *)
NextReturned(r) ==
    /\ pc[r] = "next"
    /\ \/ /\ pc' = [pc EXCEPT ![r] = "done"]
          /\ UNCHANGED <<pat, direct>>
       \/ /\ pc' = [pc EXCEPT ![r] = "done"]
          /\ direct' = direct \union {r}
          /\ UNCHANGED pat
       \/ \E p \in Patterns :
             /\ pat' = [pat EXCEPT ![r] = p]
             /\ pc' = [pc EXCEPT ![r] = "inc"]
             /\ UNCHANGED direct
    /\ UNCHANGED <<stopFlag, count, ptimer, timer, stopVars, logged>>

(* inc: once the handler is stopped inc refuses and ServeDNS logs.         *)
IncCheckStop(r) ==
    /\ pc[r] = "inc"
    /\ \/ /\ stopFlag
          /\ pc' = [pc EXCEPT ![r] = "done"]
          /\ direct' = direct \union {r}
       \/ /\ ~stopFlag
          /\ pc' = [pc EXCEPT ![r] = "add"]
          /\ UNCHANGED direct
    /\ UNCHANGED <<stopFlag, count, ptimer, timer, pat, stopVars, logged>>

(* inc: AddUint32; whoever makes the count 1 goes on to arm the timer.     *)
IncAdd(r) ==
    /\ pc[r] = "add"
    /\ count' = [count EXCEPT ![pat[r]] = @ + 1]
    /\ pc' = [pc EXCEPT ![r] = IF count[pat[r]] = 0 THEN "arm" ELSE "counted"]
    /\ UNCHANGED <<stopFlag, ptimer, timer, pat, stopVars, logged, direct>>

(* inc: time.AfterFunc.                                                    *)
IncArm(r) ==
    /\ pc[r] = "arm"
    /\ timer' = [timer EXCEPT ![r] = "pending"]
    /\ pc' = [pc EXCEPT ![r] = "set"]
    /\ UNCHANGED <<stopFlag, count, ptimer, pat, stopVars, logged, direct>>

(* inc: setTimer.                                                          *)
IncSetTimer(r) ==
    /\ pc[r] = "set"
    /\ ptimer' = [ptimer EXCEPT ![pat[r]] = r]
    /\ pc' = [pc EXCEPT ![r] = "recheck"]
    /\ UNCHANGED <<stopFlag, count, timer, pat, stopVars, logged, direct>>

(* inc: the second load of stopFlag.                                       *)
IncRecheck(r) ==
    /\ pc[r] = "recheck"
    /\ pc' = [pc EXCEPT ![r] = IF stopFlag THEN "cancel" ELSE "counted"]
    /\ UNCHANGED <<stopFlag, count, ptimer, timer, pat, stopVars, logged, direct>>

(* Mutation of IncCancel: stop the timer and leave the logging to nobody.  *)
IncCancelNoLog(r) ==
    /\ pc[r] = "cancel"
    /\ timer' = [timer EXCEPT ![r] = IF @ = "pending" THEN "stopped" ELSE @]
    /\ pc' = [pc EXCEPT ![r] = "counted"]
    /\ UNCHANGED <<stopFlag, count, ptimer, pat, stopVars, logged, direct>>

(* inc: t.Stop() is true only for the call that stops a pending timer.     *)
IncCancel(r) ==
    /\ pc[r] = "cancel"
    /\ \/ /\ timer[r] = "pending"
          /\ timer' = [timer EXCEPT ![r] = "stopped"]
          /\ pc' = [pc EXCEPT ![r] = "log"]
       \/ /\ timer[r] # "pending"
          /\ pc' = [pc EXCEPT ![r] = "counted"]
          /\ UNCHANGED timer
    /\ UNCHANGED <<stopFlag, count, ptimer, pat, stopVars, logged, direct>>

IncLog(r) ==
    /\ pc[r] = "log"
    /\ logPattern(pat[r])
    /\ pc' = [pc EXCEPT ![r] = "counted"]
    /\ UNCHANGED <<stopFlag, ptimer, timer, pat, stopVars, direct>>

-----------------------------------------------------------------------------
(* The period is over: the runtime starts the callback in a goroutine of   *)
(* its own, from where on Stop() comes too late.                           *)
Fire(r) ==
    /\ timer[r] = "pending"
    /\ timer' = [timer EXCEPT ![r] = "fired"]
    /\ UNCHANGED <<stopFlag, count, ptimer, pc, pat, stopVars, logged, direct>>

(* Mutation of Callback: start the next period instead of logging.         *)
CallbackRearms(r) ==
    /\ timer[r] = "fired"
    /\ timer' = [timer EXCEPT ![r] = "pending"]
    /\ UNCHANGED <<stopFlag, count, ptimer, pc, pat, stopVars, logged, direct>>

Callback(r) ==
    /\ timer[r] = "fired"
    /\ timer' = [timer EXCEPT ![r] = "done"]
    /\ logPattern(pat[r])
    /\ UNCHANGED <<stopFlag, ptimer, pc, pat, stopVars, direct>>

-----------------------------------------------------------------------------
(* stop(): raise the flag, then for every pattern stop the timer that is   *)
(* in ptimer and log.                                                      *)
StopBegin ==
    /\ stopPc = "idle"
    /\ stopFlag' = TRUE
    /\ stopPc' = "load"
    /\ UNCHANGED <<count, ptimer, timer, pc, pat, stopAt, stopTimer, logged, direct>>

(* Mutation of StopLoad: the loop over the patterns runs one too far.      *)
StopLoadOneTooFar ==
    /\ stopPc = "load"
    /\ stopAt' = stopAt + 1
    /\ stopPc' = IF stopAt > NPatterns THEN "done" ELSE "load"
    /\ UNCHANGED <<stopFlag, count, ptimer, timer, pc, pat, stopTimer, logged, direct>>

StopLoad ==
    /\ stopPc = "load"
    /\ \/ /\ stopAt > NPatterns
          /\ stopPc' = "done"
          /\ UNCHANGED <<stopAt, stopTimer>>
       \/ /\ stopAt <= NPatterns
          /\ ptimer[stopAt] = NoTimer
          /\ stopAt' = stopAt + 1
          /\ UNCHANGED <<stopPc, stopTimer>>
       \/ /\ stopAt <= NPatterns
          /\ ptimer[stopAt] # NoTimer
          /\ stopTimer' = ptimer[stopAt]
          /\ stopPc' = "cancel"
          /\ UNCHANGED stopAt
    /\ UNCHANGED <<stopFlag, count, ptimer, timer, pc, pat, logged, direct>>

StopCancel ==
    /\ stopPc = "cancel"
    /\ \/ /\ timer[stopTimer] = "pending"
          /\ timer' = [timer EXCEPT ![stopTimer] = "stopped"]
          /\ stopPc' = "log"
          /\ UNCHANGED stopAt
       \/ /\ timer[stopTimer] # "pending"
          /\ stopPc' = "load"
          /\ stopAt' = stopAt + 1
          /\ UNCHANGED timer
    /\ UNCHANGED <<stopFlag, count, ptimer, pc, pat, stopTimer, logged, direct>>

StopLog ==
    /\ stopPc = "log"
    /\ logPattern(stopAt)
    /\ stopPc' = "load"
    /\ stopAt' = stopAt + 1
    /\ UNCHANGED <<stopFlag, ptimer, timer, pc, pat, stopTimer, direct>>

-----------------------------------------------------------------------------
inc(r) ==
    \/ IncCheckStop(r) \/ IncAdd(r) \/ IncArm(r) \/ IncSetTimer(r)
    \/ IncRecheck(r) \/ IncCancel(r) \/ IncLog(r)

ServeDNS(r) == NextReturned(r) \/ inc(r)

AfterFunc(r) == Fire(r) \/ Callback(r)

stop == StopBegin \/ StopLoad \/ StopCancel \/ StopLog

Next == stop \/ \E r \in Requests : ServeDNS(r) \/ AfterFunc(r)

(* Goroutines that can run do run, and a pending timer fires in the end.   *)
(* Nobody is obliged to shut the server down.                              *)
Fairness ==
    /\ \A r \in Requests : WF_vars(ServeDNS(r)) /\ WF_vars(AfterFunc(r))
    /\ WF_vars(StopLoad \/ StopCancel \/ StopLog)

Spec == Init /\ [][Next]_vars

FairSpec == Spec /\ Fairness

-----------------------------------------------------------------------------
(* Every variable has its type; counts never become negative.              *)
TypeOK ==
    /\ stopFlag \in BOOLEAN
    /\ count \in [Patterns -> Nat]
    /\ ptimer \in [Patterns -> Requests \union {NoTimer}]
    /\ timer \in [Requests -> {"unset", "pending", "fired", "stopped", "done"}]
    /\ pc \in [Requests -> {"next", "inc", "add", "arm", "set", "recheck",
                            "cancel", "log", "counted", "done"}]
    /\ pat \in [Requests -> Patterns \union {0}]
    /\ stopPc \in {"idle", "load", "cancel", "log", "done"}
    /\ stopAt \in 1 .. NPatterns + 1
    /\ stopTimer \in Requests \union {NoTimer}
    /\ logged \in [Patterns -> Nat]
    /\ direct \subseteq Requests

(* Requests whose error went into count[p].                                *)
Counted(p) ==
    {r \in Requests : pat[r] = p /\ pc[r] \in {"arm", "set", "recheck", "cancel", "log", "counted"}}

(* Someone who is still going to log pattern p.                            *)
Reporter(p) ==
    \/ \E r \in Requests : pat[r] = p /\ (pc[r] \in {"arm", "log"} \/ timer[r] \in {"pending", "fired"})
    \/ stopPc = "log" /\ stopAt = p

(* Every error inc accepted is in the pattern's count or in a count that   *)
(* was logged, once: no swap of logPattern, by the timer, by inc or by     *)
(* stop(), loses or repeats one.                                           *)
EveryErrorAccounted == \A p \in Patterns : Cardinality(Counted(p)) = count[p] + logged[p]

(* A count that is not 0 always has someone left to log it: the timer, its *)
(* callback, or the inc or stop() that stopped the timer.                  *)
NoStrandedErrors == \A p \in Patterns : count[p] > 0 => Reporter(p)

(* Consolidated errors are logged in the end, shutdown or not.             *)
CountsGetLogged == \A p \in Patterns : count[p] > 0 ~> count[p] = 0
=============================================================================
