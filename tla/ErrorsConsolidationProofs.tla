--------------------- MODULE ErrorsConsolidationProofs ---------------------
(***************************************************************************)
(* Proofs, for any number of requests and patterns, that the errors plugin *)
(* loses no error it counted and never leaves one without a reporter.      *)
(***************************************************************************)
EXTENDS ErrorsConsolidation, FiniteSetTheorems, TLAPS

(* A request inside inc has a pattern, a timer belongs to a request that   *)
(* went through arm, and what ptimer and stop() hold is a timer of the     *)
(* pattern they hold it for.  StopCancel needs this: the timer it stops is *)
(* one of the pattern it then logs.                                        *)
TimersConsistent ==
    /\ \A r \in Requests : pc[r] \notin {"next", "done"} => pat[r] \in Patterns
    /\ \A r \in Requests : timer[r] # "unset" => pc[r] \in {"set", "recheck", "cancel", "log", "counted"}
    /\ \A r \in Requests : pc[r] \in {"set", "recheck", "cancel", "log"} => timer[r] # "unset"
    /\ \A p \in Patterns : ptimer[p] # NoTimer => pat[ptimer[p]] = p /\ timer[ptimer[p]] # "unset"
    /\ stopPc \in {"cancel", "log"} => /\ stopAt \in Patterns
                                       /\ stopTimer \in Requests
                                       /\ pat[stopTimer] = stopAt
                                       /\ timer[stopTimer] # "unset"

IndInv == TypeOK /\ TimersConsistent /\ NoStrandedErrors /\ EveryErrorAccounted

(* The sets Counted(p) are finite.                                         *)
LEMMA CountedFinite == \A p \in Patterns : IsFiniteSet(Counted(p))
  BY RequestsAssumption, FS_Subset DEF Counted

-----------------------------------------------------------------------------
(* Every variable keeps its type.                                          *)
LEMMA TypeStep == TypeOK /\ TimersConsistent /\ [Next]_vars => TypeOK'
<1> SUFFICES ASSUME TypeOK, TimersConsistent, [Next]_vars PROVE TypeOK'
  OBVIOUS
<1> USE DEF TypeOK
<1>1. ASSUME NEW r \in Requests, NextReturned(r) PROVE TypeOK'
  BY <1>1 DEF NextReturned, stopVars
<1>2. ASSUME NEW r \in Requests, IncCheckStop(r) PROVE TypeOK'
  BY <1>2 DEF IncCheckStop, stopVars
<1>3. ASSUME NEW r \in Requests, IncAdd(r) PROVE TypeOK'
  BY <1>3 DEF IncAdd, stopVars, TimersConsistent
<1>4. ASSUME NEW r \in Requests, IncArm(r) PROVE TypeOK'
  BY <1>4 DEF IncArm, stopVars
<1>5. ASSUME NEW r \in Requests, IncSetTimer(r) PROVE TypeOK'
  BY <1>5 DEF IncSetTimer, stopVars, TimersConsistent
<1>6. ASSUME NEW r \in Requests, IncRecheck(r) PROVE TypeOK'
  BY <1>6 DEF IncRecheck, stopVars
<1>7. ASSUME NEW r \in Requests, IncCancel(r) PROVE TypeOK'
  BY <1>7 DEF IncCancel, stopVars
<1>8. ASSUME NEW r \in Requests, IncLog(r) PROVE TypeOK'
  BY <1>8 DEF IncLog, logPattern, stopVars, TimersConsistent
<1>9. ASSUME NEW r \in Requests, Fire(r) PROVE TypeOK'
  BY <1>9 DEF Fire, stopVars
<1>10. ASSUME NEW r \in Requests, Callback(r) PROVE TypeOK'
  BY <1>10 DEF Callback, logPattern, stopVars, TimersConsistent
<1>11. CASE StopBegin
  BY <1>11 DEF StopBegin
<1>12. CASE StopLoad
  <2>1. stopAt' \in 1 .. NPatterns + 1
    BY <1>12, NPatternsAssumption DEF StopLoad
  <2>2. stopTimer' \in Requests \union {NoTimer}
    BY <1>12 DEF StopLoad, Patterns
  <2> QED
    BY <1>12, <2>1, <2>2 DEF StopLoad
<1>13. CASE StopCancel
  <2>1. stopAt' \in 1 .. NPatterns + 1
    BY <1>13, NPatternsAssumption DEF StopCancel, TimersConsistent, Patterns
  <2> QED
    BY <1>13, <2>1 DEF StopCancel
<1>14. CASE StopLog
  BY <1>14, NPatternsAssumption DEF StopLog, logPattern, TimersConsistent, Patterns
<1>15. CASE UNCHANGED vars
  BY <1>15 DEF vars
<1> QED
  BY <1>1, <1>2, <1>3, <1>4, <1>5, <1>6, <1>7, <1>8, <1>9, <1>10, <1>11, <1>12, <1>13, <1>14, <1>15 DEF Next, ServeDNS, inc, AfterFunc, stop

(* Timers stay with the pattern they were armed for.                       *)
LEMMA TimersStep == TypeOK /\ TimersConsistent /\ [Next]_vars => TimersConsistent'
<1> SUFFICES ASSUME TypeOK, TimersConsistent, [Next]_vars PROVE TimersConsistent'
  OBVIOUS
<1> USE RequestsAssumption DEF TypeOK, TimersConsistent
<1>1. ASSUME NEW r \in Requests, NextReturned(r) PROVE TimersConsistent'
  BY <1>1 DEF NextReturned, stopVars
<1>2. ASSUME NEW r \in Requests, IncCheckStop(r) PROVE TimersConsistent'
  BY <1>2 DEF IncCheckStop, stopVars
<1>3. ASSUME NEW r \in Requests, IncAdd(r) PROVE TimersConsistent'
  BY <1>3 DEF IncAdd, stopVars
<1>4. ASSUME NEW r \in Requests, IncArm(r) PROVE TimersConsistent'
  BY <1>4 DEF IncArm, stopVars
<1>5. ASSUME NEW r \in Requests, IncSetTimer(r) PROVE TimersConsistent'
  <2>1. pat[r] \in Patterns /\ timer[r] # "unset"
    BY <1>5 DEF IncSetTimer
  <2> QED
    BY <1>5, <2>1 DEF IncSetTimer, stopVars
<1>6. ASSUME NEW r \in Requests, IncRecheck(r) PROVE TimersConsistent'
  BY <1>6 DEF IncRecheck, stopVars
<1>7. ASSUME NEW r \in Requests, IncCancel(r) PROVE TimersConsistent'
  BY <1>7 DEF IncCancel, stopVars
<1>8. ASSUME NEW r \in Requests, IncLog(r) PROVE TimersConsistent'
  BY <1>8 DEF IncLog, logPattern, stopVars
<1>9. ASSUME NEW r \in Requests, Fire(r) PROVE TimersConsistent'
  BY <1>9 DEF Fire, stopVars
<1>10. ASSUME NEW r \in Requests, Callback(r) PROVE TimersConsistent'
  BY <1>10 DEF Callback, logPattern, stopVars
<1>11. CASE StopBegin
  BY <1>11 DEF StopBegin
<1>12. CASE StopLoad
  BY <1>12, NPatternsAssumption DEF StopLoad, Patterns
<1>13. CASE StopCancel
  BY <1>13, NPatternsAssumption DEF StopCancel, Patterns
<1>14. CASE StopLog
  BY <1>14, NPatternsAssumption DEF StopLog, logPattern, Patterns
<1>15. CASE UNCHANGED vars
  BY <1>15 DEF vars
<1> QED
  BY <1>1, <1>2, <1>3, <1>4, <1>5, <1>6, <1>7, <1>8, <1>9, <1>10, <1>11, <1>12, <1>13, <1>14, <1>15 DEF Next, ServeDNS, inc, AfterFunc, stop

(* A count that is not 0 keeps its reporter: it is created with one, and a *)
(* reporter leaves only by handing over to the next or by clearing the     *)
(* count.                                                                  *)
LEMMA StrandedStep ==
    TypeOK /\ TimersConsistent /\ NoStrandedErrors /\ [Next]_vars => NoStrandedErrors'
<1> SUFFICES ASSUME TypeOK, TimersConsistent, NoStrandedErrors, [Next]_vars PROVE NoStrandedErrors'
  OBVIOUS
<1> USE RequestsAssumption DEF TypeOK, TimersConsistent, NoStrandedErrors, Reporter
<1>1. ASSUME NEW r \in Requests, NextReturned(r) PROVE NoStrandedErrors'
  BY <1>1 DEF NextReturned, stopVars
<1>2. ASSUME NEW r \in Requests, IncCheckStop(r) PROVE NoStrandedErrors'
  BY <1>2 DEF IncCheckStop, stopVars
<1>3. ASSUME NEW r \in Requests, IncAdd(r) PROVE NoStrandedErrors'
  BY <1>3 DEF IncAdd, stopVars
<1>4. ASSUME NEW r \in Requests, IncArm(r) PROVE NoStrandedErrors'
  BY <1>4 DEF IncArm, stopVars
<1>5. ASSUME NEW r \in Requests, IncSetTimer(r) PROVE NoStrandedErrors'
  BY <1>5 DEF IncSetTimer, stopVars
<1>6. ASSUME NEW r \in Requests, IncRecheck(r) PROVE NoStrandedErrors'
  BY <1>6 DEF IncRecheck, stopVars
<1>7. ASSUME NEW r \in Requests, IncCancel(r) PROVE NoStrandedErrors'
  BY <1>7 DEF IncCancel, stopVars
<1>8. ASSUME NEW r \in Requests, IncLog(r) PROVE NoStrandedErrors'
  BY <1>8 DEF IncLog, logPattern, stopVars
<1>9. ASSUME NEW r \in Requests, Fire(r) PROVE NoStrandedErrors'
  BY <1>9 DEF Fire, stopVars
<1>10. ASSUME NEW r \in Requests, Callback(r) PROVE NoStrandedErrors'
  BY <1>10 DEF Callback, logPattern, stopVars
<1>11. CASE StopBegin
  BY <1>11 DEF StopBegin
<1>12. CASE StopLoad
  BY <1>12, NPatternsAssumption DEF StopLoad, Patterns
<1>13. CASE StopCancel
  BY <1>13, NPatternsAssumption DEF StopCancel, Patterns
<1>14. CASE StopLog
  BY <1>14, NPatternsAssumption DEF StopLog, logPattern, Patterns
<1>15. CASE UNCHANGED vars
  BY <1>15 DEF vars
<1> QED
  BY <1>1, <1>2, <1>3, <1>4, <1>5, <1>6, <1>7, <1>8, <1>9, <1>10, <1>11, <1>12, <1>13, <1>14, <1>15 DEF Next, ServeDNS, inc, AfterFunc, stop

(* Accounting.  Only IncAdd adds to Counted(p), one request at a time, and *)
(* it adds one to the count; logPattern moves the count to logged.         *)
LEMMA AccountedStep ==
    TypeOK /\ TimersConsistent /\ EveryErrorAccounted /\ [Next]_vars => EveryErrorAccounted'
<1> SUFFICES ASSUME TypeOK, TimersConsistent, EveryErrorAccounted, [Next]_vars,
                    NEW p \in Patterns
             PROVE  Cardinality(Counted(p))' = count'[p] + logged'[p]
  BY DEF EveryErrorAccounted
<1> USE DEF TypeOK
<1>a. Cardinality(Counted(p)) = count[p] + logged[p]
  BY DEF EveryErrorAccounted
<1>b. ASSUME Counted(p)' = Counted(p), count'[p] + logged'[p] = count[p] + logged[p]
      PROVE  Cardinality(Counted(p))' = count'[p] + logged'[p]
  BY <1>a, <1>b
<1>1. ASSUME NEW r \in Requests, NextReturned(r) PROVE Cardinality(Counted(p))' = count'[p] + logged'[p]
  BY <1>1, <1>b DEF NextReturned, stopVars, Counted
<1>2. ASSUME NEW r \in Requests, IncCheckStop(r) PROVE Cardinality(Counted(p))' = count'[p] + logged'[p]
  BY <1>2, <1>b DEF IncCheckStop, stopVars, Counted
<1>3. ASSUME NEW r \in Requests, IncAdd(r) PROVE Cardinality(Counted(p))' = count'[p] + logged'[p]
  <2>1. CASE pat[r] # p
    <3>1. Counted(p)' = Counted(p)
      BY <1>3, <2>1 DEF IncAdd, Counted
    <3> QED
      BY <1>3, <2>1, <3>1, <1>b DEF IncAdd
  <2>2. CASE pat[r] = p
    <3>1. Counted(p)' = Counted(p) \union {r} /\ r \notin Counted(p)
      BY <1>3, <2>2 DEF IncAdd, Counted
    <3>2. Cardinality(Counted(p))' = Cardinality(Counted(p)) + 1
      BY <3>1, CountedFinite, FS_AddElement
    <3>3. count'[p] = count[p] + 1 /\ logged'[p] = logged[p]
      BY <1>3, <2>2 DEF IncAdd
    <3> QED
      BY <3>2, <3>3, <1>a
  <2> QED
    BY <2>1, <2>2
<1>4. ASSUME NEW r \in Requests, IncArm(r) PROVE Cardinality(Counted(p))' = count'[p] + logged'[p]
  BY <1>4, <1>b DEF IncArm, stopVars, Counted
<1>5. ASSUME NEW r \in Requests, IncSetTimer(r) PROVE Cardinality(Counted(p))' = count'[p] + logged'[p]
  BY <1>5, <1>b DEF IncSetTimer, stopVars, Counted
<1>6. ASSUME NEW r \in Requests, IncRecheck(r) PROVE Cardinality(Counted(p))' = count'[p] + logged'[p]
  BY <1>6, <1>b DEF IncRecheck, stopVars, Counted
<1>7. ASSUME NEW r \in Requests, IncCancel(r) PROVE Cardinality(Counted(p))' = count'[p] + logged'[p]
  BY <1>7, <1>b DEF IncCancel, stopVars, Counted
<1>8. ASSUME NEW r \in Requests, IncLog(r) PROVE Cardinality(Counted(p))' = count'[p] + logged'[p]
  <2>1. Counted(p)' = Counted(p)
    BY <1>8 DEF IncLog, logPattern, stopVars, Counted
  <2>2. pat[r] \in Patterns
    BY <1>8 DEF IncLog, TimersConsistent
  <2>3. count'[p] + logged'[p] = count[p] + logged[p]
    BY <1>8, <2>2 DEF IncLog, logPattern
  <2> QED
    BY <2>1, <2>3, <1>b
<1>9. ASSUME NEW r \in Requests, Fire(r) PROVE Cardinality(Counted(p))' = count'[p] + logged'[p]
  BY <1>9, <1>b DEF Fire, stopVars, Counted
<1>10. ASSUME NEW r \in Requests, Callback(r) PROVE Cardinality(Counted(p))' = count'[p] + logged'[p]
  <2>1. Counted(p)' = Counted(p)
    BY <1>10 DEF Callback, logPattern, stopVars, Counted
  <2>2. pat[r] \in Patterns
    BY <1>10 DEF Callback, TimersConsistent
  <2>3. count'[p] + logged'[p] = count[p] + logged[p]
    BY <1>10, <2>2 DEF Callback, logPattern
  <2> QED
    BY <2>1, <2>3, <1>b
<1>11. CASE StopBegin
  BY <1>11, <1>b DEF StopBegin, Counted
<1>12. CASE StopLoad
  BY <1>12, <1>b DEF StopLoad, Counted
<1>13. CASE StopCancel
  BY <1>13, <1>b DEF StopCancel, Counted
<1>14. CASE StopLog
  <2>1. Counted(p)' = Counted(p)
    BY <1>14 DEF StopLog, logPattern, Counted
  <2>2. stopAt \in Patterns
    BY <1>14 DEF StopLog, TimersConsistent
  <2>3. count'[p] + logged'[p] = count[p] + logged[p]
    BY <1>14, <2>2 DEF StopLog, logPattern
  <2> QED
    BY <2>1, <2>3, <1>b
<1>15. CASE UNCHANGED vars
  BY <1>15, <1>b DEF vars, Counted
<1> QED
  BY <1>1, <1>2, <1>3, <1>4, <1>5, <1>6, <1>7, <1>8, <1>9, <1>10, <1>11, <1>12, <1>13, <1>14, <1>15 DEF Next, ServeDNS, inc, AfterFunc, stop

-----------------------------------------------------------------------------
LEMMA InitInv == Init => IndInv
<1> SUFFICES ASSUME Init PROVE IndInv
  OBVIOUS
<1>0. stopAt \in 1 .. NPatterns + 1
  BY NPatternsAssumption DEF Init
<1>1. TypeOK
  BY <1>0 DEF Init, TypeOK
<1>2. TimersConsistent /\ NoStrandedErrors
  BY <1>1, RequestsAssumption DEF Init, TimersConsistent, NoStrandedErrors
<1>3. \A p \in Patterns : Counted(p) = {}
  BY DEF Init, Counted
<1>4. EveryErrorAccounted
  BY <1>3, FS_EmptySet DEF Init, EveryErrorAccounted
<1> QED
  BY <1>1, <1>2, <1>4 DEF IndInv

LEMMA StepInv == IndInv /\ [Next]_vars => IndInv'
  BY TypeStep, TimersStep, StrandedStep, AccountedStep DEF IndInv

(* The inductive invariant holds in every reachable state.                 *)
THEOREM Invariance == Spec => []IndInv
  BY InitInv, StepInv, PTL DEF Spec

(* The state of the errors plugin keeps its types.                         *)
THEOREM TypeCorrect == Spec => []TypeOK
<1>1. IndInv => TypeOK
  BY DEF IndInv
<1> QED
  BY <1>1, Invariance, PTL

(* For any number of requests and patterns, no error that inc accepted is  *)
(* lost or reported twice by the swaps of logPattern.                      *)
THEOREM ErrorsAccounted == Spec => []EveryErrorAccounted
<1>1. IndInv => EveryErrorAccounted
  BY DEF IndInv
<1> QED
  BY <1>1, Invariance, PTL

(* For any number of requests and patterns, a count that is not 0 has      *)
(* someone left to log it, however inc, the timers and stop() interleave.  *)
THEOREM ErrorsNotStranded == Spec => []NoStrandedErrors
<1>1. IndInv => NoStrandedErrors
  BY DEF IndInv
<1> QED
  BY <1>1, Invariance, PTL
=============================================================================
