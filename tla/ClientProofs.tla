---------------------------- MODULE ClientProofs ----------------------------
(***************************************************************************)
(* Proofs about the client lifecycle, for any number of callers, any       *)
(* ticket range and any queue that holds three commands.                   *)
(***************************************************************************)
EXTENDS Client, SequenceTheorems, TLAPS

\* Milliseconds between half of the first ceiling and the last one.
DelayRange == 500..30000

\* backoff(): every delay is at least half of its ceiling and at most the
\* ceiling, and so between 500 ms and 30 s, whatever the random number is.
LEMMA DelayBounds ==
    ASSUME NEW streak \in 0..5, NEW random \in Nat
    PROVE  Delay(Ceiling(streak), random) \in DelayRange
<1> DEFINE c == Ceiling(streak)
           d == c \div 2
           m == random % (d + 1)
<1>1. c \in {1000, 2000, 4000, 8000, 16000, 30000}
  BY DEF Ceiling, Ladder
<1> HIDE DEF c
<1>2. d \in 500..15000
  BY <1>1
<1> HIDE DEF d
<1>3. m \in 0..d
  BY <1>2
<1> HIDE DEF m
<1>4. d + m \in DelayRange
  BY <1>2, <1>3 DEF DelayRange
<1>5. Delay(Ceiling(streak), random) = d + m
  BY Zenon DEF Delay, c, d, m
<1> QED
  BY <1>4, <1>5

-----------------------------------------------------------------------------
\* SessionTypeOK needs the cumulative Pong count to stay within its model bound.
PongBound == pong_total + spongs <= MaxPongs
TypeInv == TypeOK /\ PongBound

\* A delay of backoff() is a delay of the type invariant.
LEMMA DelayFits == ASSUME NEW d \in DelayRange PROVE d \in RetryDelays
  BY DEF DelayRange, RetryDelays

\* No delay is a delay, too: phases other than BACKOFF clear the field.
LEMMA ZeroDelay == 0 \in RetryDelays
  BY DEF RetryDelays

\* create_client leaves every field in its type.
LEMMA TypeInit == Init => TypeInv
<1> SUFFICES ASSUME Init PROVE TypeInv
  OBVIOUS
<1>0. FlagsTypeOK
  BY DEF Init, FlagsTypeOK
<1>1. PortTypeOK
  BY TicketAssumption DEF Init, PortTypeOK
<1>2. ApiTypeOK
  BY TicketAssumption DEF Init, ApiTypeOK
<1>3. CallTypeOK
  BY DEF Init, CallTypeOK
<1>4. RunTypeOK
  BY TicketAssumption DEF Init, RunTypeOK, Phases, Results
<1>5. RetryTypeOK
  BY ZeroDelay DEF Init, RetryTypeOK
<1>6. SessionTypeOK /\ PongBound
  BY PongsAssumption
  DEF Init, SessionTypeOK, PongBound, NoResources, ResourceStates, SessionPhases
<1> QED
  BY <1>0, <1>1, <1>2, <1>3, <1>4, <1>5, <1>6 DEF TypeInv, TypeOK

\* A part of the state that a step leaves alone keeps its type.
LEMMA FlagsFrame ==
    FlagsTypeOK /\ UNCHANGED <<alive, signal, requested, callback, running, retryable>>
      => FlagsTypeOK'
  BY DEF FlagsTypeOK
\* The same for the queue and the confirmed ticket.
LEMMA PortFrame ==
    PortTypeOK /\ UNCHANGED <<config, queue, completed_ticket>> => PortTypeOK'
  BY DEF PortTypeOK
\* The same for the fields under the API lock.
LEMMA ApiFrame == ApiTypeOK /\ UNCHANGED <<api, next_ticket, stop_ticket>> => ApiTypeOK'
  BY DEF ApiTypeOK
\* The same for the callers' locals.
LEMMA CallFrame == CallTypeOK /\ UNCHANGED callVars => CallTypeOK'
  BY DEF CallTypeOK, callVars
\* The same for the worker's position and status.
LEMMA RunFrame == RunTypeOK /\ UNCHANGED <<pc, phase, error, worker_stop_ticket>> => RunTypeOK'
  BY DEF RunTypeOK
\* The same for the retry schedule.
LEMMA RetryFrame == RetryTypeOK /\ UNCHANGED retryVars => RetryTypeOK'
  BY DEF RetryTypeOK, retryVars
\* The same for the owned objects and the session's counters.
LEMMA SessionFrame ==
    SessionTypeOK /\ PongBound /\ UNCHANGED <<res, sessionVars>> => SessionTypeOK' /\ PongBound'
  BY DEF SessionTypeOK, PongBound, sessionVars

\* A retry schedule written field by field has its type.
LEMMA RetryIntro ==
    ASSUME retry_at' \in {"zero", "future", "due"}, retry_delay' \in RetryDelays,
           ready_at' \in {"zero", "recent", "ready60", "drained60"}, failure_streak' \in 0..5
    PROVE  RetryTypeOK'
  BY DEF RetryTypeOK

\* Every step keeps every variable in its type.
LEMMA TypeStep == TypeInv /\ [Next]_vars => TypeInv'
<1> SUFFICES ASSUME FlagsTypeOK, PortTypeOK, ApiTypeOK, CallTypeOK, RunTypeOK, RetryTypeOK,
                    SessionTypeOK, PongBound, [Next]_vars
             PROVE  TypeInv'
  BY DEF TypeInv, TypeOK
<1> USE DEF outside, portVars, apiVars, callVars, retryVars, runVars, sessionVars,
            statusVars, workerVars
<1>1. ASSUME NEW p \in Callers, efrp_start(p) PROVE TypeInv'
  <2>1. FlagsTypeOK'
    BY <1>1 DEF efrp_start, FlagsTypeOK
  <2>2. PortTypeOK'
    BY <1>1, TicketAssumption DEF efrp_start, PortTypeOK, START, Commands
  <2> QED
    BY <1>1, <2>1, <2>2, ApiFrame, CallFrame, RunFrame, RetryFrame, SessionFrame
    DEF efrp_start, TypeInv, TypeOK
<1>2. ASSUME NEW p \in Callers, NEW o \in {"stop", "destroy"}, NEW zero \in BOOLEAN,
             StopEnter(p, o, zero)
      PROVE  TypeInv'
  <2>1. FlagsTypeOK'
    BY <1>2 DEF StopEnter, FlagsTypeOK, NeedsStop
  <2>2. PortTypeOK'
    <3>1. next_ticket # TicketMax => STOP(next_ticket + 1) \in Commands
      BY TicketAssumption DEF ApiTypeOK, STOP, Commands
    <3>2. PICK c : \/ queue' = queue
                   \/ c \in Commands /\ queue' = Append(queue, c)
      BY <1>2, <3>1 DEF StopEnter, NeedsStop
    <3>3. queue' \in Seq(Commands)
      BY <3>2 DEF PortTypeOK
    <3>4. UNCHANGED <<config, completed_ticket>>
      BY <1>2 DEF StopEnter
    <3> QED
      BY <3>3, <3>4 DEF PortTypeOK
  <2>3. ApiTypeOK'
    BY <1>2, TicketAssumption DEF StopEnter, ApiTypeOK, NeedsStop
  <2>4. CallTypeOK'
    BY <1>2 DEF StopEnter, CallTypeOK, NeedsStop
  <2> QED
    BY <1>2, <2>1, <2>2, <2>3, <2>4, RunFrame, RetryFrame, SessionFrame
    DEF StopEnter, TypeInv, TypeOK
<1>3. ASSUME NEW p \in Callers, StopExhausted(p) PROVE TypeInv'
  <2> QED
    BY <1>3, FlagsFrame, PortFrame, ApiFrame, CallFrame, RunFrame, RetryFrame,
       SessionFrame
    DEF StopExhausted, TypeInv, TypeOK, vars
<1>4. ASSUME NEW p \in Callers, StopCheck(p) PROVE TypeInv'
  <2>1. ApiTypeOK'
    BY <1>4, TicketAssumption DEF StopCheck, ApiTypeOK, Return
  <2>2. CallTypeOK'
    BY <1>4 DEF StopCheck, CallTypeOK, Return, Finish
  <2> QED
    BY <1>4, <2>1, <2>2, FlagsFrame, PortFrame, RunFrame, RetryFrame, SessionFrame
    DEF StopCheck, TypeInv, TypeOK
<1>5. ASSUME NEW p \in Callers, StopWait(p) PROVE TypeInv'
  <2>1. FlagsTypeOK'
    BY <1>5 DEF StopWait, FlagsTypeOK
  <2>2. CallTypeOK'
    BY <1>5 DEF StopWait, CallTypeOK
  <2> QED
    BY <1>5, <2>1, <2>2, PortFrame, ApiFrame, RunFrame, RetryFrame, SessionFrame
    DEF StopWait, TypeInv, TypeOK
<1>6. ASSUME NEW p \in Callers, Expire(p) PROVE TypeInv'
  <2>1. CallTypeOK'
    BY <1>6 DEF Expire, CallTypeOK
  <2> QED
    BY <1>6, <2>1, FlagsFrame, PortFrame, ApiFrame, RunFrame, RetryFrame, SessionFrame
    DEF Expire, TypeInv, TypeOK
<1>7. ASSUME NEW p \in Callers, DestroyExit(p) PROVE TypeInv'
  <2>1. PortTypeOK'
    BY <1>7, TicketAssumption DEF DestroyExit, PortTypeOK, EXIT, Commands
  <2>2. ApiTypeOK'
    BY <1>7, TicketAssumption DEF DestroyExit, ApiTypeOK
  <2>3. CallTypeOK'
    BY <1>7 DEF DestroyExit, CallTypeOK
  <2> QED
    BY <1>7, <2>1, <2>2, <2>3, FlagsFrame, RunFrame, RetryFrame, SessionFrame
    DEF DestroyExit, TypeInv, TypeOK
<1>8. ASSUME NEW p \in Callers, DestroyJoin(p) PROVE TypeInv'
  <2>1. FlagsTypeOK'
    BY <1>8 DEF DestroyJoin, FlagsTypeOK
  <2>2. CallTypeOK'
    BY <1>8 DEF DestroyJoin, CallTypeOK, Finish
  <2> QED
    BY <1>8, <2>1, <2>2, PortFrame, ApiFrame, RunFrame, RetryFrame, SessionFrame
    DEF DestroyJoin, TypeInv, TypeOK
<1>9. CASE Destroyed
  <2> QED
    BY <1>9, FlagsFrame, PortFrame, ApiFrame, CallFrame, RunFrame, RetryFrame,
       SessionFrame
    DEF Destroyed, TypeInv, TypeOK, vars
<1>10. CASE CallbackReturns
  <2>1. FlagsTypeOK'
    BY <1>10 DEF CallbackReturns, FlagsTypeOK
  <2> QED
    BY <1>10, <2>1, PortFrame, ApiFrame, CallFrame, RunFrame, RetryFrame, SessionFrame
    DEF CallbackReturns, TypeInv, TypeOK
<1>11. CASE ReceiveTimeout
  <2>1. RunTypeOK'
    BY <1>11 DEF ReceiveTimeout, RunTypeOK, Phases, Results
  <2> QED
    BY <1>11, <2>1, FlagsFrame, PortFrame, ApiFrame, CallFrame, RetryFrame, SessionFrame
    DEF ReceiveTimeout, TypeInv, TypeOK
<1>12. CASE ReceiveStart
  <2>1. FlagsTypeOK'
    BY <1>12 DEF ReceiveStart, FlagsTypeOK, Begin, SetPhase
  <2>2. PortTypeOK'
    BY <1>12, TicketAssumption DEF ReceiveStart, PortTypeOK
  <2>3. RunTypeOK'
    BY <1>12 DEF ReceiveStart, RunTypeOK, Phases, Results, Begin, SetPhase
  <2>4. RetryTypeOK'
    <3>1. /\ retry_at' = "zero" /\ retry_delay' = 0 /\ ready_at' = "zero"
          /\ failure_streak' = 0
      BY <1>12 DEF ReceiveStart, Begin
    <3> QED
      BY <3>1, ZeroDelay DEF RetryTypeOK
  <2> QED
    BY <1>12, <2>1, <2>2, <2>3, <2>4, ApiFrame, CallFrame, SessionFrame
    DEF ReceiveStart, TypeInv, TypeOK
<1>13. CASE ReceiveStop
  <2>1. FlagsTypeOK'
    BY <1>13 DEF ReceiveStop, FlagsTypeOK, SetPhase, Drain, Retryable
  <2>2. PortTypeOK'
    BY <1>13, TicketAssumption DEF ReceiveStop, PortTypeOK
  <2>3. RunTypeOK'
    <3>1. Head(queue) \in Commands
      BY <1>13 DEF ReceiveStop, PortTypeOK
    <3>2. Head(queue).ticket \in 0..TicketMax
      BY <3>1 DEF Commands
    <3> QED
      BY <1>13, <3>2 DEF ReceiveStop, RunTypeOK, Drain, SetPhase, Phases, Results
  <2>4. RetryTypeOK'
    <3>1. retry_at' = "zero" /\ retry_delay' = 0 /\ UNCHANGED <<ready_at, failure_streak>>
      BY <1>13 DEF ReceiveStop, Drain
    <3> QED
      BY <3>1, ZeroDelay DEF RetryTypeOK
  <2>5. SessionTypeOK' /\ PongBound'
    BY <1>13, PongsAssumption
    DEF ReceiveStop, SessionTypeOK, PongBound, ResourceStates, SessionPhases, Drain,
        SetPhase, CancelAll, Cumulative
  <2> QED
    BY <1>13, <2>1, <2>2, <2>3, <2>4, <2>5, ApiFrame, CallFrame
    DEF ReceiveStop, TypeInv, TypeOK
<1>14. CASE ReceiveExit
  <2>1. PortTypeOK'
    BY <1>14, TicketAssumption DEF ReceiveExit, PortTypeOK
  <2>2. RunTypeOK'
    BY <1>14 DEF ReceiveExit, RunTypeOK, Phases, Results
  <2> QED
    BY <1>14, <2>1, <2>2, FlagsFrame, ApiFrame, CallFrame, RetryFrame, SessionFrame
    DEF ReceiveExit, TypeInv, TypeOK
<1>15. CASE BeginOpens
  <2>1. RunTypeOK'
    BY <1>15 DEF BeginOpens, RunTypeOK, Phases, Results, AfterBegin
  <2>2. SessionTypeOK' /\ PongBound'
    BY <1>15, PongsAssumption
    DEF BeginOpens, SessionTypeOK, PongBound, ResourceStates, SessionPhases
  <2> QED
    BY <1>15, <2>1, <2>2, FlagsFrame, PortFrame, ApiFrame, CallFrame, RetryFrame
    DEF BeginOpens, TypeInv, TypeOK
<1>16. CASE BeginFails
  <2>1. FlagsTypeOK'
    BY <1>16 DEF BeginFails, FlagsTypeOK, SetPhase, Drain, Retryable
  <2>2. RunTypeOK'
    BY <1>16 DEF BeginFails, RunTypeOK, Phases, Results, SetPhase, Drain, AfterBegin, Errors
  <2>3. RetryTypeOK'
    <3>1. retry_at' = "zero" /\ retry_delay' = 0 /\ UNCHANGED <<ready_at, failure_streak>>
      BY <1>16 DEF BeginFails, Drain
    <3> QED
      BY <3>1, ZeroDelay DEF RetryTypeOK
  <2>4. SessionTypeOK' /\ PongBound'
    BY <1>16, PongsAssumption
    DEF BeginFails, SessionTypeOK, PongBound, ResourceStates, SessionPhases, Drain,
        SetPhase, CancelAll, Cumulative
  <2> QED
    BY <1>16, <2>1, <2>2, <2>3, <2>4, PortFrame, ApiFrame, CallFrame
    DEF BeginFails, TypeInv, TypeOK
<1>17. ASSUME NEW r \in Resources, ResourceDrains(r) PROVE TypeInv'
  <2>1. SessionTypeOK' /\ PongBound'
    BY <1>17, PongsAssumption
    DEF ResourceDrains, SessionTypeOK, PongBound, ResourceStates, SessionPhases
  <2> QED
    BY <1>17, <2>1, FlagsFrame, PortFrame, ApiFrame, CallFrame, RunFrame, RetryFrame
    DEF ResourceDrains, TypeInv, TypeOK
<1>18. CASE StepDrainBlocked
  <2>1. RunTypeOK'
    BY <1>18 DEF StepDrainBlocked, RunTypeOK, Phases, Results, SetPhase
  <2>2. SessionTypeOK' /\ PongBound'
    BY <1>18, PongsAssumption
    DEF StepDrainBlocked, SessionTypeOK, PongBound, ResourceStates, SessionPhases,
        Cleanup
  <2> QED
    BY <1>18, <2>1, <2>2, FlagsFrame, PortFrame, ApiFrame, CallFrame, RetryFrame
    DEF StepDrainBlocked, TypeInv, TypeOK
<1>19. CASE StepStopped
  <2>1. FlagsTypeOK'
    BY <1>19 DEF StepStopped, FlagsTypeOK, SetPhase
  <2>2. RunTypeOK'
    BY <1>19 DEF StepStopped, RunTypeOK, Phases, Results, SetPhase
  <2>3. SessionTypeOK' /\ PongBound'
    BY <1>19, PongsAssumption
    DEF StepStopped, SessionTypeOK, PongBound, ResourceStates, SessionPhases, Cleanup
  <2> QED
    BY <1>19, <2>1, <2>2, <2>3, PortFrame, ApiFrame, CallFrame, RetryFrame
    DEF StepStopped, TypeInv, TypeOK
<1>20. CASE StopCompletes
  <2>1. PortTypeOK'
    BY <1>20 DEF StopCompletes, PortTypeOK, RunTypeOK
  <2>2. RunTypeOK'
    BY <1>20 DEF StopCompletes, RunTypeOK, Phases, Results
  <2> QED
    BY <1>20, <2>1, <2>2, FlagsFrame, ApiFrame, CallFrame, RetryFrame, SessionFrame
    DEF StopCompletes, TypeInv, TypeOK
<1>21. CASE StopSignals
  <2>1. FlagsTypeOK'
    BY <1>21 DEF StopSignals, FlagsTypeOK
  <2>2. RunTypeOK'
    BY <1>21 DEF StopSignals, RunTypeOK, Phases, Results
  <2> QED
    BY <1>21, <2>1, <2>2, PortFrame, ApiFrame, CallFrame, RetryFrame, SessionFrame
    DEF StopSignals, TypeInv, TypeOK
<1>22. CASE StepBackoffScheduled
  <2>1. FlagsTypeOK'
    BY <1>22 DEF StepBackoffScheduled, FlagsTypeOK, SetPhase
  <2>2. RunTypeOK'
    BY <1>22 DEF StepBackoffScheduled, RunTypeOK, Phases, Results, SetPhase
  <2>3. RetryTypeOK'
    <3>1. Streak \in 0..5 /\ NextStreak \in 0..5
      BY DEF Streak, NextStreak, RetryTypeOK
    <3>2. PICK s \in 0..5 : s = Streak
      BY <3>1
    <3>3. PICK random \in Randoms : retry_delay' = Delay(Ceiling(s), random)
      BY <1>22, <3>2 DEF StepBackoffScheduled, Delay, Ceiling
    <3>4. Delay(Ceiling(s), random) \in DelayRange
      BY <3>2, RandomsAssumption, DelayBounds
    <3>5. retry_delay' \in DelayRange
      BY <3>3, <3>4
    <3>6. retry_delay' \in RetryDelays
      BY <3>5, DelayFits
    <3>7. failure_streak' \in 0..5
      BY <1>22, <3>1 DEF StepBackoffScheduled
    <3>8. retry_at' \in {"zero", "future", "due"}
      BY <1>22 DEF StepBackoffScheduled
    <3>9. ready_at' = ready_at
      BY <1>22 DEF StepBackoffScheduled
    <3>10. ready_at' \in {"zero", "recent", "ready60", "drained60"}
      BY <3>9 DEF RetryTypeOK
    <3> QED
      BY <3>6, <3>7, <3>8, <3>10, RetryIntro
  <2>4. SessionTypeOK' /\ PongBound'
    BY <1>22, PongsAssumption
    DEF StepBackoffScheduled, SessionTypeOK, PongBound, ResourceStates, SessionPhases,
        Cleanup
  <2> QED
    BY <1>22, <2>1, <2>2, <2>3, <2>4, PortFrame, ApiFrame, CallFrame
    DEF StepBackoffScheduled, TypeInv, TypeOK
<1>23. CASE StepBackoffRandomFails
  <2>1. FlagsTypeOK'
    BY <1>23 DEF StepBackoffRandomFails, FlagsTypeOK, SetPhase
  <2>2. RunTypeOK'
    BY <1>23 DEF StepBackoffRandomFails, RunTypeOK, Phases, Results, SetPhase
  <2>3. RetryTypeOK'
    <3>1. NextStreak \in 0..5
      BY DEF Streak, NextStreak, RetryTypeOK
    <3>2. UNCHANGED <<retry_at, retry_delay, ready_at>> /\ failure_streak' = NextStreak
      BY <1>23 DEF StepBackoffRandomFails
    <3> QED
      BY <3>1, <3>2 DEF RetryTypeOK
  <2>4. SessionTypeOK' /\ PongBound'
    BY <1>23, PongsAssumption
    DEF StepBackoffRandomFails, SessionTypeOK, PongBound, ResourceStates, SessionPhases,
        Cleanup
  <2> QED
    BY <1>23, <2>1, <2>2, <2>3, <2>4, PortFrame, ApiFrame, CallFrame
    DEF StepBackoffRandomFails, TypeInv, TypeOK
<1>24. CASE StepFailed
  <2>1. FlagsTypeOK'
    BY <1>24 DEF StepFailed, FlagsTypeOK, SetPhase
  <2>2. RunTypeOK'
    BY <1>24 DEF StepFailed, RunTypeOK, Phases, Results, SetPhase
  <2>3. SessionTypeOK' /\ PongBound'
    BY <1>24, PongsAssumption
    DEF StepFailed, SessionTypeOK, PongBound, ResourceStates, SessionPhases, Cleanup
  <2> QED
    BY <1>24, <2>1, <2>2, <2>3, PortFrame, ApiFrame, CallFrame, RetryFrame
    DEF StepFailed, TypeInv, TypeOK
<1>25. CASE StepWaits
  <2>1. RunTypeOK'
    BY <1>25 DEF StepWaits, RunTypeOK, Phases, Results, SetPhase
  <2> QED
    BY <1>25, <2>1, FlagsFrame, PortFrame, ApiFrame, CallFrame, RetryFrame, SessionFrame
    DEF StepWaits, TypeInv, TypeOK
<1>26. CASE StepRetries
  <2>1. FlagsTypeOK'
    BY <1>26 DEF StepRetries, FlagsTypeOK, Begin, SetPhase
  <2>2. RunTypeOK'
    BY <1>26 DEF StepRetries, RunTypeOK, Phases, Results, Begin, SetPhase
  <2>3. RetryTypeOK'
    <3>1. /\ retry_at' = "zero" /\ retry_delay' = 0 /\ ready_at' = "zero"
          /\ UNCHANGED failure_streak
      BY <1>26 DEF StepRetries, Begin
    <3> QED
      BY <3>1, ZeroDelay DEF RetryTypeOK
  <2> QED
    BY <1>26, <2>1, <2>2, <2>3, PortFrame, ApiFrame, CallFrame, SessionFrame
    DEF StepRetries, TypeInv, TypeOK
<1>27. CASE StepFails
  <2>1. FlagsTypeOK'
    BY <1>27 DEF StepFails, FlagsTypeOK, SetPhase, Drain, Retryable
  <2>2. RunTypeOK'
    BY <1>27 DEF StepFails, RunTypeOK, Phases, Results, SetPhase, Drain, Errors
  <2>3. RetryTypeOK'
    <3>1. retry_at' = "zero" /\ retry_delay' = 0 /\ UNCHANGED <<ready_at, failure_streak>>
      BY <1>27 DEF StepFails, Drain
    <3> QED
      BY <3>1, ZeroDelay DEF RetryTypeOK
  <2>4. SessionTypeOK' /\ PongBound'
    BY <1>27, PongsAssumption
    DEF StepFails, SessionTypeOK, PongBound, ResourceStates, SessionPhases, Drain,
        SetPhase, CancelAll, Cumulative
  <2> QED
    BY <1>27, <2>1, <2>2, <2>3, <2>4, PortFrame, ApiFrame, CallFrame
    DEF StepFails, TypeInv, TypeOK
<1>28. CASE StepConnected
  <2>1. FlagsTypeOK'
    BY <1>28 DEF StepConnected, FlagsTypeOK, SetPhase
  <2>2. RunTypeOK'
    BY <1>28 DEF StepConnected, RunTypeOK, Phases, Results, SetPhase
  <2>3. SessionTypeOK' /\ PongBound'
    BY <1>28, PongsAssumption
    DEF StepConnected, SessionTypeOK, PongBound, ResourceStates, SessionPhases
  <2> QED
    BY <1>28, <2>1, <2>2, <2>3, PortFrame, ApiFrame, CallFrame, RetryFrame
    DEF StepConnected, TypeInv, TypeOK
<1>29. CASE StepAuthenticates
  <2>1. FlagsTypeOK'
    BY <1>29 DEF StepAuthenticates, FlagsTypeOK, SetPhase
  <2>2. RunTypeOK'
    BY <1>29 DEF StepAuthenticates, RunTypeOK, Phases, Results, SetPhase
  <2>3. SessionTypeOK' /\ PongBound'
    <3>1. res' \in [Resources -> ResourceStates]
      BY <1>29 DEF StepAuthenticates, SessionTypeOK, Resources, ResourceStates
    <3>2. PongBound' /\ spongs' \in 0..MaxPongs
      BY <1>29, PongsAssumption DEF StepAuthenticates, SessionTypeOK, PongBound
    <3> QED
      BY <1>29, <3>1, <3>2 DEF StepAuthenticates, SessionTypeOK, SessionPhases
  <2> QED
    BY <1>29, <2>1, <2>2, <2>3, PortFrame, ApiFrame, CallFrame, RetryFrame
    DEF StepAuthenticates, TypeInv, TypeOK
<1>30. CASE StepSession
  <2>1. FlagsTypeOK'
    BY <1>30 DEF StepSession, FlagsTypeOK, SetPhase
  <2>2. RunTypeOK'
    BY <1>30
    DEF StepSession, RunTypeOK, Phases, Results, SetPhase, SessionProgress, Cumulative
  <2>3. RetryTypeOK'
    <3>1. retry_at' \in {"zero", "future", "due"}
      BY <1>30 DEF StepSession, RetryTypeOK
    <3>2. ready_at' \in {"zero", "recent", "ready60", "drained60"}
      BY <1>30 DEF StepSession, RetryTypeOK
    <3>3. UNCHANGED <<retry_delay, failure_streak>>
      BY <1>30 DEF StepSession
    <3> QED
      BY <3>1, <3>2, <3>3 DEF RetryTypeOK
  <2>4. SessionTypeOK' /\ PongBound'
    BY <1>30, PongsAssumption
    DEF StepSession, SessionTypeOK, PongBound, ResourceStates, SessionPhases,
        SessionProgress, Cumulative
  <2> QED
    BY <1>30, <2>1, <2>2, <2>3, <2>4, PortFrame, ApiFrame, CallFrame
    DEF StepSession, TypeInv, TypeOK
<1>31. CASE StepSessionFails
  <2>1. FlagsTypeOK'
    BY <1>31 DEF StepSessionFails, FlagsTypeOK, SetPhase, Drain, Retryable
  <2>2. RunTypeOK'
    BY <1>31 DEF StepSessionFails, RunTypeOK, Phases, Results, SetPhase, Drain, Errors
  <2>3. RetryTypeOK'
    <3>1. retry_at' = "zero" /\ retry_delay' = 0 /\ UNCHANGED <<ready_at, failure_streak>>
      BY <1>31 DEF StepSessionFails, Drain
    <3> QED
      BY <3>1, ZeroDelay DEF RetryTypeOK
  <2>4. SessionTypeOK' /\ PongBound'
    BY <1>31, PongsAssumption
    DEF StepSessionFails, SessionTypeOK, PongBound, ResourceStates, SessionPhases, Drain,
        SetPhase, CancelAll, Cumulative, SessionProgress
  <2> QED
    BY <1>31, <2>1, <2>2, <2>3, <2>4, PortFrame, ApiFrame, CallFrame
    DEF StepSessionFails, TypeInv, TypeOK
<1>32. CASE RetryBecomesDue
  <2>1. RetryTypeOK'
    <3>1. retry_at' \in {"zero", "future", "due"}
      BY <1>32 DEF RetryBecomesDue, RetryTypeOK
    <3>2. ready_at' \in {"zero", "recent", "ready60", "drained60"}
      BY <1>32 DEF RetryBecomesDue, RetryTypeOK
    <3>3. UNCHANGED <<retry_delay, failure_streak>>
      BY <1>32 DEF RetryBecomesDue
    <3> QED
      BY <3>1, <3>2, <3>3 DEF RetryTypeOK
  <2> QED
    BY <1>32, <2>1, FlagsFrame, PortFrame, ApiFrame, CallFrame, RunFrame, SessionFrame
    DEF RetryBecomesDue, TypeInv, TypeOK
<1>33. CASE SixtySeconds
  <2>1. RetryTypeOK'
    <3>1. retry_at' \in {"zero", "future", "due"}
      BY <1>33 DEF SixtySeconds, RetryTypeOK
    <3>2. ready_at' \in {"zero", "recent", "ready60", "drained60"}
      BY <1>33 DEF SixtySeconds, RetryTypeOK
    <3>3. UNCHANGED <<retry_delay, failure_streak>>
      BY <1>33 DEF SixtySeconds
    <3> QED
      BY <3>1, <3>2, <3>3 DEF RetryTypeOK
  <2> QED
    BY <1>33, <2>1, FlagsFrame, PortFrame, ApiFrame, CallFrame, RunFrame, SessionFrame
    DEF SixtySeconds, TypeInv, TypeOK
<1>34. CASE UNCHANGED vars
  BY <1>34, FlagsFrame, PortFrame, ApiFrame, CallFrame, RunFrame, RetryFrame,
     SessionFrame
  DEF TypeInv, TypeOK, vars
<1> QED
  BY <1>1, <1>2, <1>3, <1>4, <1>5, <1>6, <1>7, <1>8, <1>9, <1>10, <1>11, <1>12, <1>13,
     <1>14, <1>15, <1>16, <1>17, <1>18, <1>19, <1>20, <1>21, <1>22, <1>23, <1>24, <1>25,
     <1>26, <1>27, <1>28, <1>29, <1>30, <1>31, <1>32, <1>33, <1>34
  DEF Next, CallStep, Worker, Receive, Opening, StepDraining, StepRunning

\* Type correctness of the client lifecycle.
THEOREM TypeCorrect == Spec => []TypeOK
<1>1. TypeInv => TypeOK
  BY DEF TypeInv
<1> QED
  BY <1>1, TypeInit, TypeStep, PTL DEF Spec

-----------------------------------------------------------------------------
(* The handshake between the public calls and the worker. *)

\* A command sent to the empty queue.
LEMMA AppendEmpty == \A a : Append(<<>>, a) = <<a>>
  OBVIOUS

\* A command sent behind another one.
LEMMA AppendOne ==
    ASSUME NEW S, NEW a \in S, NEW b \in S
    PROVE  Append(<<a>>, b) = <<a, b>>
<1> DEFINE s == Append(<<a>>, b)
           t == <<a, b>>
<1>1. s \in Seq(S) /\ Len(s) = 2 /\ s[1] = a /\ s[2] = b
  BY AppendProperties
<1>2. t \in Seq(S) /\ Len(t) = 2 /\ t[1] = a /\ t[2] = b
  OBVIOUS
<1> HIDE DEF s, t
<1>3. \A i \in 1..2 : s[i] = t[i]
  BY <1>1, <1>2
<1>4. s = t
  BY <1>1, <1>2, <1>3, SeqEqual
<1> QED
  BY <1>4 DEF s, t

\* What the worker takes from a queue of one or two commands.
LEMMA HeadTail ==
    /\ \A a : <<a>> # <<>> /\ Head(<<a>>) = a /\ Tail(<<a>>) = <<>>
    /\ \A a, b : <<a, b>> # <<>> /\ Head(<<a, b>>) = a /\ Tail(<<a, b>>) = <<b>>
<1>1. \A a : <<a>> # <<>> /\ Head(<<a>>) = a /\ Tail(<<a>>) = <<>>
  OBVIOUS
<1>2. \A a, b : <<a, b>> # <<>> /\ Head(<<a, b>>) = a /\ Tail(<<a, b>>) = <<b>>
  OBVIOUS
<1> QED
  BY <1>1, <1>2

\* A created client is idle.
LEMMA HandshakeInit == Init => Handshake
  BY DEF Init, Handshake, TicketOrder, LockHeld, DestroyAlone, Stage, IdleStage, Quiet

\* Tickets only grow, and the lock is held over every wait.
LEMMA TicketStep == TypeInv /\ Handshake /\ [Next]_vars 
                      => TicketOrder' /\ LockHeld' /\ DestroyAlone'
<1> SUFFICES ASSUME ApiTypeOK, CallTypeOK, PortTypeOK, TicketOrder, LockHeld, DestroyAlone,
                    Stage, [Next]_vars
             PROVE  TicketOrder' /\ LockHeld' /\ DestroyAlone'
  BY DEF TypeInv, TypeOK, Handshake
<1> USE DEF outside, portVars, apiVars, callVars, retryVars, runVars, sessionVars,
            statusVars, workerVars, TicketOrder, LockHeld, DestroyAlone
<1>1. ASSUME NEW p \in Callers, efrp_start(p) PROVE TicketOrder' /\ LockHeld' /\ DestroyAlone'
  BY <1>1, CallersAssumption, TicketAssumption DEF efrp_start, MayCall, ApiTypeOK,
                                                   CallTypeOK, PortTypeOK
<1>2. ASSUME NEW p \in Callers, NEW o \in {"stop", "destroy"}, NEW zero \in BOOLEAN,
             StopEnter(p, o, zero)
      PROVE  TicketOrder' /\ LockHeld' /\ DestroyAlone'
  BY <1>2, CallersAssumption, TicketAssumption DEF StopEnter, MayCall, NeedsStop, STOP,
                                                   ApiTypeOK, CallTypeOK, PortTypeOK
<1>3. ASSUME NEW p \in Callers, StopExhausted(p) PROVE TicketOrder' /\ LockHeld' /\ DestroyAlone'
  BY <1>3, CallersAssumption, TicketAssumption DEF StopExhausted, MayCall, vars,
                                                   ApiTypeOK, CallTypeOK, PortTypeOK
<1>4. ASSUME NEW p \in Callers, StopCheck(p) PROVE TicketOrder' /\ LockHeld' /\ DestroyAlone'
  BY <1>4, CallersAssumption, TicketAssumption DEF StopCheck, Return, Finish, ApiTypeOK,
                                                   CallTypeOK, PortTypeOK
<1>5. ASSUME NEW p \in Callers, StopWait(p) PROVE TicketOrder' /\ LockHeld' /\ DestroyAlone'
  BY <1>5, CallersAssumption, TicketAssumption DEF StopWait, ApiTypeOK, CallTypeOK,
                                                   PortTypeOK
<1>6. ASSUME NEW p \in Callers, Expire(p) PROVE TicketOrder' /\ LockHeld' /\ DestroyAlone'
  BY <1>6, CallersAssumption, TicketAssumption DEF Expire, ApiTypeOK, CallTypeOK,
                                                   PortTypeOK
<1>7. ASSUME NEW p \in Callers, DestroyExit(p) PROVE TicketOrder' /\ LockHeld' /\ DestroyAlone'
  BY <1>7, CallersAssumption, TicketAssumption DEF DestroyExit, ApiTypeOK, CallTypeOK,
                                                   PortTypeOK
<1>8. ASSUME NEW p \in Callers, DestroyJoin(p) PROVE TicketOrder' /\ LockHeld' /\ DestroyAlone'
  BY <1>8, CallersAssumption, TicketAssumption DEF DestroyJoin, Finish, WorkerJoined,
                                                   ApiTypeOK, CallTypeOK, PortTypeOK
<1>9. CASE StopCompletes
  BY <1>9 DEF StopCompletes, At, Stage, IdleStage, ExitStage, StartQueued, Started,
     StartStopQueued, StopQueued, Stopping, StopDone, StopPending, Quiet, Busy, ApiTypeOK
<1>10. CASE UNCHANGED <<alive, apiVars, callVars, completed_ticket>>
  BY <1>10
<1> QED
  BY <1>1, <1>2, <1>3, <1>4, <1>5, <1>6, <1>7, <1>8, <1>9, <1>10
  DEF vars, Next, CallStep, Worker, Receive, Opening, StepDraining, StepRunning,
      ResourceDrains, Destroyed, CallbackReturns, ReceiveTimeout, ReceiveStart,
      ReceiveStop, ReceiveExit, BeginOpens, BeginFails, StepDrainBlocked, StepStopped,
      StopSignals, StepBackoffScheduled, StepBackoffRandomFails, StepFailed, StepWaits,
      StepRetries, StepFails, StepConnected, StepAuthenticates, StepSession,
      StepSessionFails, RetryBecomesDue, SixtySeconds

\* Every step leads from one stage of the handshake to the same or another one.
LEMMA StageStep == TypeInv /\ Handshake /\ [Next]_vars => Stage'
<1> SUFFICES ASSUME FlagsTypeOK, PortTypeOK, ApiTypeOK, CallTypeOK, RunTypeOK,
                    TicketOrder, LockHeld, DestroyAlone, Stage, [Next]_vars
             PROVE  Stage'
  BY DEF TypeInv, TypeOK, Handshake
<1> USE DEF outside, portVars, apiVars, callVars, retryVars, runVars, sessionVars,
            statusVars, workerVars,
            Stage, IdleStage, ExitStage, StartQueued, Started, StopPending, StartStopQueued,
            StopQueued, Stopping, StopDone, Quiet, Busy, TicketOrder, LockHeld, DestroyAlone,
            FlagsTypeOK, PortTypeOK, ApiTypeOK, CallTypeOK
<1>1. ASSUME NEW p \in Callers, efrp_start(p) PROVE Stage'
  BY <1>1, AppendEmpty DEF efrp_start, MayCall
<1>2. ASSUME NEW p \in Callers, NEW o \in {"stop", "destroy"}, NEW zero \in BOOLEAN,
             StopEnter(p, o, zero)
      PROVE  Stage'
  <2>1. CASE ~requested /\ stop_ticket = 0
    BY <1>2, <2>1 DEF StopEnter, MayCall
  <2>2. CASE requested
    <3>1. /\ stop_ticket = 0 /\ stop_ticket' = next_ticket + 1 /\ next_ticket # TicketMax
          /\ queue' = Append(queue, STOP(next_ticket + 1))
          /\ UNCHANGED <<completed_ticket, workerVars>>
      BY <1>2, <2>2 DEF StopEnter, NeedsStop
    <3>2. START \in Commands /\ STOP(next_ticket + 1) \in Commands
      BY <3>1, TicketAssumption DEF START, STOP, Commands
    <3>3. completed_ticket < stop_ticket' /\ stop_ticket' # 0
      BY <3>1
    <3>4. CASE StartQueued
      <4>1. queue' = <<START, STOP(next_ticket + 1)>>
        BY <3>1, <3>2, <3>4, AppendOne DEF StartQueued
      <4> QED
        BY <3>1, <3>3, <3>4, <4>1
    <3>5. CASE Started
      <4>1. queue' = <<STOP(next_ticket + 1)>>
        BY <3>1, <3>5, AppendEmpty DEF Started
      <4> QED
        BY <3>1, <3>3, <3>5, <4>1
    <3> QED
      BY <2>2, <3>1, <3>4, <3>5
  <2>3. CASE stop_ticket # 0
    BY <1>2, <2>3 DEF StopEnter, NeedsStop
  <2> QED
    BY <2>1, <2>2, <2>3
<1>3. ASSUME NEW p \in Callers, StopExhausted(p) PROVE Stage'
  BY <1>3 DEF StopExhausted, MayCall, vars
<1>4. ASSUME NEW p \in Callers, StopCheck(p) PROVE Stage'
  BY <1>4 DEF StopCheck, Return, Finish
<1>5. ASSUME NEW p \in Callers, StopWait(p) PROVE Stage'
  BY <1>5 DEF StopWait
<1>6. ASSUME NEW p \in Callers, Expire(p) PROVE Stage'
  BY <1>6 DEF Expire
<1>7. ASSUME NEW p \in Callers, DestroyExit(p) PROVE Stage'
  <2>1. ~requested /\ stop_ticket = 0 /\ alive
    BY <1>7 DEF DestroyExit
  <2>2. CASE IdleStage
    <3>1. queue' = <<EXIT>>
      BY <1>7, <2>2, AppendEmpty DEF DestroyExit
    <3>2. call'[p] = "join"
      BY <1>7 DEF DestroyExit
    <3> QED
      BY <1>7, <2>1, <2>2, <3>1, <3>2 DEF DestroyExit
  <2>3. \A q \in Callers : call[q] # "join"
    BY <1>7 DEF DestroyExit
  <2> QED
    BY <1>7, <2>1, <2>2, <2>3 DEF DestroyExit, EXIT, START, STOP
<1>8. ASSUME NEW p \in Callers, DestroyJoin(p) PROVE Stage'
  BY <1>8 DEF DestroyJoin, Finish, WorkerJoined
<1>9. CASE Destroyed
  BY <1>9 DEF Destroyed, vars
<1>10. CASE CallbackReturns
  BY <1>10 DEF CallbackReturns
<1>11. CASE ReceiveTimeout
  BY <1>11 DEF ReceiveTimeout, MayTimeout, At
<1>12. CASE ReceiveStart
  <2>1. pc = "receive" /\ queue # <<>> /\ Head(queue).kind = "START"
    BY <1>12 DEF ReceiveStart, At
  <2>2. StartQueued \/ StartStopQueued
    BY <2>1, HeadTail DEF STOP, EXIT
  <2>3. Busy'
    BY <1>12 DEF ReceiveStart, Begin, SetPhase
  <2>4. UNCHANGED <<requested, stop_ticket, completed_ticket>>
    BY <1>12 DEF ReceiveStart
  <2>5. CASE StartQueued
    <3>1. queue' = <<>>
      BY <1>12, <2>5, HeadTail DEF ReceiveStart
    <3> QED
      BY <2>3, <2>4, <2>5, <3>1
  <2>6. CASE StartStopQueued
    <3>1. queue' = <<STOP(stop_ticket)>>
      BY <1>12, <2>6, HeadTail DEF ReceiveStart
    <3>2. queue' = <<STOP(stop_ticket')>>
      BY <2>4, <3>1 DEF STOP
    <3> QED
      BY <2>3, <2>4, <2>6, <3>2
  <2> QED
    BY <2>2, <2>5, <2>6
<1>13. CASE ReceiveStop
  BY <1>13, HeadTail DEF ReceiveStop, Drain, SetPhase, At, START, STOP, EXIT
<1>14. CASE ReceiveExit
  BY <1>14, HeadTail DEF ReceiveExit, At, START, STOP, EXIT
<1>15. CASE BeginOpens
  BY <1>15 DEF BeginOpens, AtCreate, AfterBegin, At
<1>16. CASE BeginFails
  BY <1>16 DEF BeginFails, AtCreate, AfterBegin, At, Drain, SetPhase
<1>17. ASSUME NEW r \in Resources, ResourceDrains(r) PROVE Stage'
  BY <1>17 DEF ResourceDrains, NoResources
<1>18. CASE StepDrainBlocked
  BY <1>18 DEF StepDrainBlocked, AtStep, At
<1>19. CASE StepStopped
  BY <1>19 DEF StepStopped, AtStep, At, SetPhase, CleanupDone
<1>20. CASE StopCompletes
  BY <1>20 DEF StopCompletes, At
<1>21. CASE StopSignals
  BY <1>21 DEF StopSignals, At
<1>22. CASE StepBackoffScheduled
  BY <1>22 DEF StepBackoffScheduled, AtStep, At, SetPhase, CleanupDone
<1>23. CASE StepBackoffRandomFails
  BY <1>23 DEF StepBackoffRandomFails, AtStep, At, SetPhase, CleanupDone
<1>24. CASE StepFailed
  BY <1>24 DEF StepFailed, AtStep, At, SetPhase, CleanupDone
<1>25. CASE StepWaits
  BY <1>25 DEF StepWaits, AtStep, At
<1>26. CASE StepRetries
  BY <1>26 DEF StepRetries, AtStep, At, Begin, SetPhase
<1>27. CASE StepFails
  BY <1>27 DEF StepFails, AtStep, At, Connecting, Drain, SetPhase
<1>28. CASE StepConnected
  BY <1>28 DEF StepConnected, AtStep, At, SetPhase
<1>29. CASE StepAuthenticates
  BY <1>29 DEF StepAuthenticates, AtStep, At, SetPhase
<1>30. CASE StepSession
  BY <1>30 DEF StepSession, AtStep, At, Active, SetPhase
<1>31. CASE StepSessionFails
  BY <1>31 DEF StepSessionFails, AtStep, At, Active, Drain, SetPhase
<1>32. CASE RetryBecomesDue
  BY <1>32 DEF RetryBecomesDue
<1>33. CASE SixtySeconds
  BY <1>33 DEF SixtySeconds
<1>34. CASE UNCHANGED vars
  BY <1>34 DEF vars
<1> QED
  BY <1>1, <1>2, <1>3, <1>4, <1>5, <1>6, <1>7, <1>8, <1>9, <1>10, <1>11, <1>12, <1>13,
     <1>14, <1>15, <1>16, <1>17, <1>18, <1>19, <1>20, <1>21, <1>22, <1>23, <1>24, <1>25,
     <1>26, <1>27, <1>28, <1>29, <1>30, <1>31, <1>32, <1>33, <1>34
  DEF Next, CallStep, Worker, Receive, Opening, StepDraining, StepRunning

\* The inductive invariant of the lifecycle.
THEOREM HandshakeHolds == Spec => []Handshake
<1>1. TypeInv /\ Handshake /\ [Next]_vars => Handshake'
  BY TicketStep, StageStep DEF Handshake
<1>2. Spec => []TypeInv
  BY TypeInit, TypeStep, PTL DEF Spec
<1> QED
  BY <1>1, <1>2, HandshakeInit, PTL DEF Spec

\* "Only OK proves STOPPED; no callback follows until another start": whenever
\* neither a start nor a stop is in force the worker is quiet, for any number of
\* callers and any interleaving of their calls with the worker.
THEOREM StopOkIsQuietHolds == Spec => []StopOkIsQuiet
<1>1. Handshake => StopOkIsQuiet
  BY DEF Handshake, Stage, IdleStage, ExitStage, StartQueued, Started, StopPending,
         StartStopQueued, StopQueued, Stopping, StopDone, StopOkIsQuiet
<1> QED
  BY <1>1, HandshakeHolds, PTL

\* No send ever finds the command queue full.
THEOREM QueueHasRoomHolds == Spec => []QueueHasRoom
<1>1. /\ \A a, b : Len(<<a, b>>) = 2
      /\ \A a : Len(<<a>>) = 1
      /\ Len(<<>>) = 0
  OBVIOUS
<1>2. Handshake => \/ queue = <<>> \/ \E a : queue = <<a>>
                   \/ \E a, b : queue = <<a, b>>
  BY DEF Handshake, Stage, IdleStage, ExitStage, StartQueued, Started, StopPending,
         StartStopQueued, StopQueued, Stopping, StopDone
<1>3. Handshake => QueueHasRoom
  BY <1>1, <1>2, CapacityAssumption DEF QueueHasRoom
<1> QED
  BY <1>3, HandshakeHolds, PTL

\* The client is freed only when its worker has left its loop.
THEOREM FreedAfterExitHolds == Spec => []FreedAfterExit
<1>1. Init => FreedAfterExit
  BY DEF Init, FreedAfterExit
<1>2. FreedAfterExit /\ [Next]_vars => FreedAfterExit'
  <2> SUFFICES ASSUME FreedAfterExit, [Next]_vars, ~alive'
               PROVE  pc' = "exited"
    BY DEF FreedAfterExit
  <2> USE DEF vars, outside, workerVars
  <2>1. CASE ~alive
    <3>1. pc = "exited"
      BY <2>1 DEF FreedAfterExit
    <3> QED
      BY <3>1
      DEF Next, CallStep, Worker, Receive, Opening, StepDraining, StepRunning, At, AtCreate,
          AtStep, efrp_start, StopEnter, StopExhausted, StopCheck, StopWait, Expire,
          DestroyExit, DestroyJoin, Destroyed, CallbackReturns, ReceiveTimeout, ReceiveStart,
          ReceiveStop, ReceiveExit, BeginOpens, BeginFails, ResourceDrains, StepDrainBlocked,
          StepStopped, StopCompletes, StopSignals, StepBackoffScheduled,
          StepBackoffRandomFails, StepFailed, StepWaits, StepRetries, StepFails,
          StepConnected, StepAuthenticates, StepSession, StepSessionFails, RetryBecomesDue,
          SixtySeconds
  <2>2. CASE alive
    <3>1. PICK p \in Callers : DestroyJoin(p)
      BY <2>2
      DEF Next, CallStep, Worker, Receive, Opening, StepDraining, StepRunning, efrp_start,
          StopEnter, StopExhausted, StopCheck, StopWait, Expire, DestroyExit, Destroyed,
          CallbackReturns, ReceiveTimeout, ReceiveStart, ReceiveStop, ReceiveExit,
          BeginOpens, BeginFails, ResourceDrains, StepDrainBlocked, StepStopped,
          StopCompletes, StopSignals, StepBackoffScheduled, StepBackoffRandomFails,
          StepFailed, StepWaits, StepRetries, StepFails, StepConnected, StepAuthenticates,
          StepSession, StepSessionFails, RetryBecomesDue, SixtySeconds
    <3> QED
      BY <3>1 DEF DestroyJoin, WorkerJoined
  <2> QED
    BY <2>1, <2>2
<1> QED
  BY <1>1, <1>2, PTL DEF Spec

-----------------------------------------------------------------------------
(* The objects that the worker owns. *)

\* The four objects one by one.
LEMMA FourObjects ==
    /\ Resources = {"session", "transport", "tls", "connection"}
    /\ NoResources["session"] = "none" /\ NoResources["transport"] = "none"
    /\ NoResources["tls"] = "none" /\ NoResources["connection"] = "none"
  BY DEF Resources, NoResources

\* cleanup() destroys a prefix of its order, and never an object before its users.
LEMMA CleanupOrder ==
    ASSUME SessionTypeOK
    PROVE  /\ Cleanup \in [Resources -> ResourceStates]
           /\ \A r \in Resources : Cleanup[r] \in {res[r], "none"}
           /\ Cleanup["transport"] = "none" => Cleanup["session"] = "none" \/ res["transport"] = "none"
           /\ Cleanup["tls"] = "none" => Cleanup["transport"] = "none" \/ res["tls"] = "none"
           /\ Cleanup["connection"] = "none" => Cleanup["tls"] = "none" \/ res["connection"] = "none"
<1>1. Order[1] = "session" /\ Order[2] = "transport" /\ Order[3] = "tls" /\ Order[4] = "connection"
  BY DEF Order
<1>2. (Released(2) => Released(1)) /\ (Released(3) => Released(2)) /\ (Released(4) => Released(3))
  BY DEF Released
<1>3. /\ Cleanup["session"] = IF Released(1) THEN "none" ELSE res["session"]
      /\ Cleanup["transport"] = IF Released(2) THEN "none" ELSE res["transport"]
      /\ Cleanup["tls"] = IF Released(3) THEN "none" ELSE res["tls"]
      /\ Cleanup["connection"] = IF Released(4) THEN "none" ELSE res["connection"]
  BY <1>1 DEF Cleanup, Resources
<1>4. Cleanup \in [Resources -> ResourceStates] /\ \A r \in Resources : Cleanup[r] \in {res[r], "none"}
  BY DEF Cleanup, SessionTypeOK, ResourceStates
<1> QED
  BY <1>2, <1>3, <1>4

\* What drain() cancels was open, and nothing is created or released by it.
LEMMA Cancelled ==
    ASSUME NEW r \in [Resources -> ResourceStates]
    PROVE  /\ \A x \in Resources : CancelAll(r)[x] # "open" /\ (CancelAll(r)[x] = "none" <=> r[x] = "none")
  BY DEF CancelAll, ResourceStates

\* Every step keeps the order of ownership, in the stages of the handshake.
LEMMA OwnershipStep == TypeInv /\ Handshake /\ OwnershipOrder /\ [Next]_vars => OwnershipOrder'
<1> SUFFICES ASSUME TypeInv, Stage, OwnershipOrder, [Next]_vars
             PROVE  OwnershipOrder'
  BY DEF Handshake
<1> res \in [Resources -> ResourceStates] /\ SessionTypeOK
  BY DEF TypeInv, TypeOK, SessionTypeOK
<1> running \in BOOLEAN /\ config \in {"YAMUX_TLS", "QUIC"}
  BY DEF TypeInv, TypeOK, FlagsTypeOK, PortTypeOK
<1> "session" \in Resources /\ "transport" \in Resources /\ "tls" \in Resources /\ "connection" \in Resources
  BY DEF Resources
<1>a. /\ pc \in {"create_start", "create_retry"} => phase = "CONNECTING"
      /\ pc \in {"complete", "signal", "exited"} => phase = "STOPPED"
  BY DEF Stage, IdleStage, ExitStage, StartQueued, Started, StopPending, StartStopQueued, StopQueued, Stopping, StopDone,
         Quiet, Busy
<1>b. ASSUME UNCHANGED <<config, phase, running, res>>, pc' = pc \/ pc = "receive" \/ phase = "STOPPED"
             \/ (pc = "step" /\ pc' = "receive")
      PROVE  OwnershipOrder'
  BY <1>b DEF OwnershipOrder, Active, Connecting
<1> USE DEF outside, portVars, apiVars, callVars, retryVars, runVars, sessionVars, statusVars, workerVars
<1>c. ASSUME NEW r \in [Resources -> ResourceStates], NEW e, NEW k, Drain(e, r, k), config' = config,
             phase = "DRAINING" => r = res,
             r["session"] # "none" => r["transport"] # "none",
             config = "YAMUX_TLS" /\ r["transport"] # "none" => r["tls"] # "none",
             r["tls"] # "none" => r["connection"] # "none"
      PROVE  OwnershipOrder'
  <2>1. phase' = "DRAINING"
    BY <1>c DEF Drain, SetPhase
  <2>2. CASE phase = "DRAINING"
    BY <1>c, <2>1, <2>2 DEF Drain, OwnershipOrder, Active, Connecting
  <2>3. CASE phase # "DRAINING"
    <3>1. res' = CancelAll(r)
      BY <1>c, <2>3 DEF Drain
    <3> QED
      BY <1>c, <2>1, <3>1, Cancelled DEF OwnershipOrder, Active, Connecting
  <2> QED
    BY <2>2, <2>3
<1>1. CASE ReceiveStart
  <2>1. phase' = "CONNECTING" /\ pc' = "create_start" /\ UNCHANGED <<config, res>>
    BY <1>1 DEF ReceiveStart, Begin, SetPhase
  <2> QED
    BY <2>1 DEF OwnershipOrder, Active, Connecting
<1>2. CASE ReceiveStop
  BY <1>2, <1>c DEF ReceiveStop, OwnershipOrder
<1>3. CASE BeginFails
  BY <1>3, <1>c DEF BeginFails, OwnershipOrder
<1>4. CASE BeginOpens
  <2>1. phase = "CONNECTING" /\ UNCHANGED <<config, phase, running>>
        /\ res' = [res EXCEPT ![IF config = "QUIC" THEN "transport" ELSE "connection"] = "open"]
    BY <1>4, <1>a DEF BeginOpens, AtCreate, At
  <2> QED
    BY <2>1 DEF OwnershipOrder, Active, Connecting
<1>5. ASSUME NEW x \in Resources, ResourceDrains(x) PROVE OwnershipOrder'
  <2>1. UNCHANGED <<config, phase, running, pc>> /\ res[x] = "cancelled" /\ res' = [res EXCEPT ![x] = "drained"]
    BY <1>5 DEF ResourceDrains
  <2>2. \A y \in Resources : (res'[y] = "open" <=> res[y] = "open") /\ (res'[y] = "none" <=> res[y] = "none")
    BY <2>1
  <2>3. res = NoResources => FALSE
    BY <2>1 DEF NoResources
  <2> QED
    BY <2>1, <2>2, <2>3 DEF OwnershipOrder, Active, Connecting
<1>6. CASE StepDrainBlocked
  <2>1. phase = "DRAINING" /\ UNCHANGED <<config, phase, running>> /\ res' = Cleanup
    BY <1>6 DEF StepDrainBlocked
  <2> QED
    BY <2>1, CleanupOrder DEF OwnershipOrder, Active, Connecting
<1>7. CASE StepStopped \/ StepBackoffScheduled \/ StepBackoffRandomFails \/ StepFailed
  <2>1. phase' \in {"STOPPED", "BACKOFF", "FAILED"} /\ res' = NoResources /\ config' = config
    BY <1>7 DEF StepStopped, StepBackoffScheduled, StepBackoffRandomFails, StepFailed, CleanupDone, SetPhase
  <2> QED
    BY <2>1, FourObjects DEF OwnershipOrder, Active, Connecting
<1>8. CASE StepRetries
  <2>1. phase' = "CONNECTING" /\ pc' = "create_retry" /\ UNCHANGED <<config, running, res>>
    BY <1>8 DEF StepRetries, Begin, SetPhase
  <2> QED
    BY <2>1 DEF OwnershipOrder, Active, Connecting
<1>9. CASE StepFails
  <2>1. PICK e \in Errors \cup {"TIME_UNTRUSTED"}, made \in Creates :
           Drain(e, [r \in Resources |-> IF r \in made THEN "open" ELSE res[r]], spongs)
    BY <1>9 DEF StepFails
  <2> DEFINE held == [r \in Resources |-> IF r \in made THEN "open" ELSE res[r]]
  <2>2. held \in [Resources -> ResourceStates]
    BY DEF ResourceStates
  <2>3. made = {} \/ (made = {"transport"} /\ config = "YAMUX_TLS" /\ res["tls"] = "open")
    BY <1>9 DEF StepFails, Creates, Connecting, OwnershipOrder
  <2>4. /\ held["session"] # "none" => held["transport"] # "none"
        /\ config = "YAMUX_TLS" /\ held["transport"] # "none" => held["tls"] # "none"
        /\ held["tls"] # "none" => held["connection"] # "none"
    BY <2>3 DEF OwnershipOrder
  <2>5. phase # "DRAINING" /\ config' = config
    BY <1>9 DEF StepFails, Connecting
  <2> HIDE DEF held
  <2> QED
    BY <1>c, <2>1, <2>2, <2>4, <2>5 DEF held
<1>10. CASE StepConnected
  <2>1. phase = "CONNECTING" /\ running /\ pc = "step" /\ phase' = "TLS_HANDSHAKING" /\ UNCHANGED <<config, running>>
        /\ res' = IF config = "QUIC" THEN res ELSE [res EXCEPT !["tls"] = "open"]
    BY <1>10 DEF StepConnected, AtStep, At, SetPhase
  <2> QED
    BY <2>1 DEF OwnershipOrder, Active, Connecting
<1>11. CASE StepAuthenticates
  <2>1. /\ running /\ (phase = "TLS_HANDSHAKING" \/ (config = "QUIC" /\ phase = "CONNECTING"))
        /\ phase' = "AUTHENTICATING" /\ UNCHANGED <<config, running>>
        /\ res' = [res EXCEPT !["transport"] = "open", !["session"] = "open"]
    BY <1>11 DEF StepAuthenticates, SetPhase
  <2> QED
    BY <2>1 DEF OwnershipOrder, Active, Connecting
<1>12. CASE StepSession
  <2>1. Active /\ phase' \in {"AUTHENTICATING", "REGISTERING", "READY"} /\ UNCHANGED <<config, running, res>>
    BY <1>12 DEF StepSession, SetPhase, Active
  <2> QED
    BY <2>1 DEF OwnershipOrder, Active, Connecting
<1>13. CASE StepSessionFails
  BY <1>13, <1>c DEF StepSessionFails, OwnershipOrder, Active
<1>14. CASE ReceiveTimeout \/ ReceiveExit \/ StopCompletes \/ StopSignals \/ StepWaits \/ CallbackReturns \/ RetryBecomesDue
            \/ SixtySeconds \/ UNCHANGED vars \/ Destroyed
  BY <1>14, <1>a, <1>b
     DEF ReceiveTimeout, ReceiveExit, StopCompletes, StopSignals, StepWaits, CallbackReturns, RetryBecomesDue, SixtySeconds,
         Destroyed, vars, At, AtStep
<1>15. ASSUME NEW p \in Callers,
              \/ efrp_start(p) \/ (\E o \in {"stop", "destroy"}, zero \in BOOLEAN : StopEnter(p, o, zero))
              \/ StopExhausted(p) \/ CallStep(p) \/ Expire(p)
       PROVE  OwnershipOrder'
  <2>1. UNCHANGED <<config, workerVars>>
    BY <1>15
       DEF efrp_start, StopEnter, StopExhausted, CallStep, StopCheck, StopWait, DestroyExit, DestroyJoin, Expire, vars
  <2> QED
    BY <1>b, <2>1
<1> QED
  BY <1>1, <1>2, <1>3, <1>4, <1>5, <1>6, <1>7, <1>8, <1>9, <1>10, <1>11, <1>12, <1>13, <1>14, <1>15
  DEF Next, Worker, Receive, Opening, StepDraining, StepRunning

\* Every object outlives its users, nothing is left open by a drain, a retry, failure or
\* stop is reported with everything released, and what step() uses exists.
THEOREM OwnershipOrderHolds == Spec => []OwnershipOrder
<1>1. Init => OwnershipOrder
  BY FourObjects DEF Init, OwnershipOrder, Active, Connecting
<1>2. Spec => []TypeInv
  BY TypeInit, TypeStep, PTL DEF Spec
<1> QED
  BY <1>1, <1>2, HandshakeHolds, OwnershipStep, PTL DEF Spec
=============================================================================
