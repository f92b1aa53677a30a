------------------------------- MODULE Client -------------------------------
(***************************************************************************)
(* The lifecycle of one FRP client: the public calls of client.c           *)
(* (efrp_start, efrp_stop, efrp_destroy) made by any number of tasks, the  *)
(* bounded command queue and completion semaphore of client_port_idf.c,    *)
(* and the single worker task that owns every network resource, retries    *)
(* with backoff and drains before it starts again.                         *)
(*                                                                         *)
(* The sub-objects the worker owns (connection, tls, transport, session)   *)
(* are represented by what client.c relies on: each may report any         *)
(* documented result, a cancelled one may refuse destruction for a while,  *)
(* and eventually stops refusing.                                          *)
(***************************************************************************)
EXTENDS Integers, Sequences, FiniteSets

CONSTANTS
    Callers,        \* tasks that call the public API
    NoCaller,       \* the API lock is free
    Capacity,       \* EFRP_COMMAND_CAPACITY
    TicketMax,      \* UINT64_MAX, scaled down
    Randoms,        \* samples of the 32-bit random number of backoff()
    MaxPongs        \* model bound on the Pongs received over a client's life

ASSUME CallersAssumption == NoCaller \notin Callers
ASSUME CapacityAssumption == Capacity \in Nat /\ Capacity > 2
ASSUME TicketAssumption == TicketMax \in Nat \ {0}
ASSUME RandomsAssumption == Randoms \subseteq Nat
ASSUME PongsAssumption == MaxPongs \in Nat

Phases == {"STOPPED", "CONNECTING", "TLS_HANDSHAKING", "AUTHENTICATING",
           "REGISTERING", "READY", "DRAINING", "BACKOFF", "FAILED"}

\* One representative per class of result that drain() distinguishes:
\* NETWORK stands for NETWORK, DNS, TIMEOUT, SESSION_CLOSED and EOF, PROTOCOL
\* for every result that is fatal to the client.
Errors == {"NETWORK", "TRUNCATED", "PROTOCOL"}
Results == Errors \cup {"OK", "TIME_UNTRUSTED", "CANCELLED", "RANDOM"}

Resources == {"session", "transport", "tls", "connection"}
ResourceStates == {"none", "open", "cancelled", "drained"}
SessionPhases == {"AUTHENTICATING", "REGISTERING", "REGISTERED"}

START == [kind |-> "START", ticket |-> 0]
STOP(t) == [kind |-> "STOP", ticket |-> t]
EXIT == [kind |-> "EXIT", ticket |-> 0]
Commands == [kind : {"START", "STOP", "EXIT"}, ticket : 0..TicketMax]

RetryDelays == 0..30000     \* milliseconds

VARIABLES
    alive,              \* the handle is allocated
    config,             \* configured transport: "YAMUX_TLS" or "QUIC"
    \* efrp_port: command queue and binary completion semaphore
    queue, signal,
    \* fields owned by the API lock, and its holder
    api, requested, next_ticket, stop_ticket,
    \* per caller: position in stop_locked/efrp_destroy, and its locals: the
    \* operation, a zero timeout, whether the deadline has passed
    call, op, poll, expired,
    \* owned by the status lock
    completed_ticket,
    \* worker-owned fields
    pc, callback, phase, error, retry_at, retry_delay, ready_at,
    failure_streak, running, retryable, worker_stop_ticket, res,
    \* session status as read by session_status(), and the cumulative counter
    sphase, spongs, pongs, pong_total

portVars == <<queue, signal>>
apiVars == <<api, requested, next_ticket, stop_ticket>>
callVars == <<call, op, poll, expired>>
retryVars == <<retry_at, retry_delay, ready_at, failure_streak>>
runVars == <<running, retryable, worker_stop_ticket>>
sessionVars == <<sphase, spongs, pongs, pong_total>>
statusVars == <<phase, error, callback>>
workerVars == <<pc, statusVars, retryVars, runVars, res, sessionVars>>
outside == <<alive, config, portVars, apiVars, callVars, completed_ticket>>
vars == <<outside, workerVars>>

FlagsTypeOK ==
    /\ alive \in BOOLEAN /\ signal \in BOOLEAN /\ requested \in BOOLEAN
    /\ callback \in BOOLEAN /\ running \in BOOLEAN /\ retryable \in BOOLEAN

PortTypeOK ==
    /\ config \in {"YAMUX_TLS", "QUIC"}
    /\ queue \in Seq(Commands)
    /\ completed_ticket \in 0..TicketMax

ApiTypeOK ==
    /\ api \in Callers \cup {NoCaller}
    /\ next_ticket \in 0..TicketMax
    /\ stop_ticket \in 0..TicketMax

CallTypeOK ==
    /\ call \in [Callers -> {"idle", "check", "wait", "exit", "join"}]
    /\ op \in [Callers -> {"stop", "destroy"}]
    /\ poll \in [Callers -> BOOLEAN]
    /\ expired \in [Callers -> BOOLEAN]

RunTypeOK ==
    /\ pc \in {"receive", "create_start", "create_retry", "step", "complete", "signal", "exited"}
    /\ phase \in Phases
    /\ error \in Results
    /\ worker_stop_ticket \in 0..TicketMax

RetryTypeOK ==
    /\ retry_at \in {"zero", "future", "due"}
    /\ retry_delay \in RetryDelays
    /\ ready_at \in {"zero", "recent", "ready60", "drained60"}
    /\ failure_streak \in 0..5

SessionTypeOK ==
    /\ res \in [Resources -> ResourceStates]
    /\ sphase \in SessionPhases
    /\ spongs \in 0..MaxPongs
    /\ pongs \in 0..MaxPongs
    /\ pong_total \in 0..MaxPongs

TypeOK ==
    /\ FlagsTypeOK /\ PortTypeOK /\ ApiTypeOK /\ CallTypeOK
    /\ RunTypeOK /\ RetryTypeOK /\ SessionTypeOK

-----------------------------------------------------------------------------
NoResources == [r \in Resources |-> "none"]

\* create_client: a stopped client and its idle worker.
Init ==
    /\ alive = TRUE
    /\ config \in {"YAMUX_TLS", "QUIC"}
    /\ queue = <<>> /\ signal = FALSE
    /\ api = NoCaller /\ requested = FALSE
    /\ next_ticket = 0 /\ stop_ticket = 0 /\ completed_ticket = 0
    /\ call = [p \in Callers |-> "idle"]
    /\ op = [p \in Callers |-> "stop"]
    /\ poll = [p \in Callers |-> FALSE]
    /\ expired = [p \in Callers |-> FALSE]
    /\ pc = "receive" /\ callback = FALSE
    /\ phase = "STOPPED" /\ error = "OK"
    /\ retry_at = "zero" /\ retry_delay = 0 /\ ready_at = "zero"
    /\ failure_streak = 0
    /\ running = FALSE /\ retryable = FALSE /\ worker_stop_ticket = 0
    /\ res = NoResources
    /\ sphase = "AUTHENTICATING" /\ spongs = 0 /\ pongs = 0 /\ pong_total = 0

-----------------------------------------------------------------------------
(* The public calls.  A lifecycle call that finds the API lock taken, or   *)
(* that is made from a callback, returns WOULD_BLOCK or INVALID_STATE and  *)
(* changes nothing.  Destruction is serialized with every other call by    *)
(* the application, as esp_frp.h requires.                                 *)

Room == Len(queue) < Capacity

MayCall(p) ==
    /\ alive
    /\ call[p] = "idle"
    /\ api = NoCaller
    /\ \A q \in Callers : op[q] = "destroy" => call[q] = "idle"

\* A call is over and its locals are gone.
Finish(p) ==
    /\ call' = [call EXCEPT ![p] = "idle"]
    /\ op' = [op EXCEPT ![p] = "stop"]
    /\ poll' = [poll EXCEPT ![p] = FALSE]
    /\ expired' = [expired EXCEPT ![p] = FALSE]

Return(p) == api' = NoCaller /\ Finish(p)

\* efrp_start: enqueue START unless one is in force or a stop is unfinished.
efrp_start(p) ==
    /\ MayCall(p)
    /\ ~requested /\ stop_ticket = 0
    /\ Room
    /\ queue' = Append(queue, START)
    /\ requested' = TRUE
    /\ UNCHANGED <<alive, config, signal, api, next_ticket, stop_ticket, callVars,
                   completed_ticket, workerVars>>

\* Whether stop_locked has to enqueue STOP.
NeedsStop == stop_ticket = 0

\* stop_locked up to its loop.  Nothing to stop: OK at once, and a destroy goes
\* on to EXIT.  No request in force yet: take a ticket, enqueue STOP.
StopEnter(p, o, zero) ==
    /\ MayCall(p)
    /\ o = "destroy" => \A q \in Callers : call[q] = "idle"
    /\ IF ~requested /\ stop_ticket = 0
       THEN /\ o = "destroy"
            /\ call' = [call EXCEPT ![p] = "exit"]
            /\ api' = p
            /\ UNCHANGED <<queue, requested, next_ticket, stop_ticket>>
       ELSE IF NeedsStop
       THEN /\ next_ticket # TicketMax
            /\ Room
            /\ queue' = Append(queue, STOP(next_ticket + 1))
            /\ next_ticket' = next_ticket + 1
            /\ stop_ticket' = next_ticket + 1
            /\ requested' = FALSE
            /\ call' = [call EXCEPT ![p] = "check"]
            /\ api' = p
       ELSE /\ call' = [call EXCEPT ![p] = "check"]
            /\ api' = p
            /\ UNCHANGED <<queue, requested, next_ticket, stop_ticket>>
    /\ op' = [op EXCEPT ![p] = o]
    /\ poll' = [poll EXCEPT ![p] = zero]
    /\ expired' = [expired EXCEPT ![p] = FALSE]
    /\ UNCHANGED <<alive, config, signal, completed_ticket, workerVars>>

\* The ticket counter is used up: COUNTER_EXHAUSTED, and the client runs on.
StopExhausted(p) ==
    /\ MayCall(p)
    /\ requested /\ next_ticket = TicketMax
    /\ UNCHANGED vars

\* One turn of stop_locked's loop: OK (and, for a destroy, on to EXIT), or
\* WOULD_BLOCK, or TIMEOUT, or wait for the signal.
StopCheck(p) ==
    /\ call[p] = "check"
    /\ IF completed_ticket = stop_ticket
       THEN /\ stop_ticket' = 0
            /\ IF op[p] = "destroy"
               THEN call' = [call EXCEPT ![p] = "exit"] /\ UNCHANGED <<api, op, poll, expired>>
               ELSE Return(p)
       ELSE /\ UNCHANGED stop_ticket
            /\ IF poll[p] \/ expired[p]
               THEN Return(p)
               ELSE call' = [call EXCEPT ![p] = "wait"] /\ UNCHANGED <<api, op, poll, expired>>
    /\ UNCHANGED <<alive, config, portVars, requested, next_ticket, completed_ticket, workerVars>>

\* efrp_port_wait: the binary semaphore is taken, or the wait times out.
StopWait(p) ==
    /\ call[p] = "wait"
    /\ signal \/ expired[p]
    /\ signal' = FALSE
    /\ call' = [call EXCEPT ![p] = "check"]
    /\ UNCHANGED <<alive, config, queue, apiVars, op, poll, expired, completed_ticket, workerVars>>

Expire(p) ==
    /\ call[p] \in {"check", "wait"} /\ ~poll[p] /\ ~expired[p]
    /\ expired' = [expired EXCEPT ![p] = TRUE]
    /\ UNCHANGED <<alive, config, portVars, apiVars, call, op, poll, completed_ticket, workerVars>>

\* efrp_destroy after a successful stop: send EXIT, release the API lock, join.
DestroyExit(p) ==
    /\ call[p] = "exit"
    /\ Room
    /\ queue' = Append(queue, EXIT)
    /\ api' = NoCaller
    /\ call' = [call EXCEPT ![p] = "join"]
    /\ UNCHANGED <<alive, config, signal, requested, next_ticket, stop_ticket, op, poll,
                   expired, completed_ticket, workerVars>>

\* efrp_port_destroy: the task is seen suspended, then everything is freed.
WorkerJoined == pc = "exited"

DestroyJoin(p) ==
    /\ call[p] = "join"
    /\ WorkerJoined
    /\ alive' = FALSE
    /\ Finish(p)
    /\ UNCHANGED <<config, portVars, apiVars, completed_ticket, workerVars>>

\* A destroyed client is gone; efrp_create makes another one.
Destroyed == ~alive /\ UNCHANGED vars

-----------------------------------------------------------------------------
(* The worker task.  A phase change runs the application's callback on the *)
(* worker; no worker step is taken until it returns.  Every action that    *)
(* changes the status publishes it, so the snapshot equals the status      *)
(* fields between actions.                                                 *)

\* phase(): set, publish, and run on_event if the value changed.
SetPhase(value) ==
    /\ phase' = value
    /\ callback' = (phase # value)

CallbackReturns ==
    /\ callback
    /\ callback' = FALSE
    /\ UNCHANGED <<outside, pc, phase, error, retryVars, runVars, res, sessionVars>>

At(place) == pc = place /\ ~callback

\* The part of drain() that classifies the failure.  A bare TCP EOF below TLS
\* is a transport interruption, an authenticated but truncated frame is not.
Retryable(e, bareEof, r) ==
    e = "NETWORK" \/ (e = "TRUNCATED" /\ bareEof /\ r["tls"] # "none")

CancelAll(r) == [x \in Resources |-> IF r[x] = "open" THEN "cancelled" ELSE r[x]]

\* session_status(): the counters of earlier sessions are added.
Cumulative(k) == pong_total + k

\* drain(e), with the resources r held and the session's pong count k when it
\* is called.  The session's status is not read again.
Drain(e, r, k) ==
    /\ IF phase # "DRAINING"
       THEN /\ pongs' = IF r["session"] # "none" THEN Cumulative(k) ELSE pongs
            /\ pong_total' = pongs'
            /\ \E bareEof \in BOOLEAN : retryable' = Retryable(e, bareEof, r)
            /\ res' = CancelAll(r)
            /\ sphase' = "AUTHENTICATING" /\ spongs' = 0
       ELSE UNCHANGED <<sessionVars, retryable, res>>
    /\ error' = e
    /\ retry_at' = "zero" /\ retry_delay' = 0
    /\ SetPhase("DRAINING")

\* begin() up to its phase change; BeginOpens and BeginFails are the rest.
Begin ==
    /\ ready_at' = "zero" /\ retry_at' = "zero" /\ retry_delay' = 0
    /\ SetPhase("CONNECTING")

\* efrp_port_receive returns without a command: one tick while active, until
\* retry_at (rounded to ticks, so possibly early) in backoff, never while idle.
MayTimeout == running \/ phase = "DRAINING"

ReceiveTimeout ==
    /\ At("receive") /\ queue = <<>> /\ MayTimeout
    /\ pc' = "step"
    /\ UNCHANGED <<outside, statusVars, retryVars, runVars, res, sessionVars>>

ReceiveStart ==
    /\ At("receive") /\ queue # <<>> /\ Head(queue).kind = "START"
    /\ queue' = Tail(queue)
    /\ running' = TRUE /\ failure_streak' = 0 /\ error' = "OK"
    /\ Begin
    /\ pc' = "create_start"
    /\ UNCHANGED <<alive, config, signal, apiVars, callVars, completed_ticket, retryable,
                   worker_stop_ticket, res, sessionVars>>

ReceiveStop ==
    /\ At("receive") /\ queue # <<>> /\ Head(queue).kind = "STOP"
    /\ queue' = Tail(queue)
    /\ running' = FALSE
    /\ worker_stop_ticket' = Head(queue).ticket
    /\ Drain("CANCELLED", res, spongs)
    /\ pc' = "step"
    /\ UNCHANGED <<alive, config, signal, apiVars, callVars, completed_ticket, ready_at,
                   failure_streak>>

ReceiveExit ==
    /\ At("receive") /\ queue # <<>> /\ Head(queue).kind = "EXIT"
    /\ queue' = Tail(queue)
    /\ pc' = "exited"
    /\ UNCHANGED <<alive, config, signal, apiVars, callVars, completed_ticket, statusVars,
                   retryVars, runVars, res, sessionVars>>

\* Where begin() returns to: step() follows a START, the loop follows a retry.
AfterBegin == IF pc = "create_start" THEN "step" ELSE "receive"

AtCreate == (At("create_start") \/ At("create_retry"))

\* The rest of begin(): the first resource of an attempt.
BeginOpens ==
    /\ AtCreate
    /\ res' = [res EXCEPT ![IF config = "QUIC" THEN "transport" ELSE "connection"] = "open"]
    /\ pc' = AfterBegin
    /\ UNCHANGED <<outside, statusVars, retryVars, runVars, sessionVars>>

BeginFails ==
    /\ AtCreate
    /\ \E e \in Errors \cup {"TIME_UNTRUSTED"} : Drain(e, res, spongs)
    /\ pc' = AfterBegin
    /\ UNCHANGED <<outside, ready_at, failure_streak, running, worker_stop_ticket>>

-----------------------------------------------------------------------------
(* step() *)

\* A cancelled object finishes what it still owns: the late DNS callback, the
\* close of a socket, the QUIC CONNECTION_CLOSE, the local sockets of streams.
ResourceDrains(r) ==
    /\ res[r] = "cancelled" /\ r # "tls"
    /\ res' = [res EXCEPT ![r] = "drained"]
    /\ UNCHANGED <<outside, pc, statusVars, retryVars, runVars, sessionVars>>

\* The order in which cleanup() destroys; tls never refuses.
Mut_Order == <<"session", "connection", "tls", "transport">>
Order == <<"session", "transport", "tls", "connection">>
Yields(r) == r = "tls" \/ res[r] \in {"none", "drained"}
Released(i) == \A j \in 1..i : Yields(Order[j])
Cleanup == [r \in Resources |->
               IF \E i \in 1..4 : Order[i] = r /\ Released(i) THEN "none" ELSE res[r]]
CleanupDone == Cleanup = NoResources

AtStep == At("step")

StepDrainBlocked ==
    /\ AtStep /\ phase = "DRAINING" /\ ~CleanupDone
    /\ res' = Cleanup
    /\ pc' = "receive"
    /\ UNCHANGED <<outside, statusVars, retryVars, runVars, sessionVars>>

\* Everything is released and nobody wants the client to run: publish STOPPED,
\* let the callback return, only then confirm the stop.
Mut_StepStopped ==
    /\ AtStep /\ phase = "DRAINING" /\ CleanupDone /\ ~running
    /\ res' = Cleanup
    /\ SetPhase("STOPPED")
    /\ completed_ticket' = worker_stop_ticket
    /\ pc' = "signal"
    /\ UNCHANGED <<alive, config, portVars, apiVars, callVars, error, retryVars, runVars,
                   sessionVars>>
StepStopped ==
    /\ AtStep /\ phase = "DRAINING" /\ CleanupDone /\ ~running
    /\ res' = Cleanup
    /\ SetPhase("STOPPED")
    /\ pc' = "complete"
    /\ UNCHANGED <<outside, error, retryVars, runVars, sessionVars>>

StopCompletes ==
    /\ At("complete")
    /\ completed_ticket' = worker_stop_ticket
    /\ pc' = "signal"
    /\ UNCHANGED <<alive, config, portVars, apiVars, callVars, statusVars, retryVars,
                   runVars, res, sessionVars>>

Mut_StopSignals ==
    /\ At("signal")
    /\ pc' = "receive"
    /\ UNCHANGED <<outside, statusVars, retryVars, runVars, res, sessionVars>>
StopSignals ==
    /\ At("signal")
    /\ signal' = TRUE
    /\ pc' = "receive"
    /\ UNCHANGED <<alive, config, queue, apiVars, callVars, completed_ticket, statusVars,
                   retryVars, runVars, res, sessionVars>>

\* Milliseconds: 1000 << streak below five, then 30000; equal jitter.
Ladder == <<1000, 2000, 4000, 8000, 16000, 30000>>
Ceiling(streak) == Ladder[streak + 1]
Delay(ceiling, random) == (ceiling \div 2) + (random % ((ceiling \div 2) + 1))

\* failure_streak as backoff() uses it: forgotten 60 s after READY was reached.
Streak == IF ready_at \in {"ready60", "drained60"} THEN 0 ELSE failure_streak
NextStreak == IF Streak < 5 THEN Streak + 1 ELSE Streak

StepBackoffScheduled ==
    /\ AtStep /\ phase = "DRAINING" /\ CleanupDone /\ running /\ retryable
    /\ res' = Cleanup
    /\ failure_streak' = NextStreak
    /\ \E random \in Randoms : retry_delay' = Delay(Ceiling(Streak), random)
    /\ retry_at' = "future"
    /\ SetPhase("BACKOFF")
    /\ pc' = "receive"
    /\ UNCHANGED <<outside, error, ready_at, runVars, sessionVars>>

\* The random number generator fails.
StepBackoffRandomFails ==
    /\ AtStep /\ phase = "DRAINING" /\ CleanupDone /\ running /\ retryable
    /\ res' = Cleanup
    /\ failure_streak' = NextStreak
    /\ error' = "RANDOM"
    /\ running' = FALSE
    /\ SetPhase("FAILED")
    /\ pc' = "receive"
    /\ UNCHANGED <<outside, retry_at, retry_delay, ready_at, retryable, worker_stop_ticket,
                   sessionVars>>

StepFailed ==
    /\ AtStep /\ phase = "DRAINING" /\ CleanupDone /\ running /\ ~retryable
    /\ res' = Cleanup
    /\ running' = FALSE
    /\ SetPhase("FAILED")
    /\ pc' = "receive"
    /\ UNCHANGED <<outside, error, retryVars, retryable, worker_stop_ticket, sessionVars>>

\* Nothing to do in this turn: not yet time to retry, or the connection or the
\* handshake would block.
StepWaits ==
    /\ AtStep /\ running
    /\ \/ phase = "BACKOFF" /\ retry_at # "due"
       \/ phase \in {"CONNECTING", "TLS_HANDSHAKING"}
    /\ pc' = "receive"
    /\ UNCHANGED <<outside, statusVars, retryVars, runVars, res, sessionVars>>

StepRetries ==
    /\ AtStep /\ running /\ phase = "BACKOFF" /\ retry_at = "due"
    /\ Begin
    /\ pc' = "create_retry"
    /\ UNCHANGED <<outside, error, failure_streak, runVars, res, sessionVars>>

Connecting == running /\ phase \in {"CONNECTING", "TLS_HANDSHAKING"}
Active == running /\ phase \in {"AUTHENTICATING", "REGISTERING", "READY"}

\* Trusted time is lost, or the connection, TLS or transport step in force
\* fails, or what it would create next cannot be created.
Creates == IF phase = "TLS_HANDSHAKING" /\ config = "YAMUX_TLS" THEN {{}, {"transport"}} ELSE {{}}

StepFails ==
    /\ AtStep /\ Connecting
    /\ \E e \in Errors \cup {"TIME_UNTRUSTED"}, made \in Creates :
          Drain(e, [r \in Resources |-> IF r \in made THEN "open" ELSE res[r]], spongs)
    /\ pc' = "receive"
    /\ UNCHANGED <<outside, ready_at, failure_streak, running, worker_stop_ticket>>

\* The transport is connected: TLS starts (on QUIC, inside the transport).
StepConnected ==
    /\ AtStep /\ running /\ phase = "CONNECTING"
    /\ res' = IF config = "QUIC" THEN res ELSE [res EXCEPT !["tls"] = "open"]
    /\ SetPhase("TLS_HANDSHAKING")
    /\ pc' = "receive"
    /\ UNCHANGED <<outside, error, retryVars, runVars, sessionVars>>

\* The handshake is complete: the transport is open and a session logs in.
StepAuthenticates ==
    /\ AtStep /\ running
    /\ phase = "TLS_HANDSHAKING" \/ (config = "QUIC" /\ phase = "CONNECTING")
    /\ res' = [res EXCEPT !["transport"] = "open", !["session"] = "open"]
    /\ sphase' = "AUTHENTICATING" /\ spongs' = 0
    /\ SetPhase("AUTHENTICATING")
    /\ pc' = "receive"
    /\ UNCHANGED <<outside, error, retryVars, runVars, pongs, pong_total>>

\* What efrp_session_step may report: the session's phase only advances, and
\* Pongs are counted once it has logged in.
SessionProgress(s, k) ==
    /\ sphase = "REGISTERING" => s # "AUTHENTICATING"
    /\ sphase = "REGISTERED" => s = "REGISTERED"
    /\ k \in {spongs, spongs + 1} /\ pong_total + k <= MaxPongs
    /\ k > spongs => s # "AUTHENTICATING"

StepSession ==
    /\ AtStep /\ Active
    /\ \E s \in SessionPhases, k \in 0..MaxPongs :
          /\ SessionProgress(s, k)
          /\ sphase' = s /\ spongs' = k
          /\ pongs' = Cumulative(k)
          /\ IF s = "REGISTERED" /\ k > 0
             THEN /\ SetPhase("READY")
                  /\ ready_at' = IF phase # "READY" THEN "recent" ELSE ready_at
                  /\ error' = IF phase # "READY" THEN "OK" ELSE error
             ELSE /\ SetPhase(IF s = "AUTHENTICATING" THEN phase ELSE "REGISTERING")
                  /\ UNCHANGED <<ready_at, error>>
    /\ pc' = "receive"
    /\ UNCHANGED <<outside, retry_at, retry_delay, failure_streak, runVars, res,
                   pong_total>>

\* The session fails, possibly after it has made progress in the same step.
StepSessionFails ==
    /\ AtStep /\ Active
    /\ \E s \in SessionPhases, k \in 0..MaxPongs, e \in Errors \cup {"TIME_UNTRUSTED"} :
          SessionProgress(s, k) /\ Drain(e, res, k)
    /\ pc' = "receive"
    /\ UNCHANGED <<outside, ready_at, failure_streak, running, worker_stop_ticket>>

-----------------------------------------------------------------------------
(* The monotonic clock. *)
RetryBecomesDue ==
    /\ retry_at = "future"
    /\ retry_at' = "due"
    /\ UNCHANGED <<outside, pc, statusVars, retry_delay, ready_at, failure_streak, runVars,
                   res, sessionVars>>

\* Sixty seconds have passed since READY: during READY, or only afterwards.
SixtySeconds ==
    /\ ready_at = "recent"
    /\ ready_at' = IF phase = "READY" THEN "ready60" ELSE "drained60"
    /\ UNCHANGED <<outside, pc, statusVars, retry_at, retry_delay, failure_streak, runVars,
                   res, sessionVars>>

-----------------------------------------------------------------------------
Receive == ReceiveTimeout \/ ReceiveStart \/ ReceiveStop \/ ReceiveExit
Opening == BeginOpens \/ BeginFails
StepDraining ==
    \/ StepDrainBlocked \/ StepStopped \/ StopCompletes \/ StopSignals
    \/ StepBackoffScheduled \/ StepBackoffRandomFails \/ StepFailed
StepRunning ==
    \/ StepWaits \/ StepRetries \/ StepFails \/ StepConnected \/ StepAuthenticates
    \/ StepSession \/ StepSessionFails

Worker == Receive \/ Opening \/ StepDraining \/ StepRunning

CallStep(p) == StopCheck(p) \/ StopWait(p) \/ DestroyExit(p) \/ DestroyJoin(p)

Next ==
    \/ \E p \in Callers :
          \/ efrp_start(p)
          \/ \E o \in {"stop", "destroy"}, zero \in BOOLEAN : StopEnter(p, o, zero)
          \/ StopExhausted(p)
          \/ CallStep(p)
          \/ Expire(p)
    \/ Destroyed
    \/ CallbackReturns
    \/ Worker
    \/ \E r \in Resources : ResourceDrains(r)
    \/ RetryBecomesDue
    \/ SixtySeconds

Spec == Init /\ [][Next]_vars

\* The scheduler runs the worker and the caller inside a call, callbacks return
\* (the header forbids them to block), the clock advances to a retry, and a
\* cancelled object stops refusing.  No task is obliged to make a call, no stop
\* timeout is obliged to expire and no session is obliged to become ready.
Fairness ==
    /\ WF_vars(Worker)
    /\ WF_vars(CallbackReturns)
    /\ \A p \in Callers : WF_vars(CallStep(p))
    /\ \A r \in Resources : WF_vars(ResourceDrains(r))
    /\ WF_vars(RetryBecomesDue)

FairSpec == Spec /\ Fairness

-----------------------------------------------------------------------------
(* What the client promises. *)

\* The worker owns nothing, does nothing and has left every callback.
Quiet ==
    /\ phase = "STOPPED" /\ ~running /\ ~callback
    /\ res = NoResources
    /\ pc \in {"receive", "signal", "exited"}

\* "Only OK proves STOPPED; no callback follows until another start"
\* (esp_frp.h): once a stop has returned OK, that is whenever neither a start
\* nor a stop is in force, the worker is quiet and the queue holds nothing that
\* could wake it up but the EXIT of a destroy.
StopOkIsQuiet ==
    alive /\ ~requested /\ stop_ticket = 0 => Quiet /\ queue \in {<<>>, <<EXIT>>}

\* The worker is between START and the end of its drain.
Busy ==
    /\ pc \in {"receive", "step", "create_start", "create_retry"}
    /\ phase # "STOPPED"
    /\ running \/ (phase = "FAILED" /\ pc = "receive")
    /\ pc \in {"create_start", "create_retry"} => phase = "CONNECTING"

\* What the worker may be doing for every content of the queue.
IdleStage ==
    /\ ~requested /\ stop_ticket = 0 /\ queue = <<>> /\ Quiet /\ pc # "exited"
    /\ \A p \in Callers : call[p] # "join"
ExitStage ==
    /\ ~requested /\ stop_ticket = 0 /\ Quiet
    /\ IF pc = "exited" THEN queue = <<>> ELSE queue = <<EXIT>> /\ alive
    /\ alive => \E p \in Callers : call[p] = "join"
StartQueued == requested /\ queue = <<START>> /\ Quiet /\ pc # "exited"
Started == requested /\ queue = <<>> /\ Busy
StopPending == stop_ticket # 0 /\ completed_ticket < stop_ticket
StartStopQueued == StopPending /\ queue = <<START, STOP(stop_ticket)>> /\ Quiet /\ pc # "exited"
StopQueued == StopPending /\ queue = <<STOP(stop_ticket)>> /\ Busy
Stopping ==
    /\ StopPending /\ queue = <<>> /\ ~running /\ worker_stop_ticket = stop_ticket
    /\ \/ phase = "DRAINING" /\ pc \in {"receive", "step"}
       \/ phase = "STOPPED" /\ pc = "complete" /\ res = NoResources
StopDone ==
    stop_ticket # 0 /\ completed_ticket = stop_ticket /\ queue = <<>> /\ Quiet /\ pc # "exited"

Stage == \/ IdleStage \/ ExitStage \/ StartQueued \/ Started
         \/ StartStopQueued \/ StopQueued \/ Stopping \/ StopDone

TicketOrder ==
    /\ stop_ticket \in {0, next_ticket}
    /\ completed_ticket <= next_ticket
    /\ stop_ticket # 0 => ~requested

LockHeld ==
    \A p \in Callers :
       /\ call[p] # "idle" => alive
       /\ call[p] \in {"check", "wait", "exit"} => api = p
       /\ call[p] \in {"check", "wait"} => stop_ticket # 0
       /\ call[p] \in {"exit", "join"} => ~requested /\ stop_ticket = 0 /\ op[p] = "destroy"

DestroyAlone ==
    \A p, q \in Callers : call[p] # "idle" /\ op[p] = "destroy" /\ q # p => call[q] = "idle"

\* The inductive form of StopOkIsQuiet.  The lock, the tickets, the commands in
\* the queue and the worker agree: in particular the ticket a stop waits for is
\* confirmed only by the STOP that carries it, after the drain it caused.
Handshake == TicketOrder /\ LockHeld /\ DestroyAlone /\ Stage

\* Every object outlives its users (cleanup() destroys session, transport, tls,
\* connection in that order), nothing stays uncancelled while draining, and a
\* retry, a failure or a stop is reported only when the attempt is released; and
\* the object that step() uses in a phase without testing it for NULL exists.
OwnershipOrder ==
    /\ res["session"] # "none" => res["transport"] # "none"
    /\ config = "YAMUX_TLS" /\ res["transport"] # "none" => res["tls"] # "none"
    /\ res["tls"] # "none" => res["connection"] # "none"
    /\ phase = "DRAINING" => \A r \in Resources : res[r] # "open"
    /\ phase \in {"STOPPED", "BACKOFF", "FAILED"} => res = NoResources
    /\ Active => res["session"] = "open"
    /\ running /\ phase = "TLS_HANDSHAKING" /\ config = "YAMUX_TLS" => res["tls"] = "open"
    /\ Connecting /\ pc \in {"receive", "step"} =>
          res[IF config = "QUIC" THEN "transport" ELSE "connection"] = "open"

\* A repeated stop does not enqueue again: at most a START and its STOP wait in
\* the queue, so no send finds it full and CAPACITY_EXCEEDED is never returned.
QueueHasRoom == Len(queue) <= 2 /\ Len(queue) < Capacity

\* efrp_destroy frees the client only after the worker has left its loop.
FreedAfterExit == ~alive => pc = "exited"

\* A stop request in force is confirmed whatever the worker was doing, and no
\* wakeup is lost: a waiting stop returns although its timeout never expires.
StopReturns ==
    /\ stop_ticket # 0 ~> stop_ticket = completed_ticket
    /\ \A p \in Callers : call[p] = "wait" ~> call[p] \in {"idle", "exit"}
=============================================================================
