------------------------------ MODULE MCWaiting ------------------------------
(***************************************************************************)
(* The instances of WsConnection, Registration and JavaFuture that TLC     *)
(* checks: three places where someone waits for what may not come.  A      *)
(* behaviour is one of the three; the others stay in their initial states. *)
(***************************************************************************)
EXTENDS WsConnection, Registration, JavaFuture

\* An app that chains futures in the one or the other way; the websocket and the
\* registration service are checked beside one of the two.
Alone == use = CHOOSE u \in Uses : TRUE

WsStep(step) == step /\ Init /\ FutureInit /\ Alone /\ UNCHANGED <<vars, futureVars>>

CallStep(step) == step /\ WsInit /\ FutureInit /\ Alone /\ UNCHANGED <<wsVars, futureVars>>

FutureStep(step) == step /\ WsInit /\ Init /\ UNCHANGED <<wsVars, vars, use>>

WaitingInit == WsInit /\ Init /\ FutureInit

WaitingNext == WsStep(WsNext) \/ CallStep(Next) \/ FutureStep(Step)

waitingVars == <<wsVars, vars, futureVars>>

\* The websocket: time passes, the owner calls again, a write ends (nothing in
\* handle_next_event limits it, so this is an assumption about the socket), and
\* select! does not pass over a timer that is due for ever.
WsFairness ==
    /\ WF_wsVars(WsStep(Tick))
    /\ WF_wsVars(WsStep(NextCall))
    /\ WF_wsVars(WsStep(PingSent \/ MessageSent \/ MessageFailed \/ CloseSent \/ WriteFails))
    /\ SF_wsVars(WsStep(ConnectionIdle))
    /\ SF_wsVars(WsStep(RemoteDisconnectedTimeout))

\* The registration service: the runtime polls the call and the tasks, and timers
\* fire.  The first conjunct is an assumption about the network: service.rs
\* repeats a connect for as long as it fails with an error it may retry.
CallFairness ==
    /\ WF_vars(CallStep(ConnectEnds))
    /\ WF_vars(CallStep(Caller))
    /\ \A k \in 1 .. MaxConns : WF_vars(CallStep(IF k \in Conns THEN Task(k) ELSE FALSE))

\* The futures: threads run, the app gives its lock back, and a task whose
\* cancellation was asked for ends (tokio::select! in every bridged call).
FutureFairness ==
    /\ \A t \in Threads : WF_steps(FutureStep(ThreadStep(t)))
    /\ \A a \in Apps : WF_steps(FutureStep(ReleaseLock(a)))
    /\ \A i \in Ids :
          /\ WF_steps(FutureStep(Report(i)))
          /\ WF_steps(FutureStep(/\ task[i].closed
                                 /\ \E o \in {"value", "cancelled"} : Finishes(i, o)
                                 /\ UNCHANGED <<fut, base, work, lock, calls>>))

WaitingSpec ==
    WaitingInit /\ [][WaitingNext]_waitingVars /\ WsFairness /\ CallFairness /\ FutureFairness

==============================================================================
