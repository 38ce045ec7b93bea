----------------------------- MODULE JavaFuture -----------------------------
(***************************************************************************)
(* CompletableFuture, the future the Java API returns.  App threads chain  *)
(* futures, cancel them and hold a lock of their own, which the functions  *)
(* they pass need too; the threads of the runtime complete the futures of  *)
(* native calls.                                                           *)
(*                                                                         *)
(* work[t] is the call stack of a thread: what it still has to do before   *)
(* its call returns, the innermost first.                                  *)
(***************************************************************************)
EXTENDS AsyncContext, Sequences, SequencesExt, FiniteSets

CONSTANTS
    MaxFutures, MaxAppCalls,   \* bounds on the futures and on the calls of the app
    Apps                    \* the threads of the app

\* The methods an app chains futures with, and how the functions it passes end.
Uses == {[kinds |-> {"apply", "when"}, outcomes |-> {"returns"}],
         [kinds |-> {"handle", "compose"}, outcomes |-> {"returns", "throws", "error"}]}

Futures == 1 .. MaxFutures
Threads == Apps \cup Ids

VARIABLES fut,      \* the futures; id is that of the task they can cancel, 0 for none; saw is
                    \* history: the outcomes their consumer was called with
          base,     \* the future each native call returned
          work, lock, calls,
          use       \* what this app does, of Uses

steps == <<tasks, next, task, fut, base, work, lock, calls>>
futureVars == <<steps, use>>

NoThread == 0
NoFuture == [made |-> FALSE, done |-> "no", consumers |-> << >>, id |-> 0, monitor |-> NoThread,
             parent |-> 0, kind |-> "none", saw |-> << >>]
Unmade == {f \in Futures : ~ fut[f].made}
NextFuture == CHOOSE f \in Unmade : \A g \in Unmade : f =< g

\* A native call has returned a future that was made cancelable.
FutureInit ==
    /\ tasks = {1} /\ next = 2
    /\ task = [i \in Ids |-> IF i = 1 THEN [NoTask EXCEPT !.at = "running"] ELSE NoTask]
    /\ fut = [f \in Futures |-> IF f = 1 THEN [NoFuture EXCEPT !.made = TRUE, !.id = 1] ELSE NoFuture]
    /\ base = [i \in Ids |-> IF i = 1 THEN 1 ELSE 0]
    /\ work = [t \in Threads |-> << >>] /\ lock = NoThread /\ calls = 0
    /\ use \in Uses

-----------------------------------------------------------------------------
(* Calls of the app                                                        *)

Call(a) == work[a] = << >> /\ calls < MaxAppCalls /\ calls' = calls + 1

\* thenApply, whenComplete, handle, thenCompose up to addCompleter.
Then(a, f, kind) ==
    /\ Call(a) /\ fut[f].made /\ Unmade # {}
    /\ fut' = [fut EXCEPT ![NextFuture] =
                  [NoFuture EXCEPT !.made = TRUE, !.id = fut[f].id, !.parent = f, !.kind = kind]]
    /\ work' = [work EXCEPT ![a] = <<[op |-> "add", on |-> f, to |-> NextFuture, kind |-> kind]>>]
    /\ UNCHANGED <<tasks, next, task, base, lock>>

Cancel(a, f) ==
    /\ Call(a) /\ fut[f].made
    /\ work' = [work EXCEPT ![a] = <<[op |-> "cancel", on |-> f, outcome |-> "cancelled"]>>]
    /\ UNCHANGED <<tasks, next, task, fut, base, lock>>

\* The lock of the app, held over calls to futures.
TakeLock(a) ==
    /\ Call(a) /\ lock = NoThread
    /\ lock' = a
    /\ UNCHANGED <<tasks, next, task, fut, base, work>>

ReleaseLock(a) ==
    /\ work[a] = << >> /\ lock = a
    /\ lock' = NoThread
    /\ UNCHANGED <<tasks, next, task, fut, base, work, calls>>

-----------------------------------------------------------------------------
(* The innermost step of a thread                                          *)

Top(t) == Head(work[t])
Doing(t, op) == work[t] # << >> /\ Top(t).op = op
Becomes(t, todo) == work' = [work EXCEPT ![t] = todo \o Tail(@)]

Deliveries(f, outcome) ==
    [i \in DOMAIN fut[f].consumers |->
        [op |-> "deliver", to |-> fut[f].consumers[i].to, kind |-> fut[f].consumers[i].kind, outcome |-> outcome]]

\* complete, completeExceptionally and the first half of cancel: inside the monitor
\* the result is set and the consumers are taken; outside they are called.
Complete(t) ==
    LET f == Top(t).on
        cancels == IF Top(t).op = "cancel" THEN <<[op |-> "native", on |-> f]>> ELSE << >> IN
    /\ Doing(t, "complete") \/ Doing(t, "cancel")
    /\ fut[f].monitor = NoThread
    /\ \/ /\ fut[f].done # "no"
          /\ Becomes(t, << >>) /\ UNCHANGED fut
       \/ /\ fut[f].done = "no"
          /\ fut' = [fut EXCEPT ![f].done = Top(t).outcome, ![f].consumers = << >>, ![f].monitor = t]
          /\ Becomes(t, <<[op |-> "release", on |-> f]>> \o Deliveries(f, Top(t).outcome) \o cancels)
    /\ UNCHANGED <<tasks, next, task, base, lock, calls>>

Release(t) ==
    /\ Doing(t, "release")
    /\ fut' = [fut EXCEPT ![Top(t).on].monitor = NoThread]
    /\ Becomes(t, << >>)
    /\ UNCHANGED <<tasks, next, task, base, lock, calls>>

\* The second half of cancel.
NativeCancel(t) ==
    /\ Doing(t, "native")
    /\ IF fut[Top(t).on].id = 0 THEN UNCHANGED contextVars ELSE CancelTask(fut[Top(t).on].id)
    /\ Becomes(t, << >>)
    /\ UNCHANGED <<fut, base, lock, calls>>

\* Faulty variant: the consumer is added without a look at completed.
AddCompleterBlind(t) ==
    LET h == Top(t) IN
    /\ Doing(t, "add") /\ fut[h.on].monitor = NoThread
    /\ fut' = [fut EXCEPT ![h.on].consumers = Append(@, [to |-> h.to, kind |-> h.kind])]
    /\ Becomes(t, << >>)
    /\ UNCHANGED <<tasks, next, task, base, lock, calls>>

\* Faulty variant: without the return after consumers.add.
AddCompleterTwice(t) ==
    LET h == Top(t) IN
    /\ Doing(t, "add") /\ fut[h.on].monitor = NoThread
    /\ fut' = IF fut[h.on].done # "no" THEN fut
              ELSE [fut EXCEPT ![h.on].consumers = Append(@, [to |-> h.to, kind |-> h.kind])]
    /\ Becomes(t, <<[op |-> "deliver", to |-> h.to, kind |-> h.kind,
                     outcome |-> IF fut[h.on].done = "no" THEN "value" ELSE fut[h.on].done]>>)
    /\ UNCHANGED <<tasks, next, task, base, lock, calls>>

\* addCompleter: a future that is done calls the consumer at once.
AddCompleter(t) ==
    LET h == Top(t) IN
    /\ Doing(t, "add") /\ fut[h.on].monitor = NoThread
    /\ IF fut[h.on].done = "no"
       THEN /\ fut' = [fut EXCEPT ![h.on].consumers = Append(@, [to |-> h.to, kind |-> h.kind])]
            /\ Becomes(t, << >>)
       ELSE /\ Becomes(t, <<[op |-> "deliver", to |-> h.to, kind |-> h.kind, outcome |-> fut[h.on].done]>>)
            /\ UNCHANGED fut
    /\ UNCHANGED <<tasks, next, task, base, lock, calls>>

\* The function of the app is called for this kind of future and outcome.
CallsFn(h) == h.kind \in {"when", "handle"} \/ (h.kind \in {"apply", "compose"} /\ h.outcome = "value")

\* What the returned future completes with when its function returns, or throws an
\* Exception.
Result(h, how) ==
    IF ~ CallsFn(h) THEN h.outcome
    ELSE IF how = "returns" THEN (IF h.kind = "when" THEN h.outcome ELSE "value")
    ELSE IF h.kind = "when" /\ h.outcome # "value" THEN h.outcome
    ELSE "exception"

\* The consumer that completes h.to is called.  The one thenCompose gives to the
\* second future (kind "direct") is not the one of h.to's own parent.
Saw(h) == IF h.kind = "direct" THEN fut ELSE [fut EXCEPT ![h.to].saw = Append(@, h.outcome)]

\* A consumer is called, and its function with the lock of the app.
Deliver(t, how) ==
    LET h == Top(t) IN
    /\ Doing(t, "deliver")
    /\ CallsFn(h) => lock \in {NoThread, t}
    /\ ~ CallsFn(h) => how = "returns"
    /\ how = "error" => h.kind = "handle"
    /\ ~ (h.kind = "compose" /\ h.outcome = "value" /\ how = "returns")
    /\ Becomes(t, <<[op |-> "complete", on |-> h.to, outcome |-> Result(h, how)]>>
                    \o IF h.kind = "handle" THEN <<[op |-> "catch"]>> ELSE << >>)
    /\ fut' = Saw(h)
    /\ UNCHANGED <<tasks, next, task, base, lock, calls>>

\* The function of thenCompose returns the future of another native call.
DeliverCompose(t) ==
    LET h == Top(t) IN
    /\ Doing(t, "deliver") /\ h.kind = "compose" /\ h.outcome = "value"
    /\ lock \in {NoThread, t} /\ Unmade # {}
    /\ \E i \in Ids :
          /\ RunFuture(i)
          /\ fut' = [Saw(h) EXCEPT ![NextFuture] = [NoFuture EXCEPT !.made = TRUE, !.id = i]]
          /\ base' = [base EXCEPT ![i] = NextFuture]
    /\ Becomes(t, <<[op |-> "add", on |-> NextFuture, to |-> h.to, kind |-> "direct"]>>)
    /\ UNCHANGED <<lock, calls>>

\* The function throws an Error, which only handle catches: the call of the thread is
\* left up to the next handle.
Catches(t) == {i \in DOMAIN work[t] : work[t][i].op = "catch"}
DeliverError(t) ==
    /\ Doing(t, "deliver") /\ CallsFn(Top(t)) /\ Top(t).kind # "handle"
    /\ lock \in {NoThread, t}
    /\ work' = [work EXCEPT ![t] = IF Catches(t) = {} THEN << >>
                                   ELSE SubSeq(@, Min(Catches(t)) + 1, Len(@))]
    /\ fut' = Saw(Top(t))
    /\ UNCHANGED <<tasks, next, task, base, lock, calls>>

CatchEnds(t) ==
    /\ Doing(t, "catch") /\ Becomes(t, << >>)
    /\ UNCHANGED <<tasks, next, task, fut, base, lock, calls>>

\* report_to on the thread of the report.
Report(i) ==
    /\ TakeReport(i)
    /\ work' = [work EXCEPT ![i] = <<[op |-> "complete", on |-> base[i], outcome |-> task[i].outcome]>>]
    /\ UNCHANGED <<fut, base, lock, calls>>

ThreadStep(t) ==
    \/ Complete(t) \/ Release(t) \/ NativeCancel(t) \/ AddCompleter(t)
    \/ \E how \in use.outcomes : Deliver(t, how)
    \/ DeliverCompose(t) \/ CatchEnds(t)
    \/ "error" \in use.outcomes /\ DeliverError(t)

Step ==
    \/ \E a \in Apps : \/ TakeLock(a) \/ ReleaseLock(a)
                       \/ \E f \in Futures : Cancel(a, f) \/ \E kind \in use.kinds : Then(a, f, kind)
    \/ \E t \in Threads : ThreadStep(t)
    \/ \E i \in Ids : Report(i) \/ (RuntimeSteps(i) /\ UNCHANGED <<fut, base, work, lock, calls>>)

FutureNext == Step /\ UNCHANGED use

FutureSpec == FutureInit /\ [][FutureNext]_futureVars

-----------------------------------------------------------------------------
(* Properties                                                              *)

\* addCompleter against complete, completeExceptionally and cancel: the function an
\* app chained is called at most once, and with the outcome its future has for good,
\* whichever thread calls it and whoever else tries to complete that future.
ConsumersCalledOnce ==
    \A g \in Futures : fut[g].parent # 0 =>
        fut[g].saw \in {<< >>, <<fut[fut[g].parent].done>>}

\* The future of a native call that f was chained to.
Root[f \in Futures] == IF fut[f].parent = 0 THEN f ELSE Root[fut[f].parent]

\* TokioAsyncContext_cancel by an id that may be long out of use: a task is told to
\* stop only because a future chained to its own call was cancelled, also when that
\* call has ended and thenCompose has begun another.
CancelsOwnTask ==
    \A i \in Ids : task[i].closed =>
        \E f \in Futures : Root[f] = base[i] /\ fut[f].done = "cancelled"

\* No future of the app waits for a second call, and no function throws an Error:
\* thenCompose does not pass a cancellation on to the second call, and an Error
\* leaves the consumers that follow without a result.
Plain == "compose" \notin use.kinds /\ "error" \notin use.outcomes

\* The chained futures whose function can have been called, and that are not done.
Owed == {g \in Futures : /\ fut[g].made /\ fut[g].parent # 0 /\ fut[g].done = "no"
                         /\ fut[fut[g].parent].done # "no"}

\* addCompleter against complete: a future chained to one that is done becomes done,
\* whichever was first.
ChainedCompletes == []<>(Plain => Owed = {})

=============================================================================
