-------------------------------- MODULE MCChat --------------------------------
(* The instance of ChatConnection that TLC checks. *)
EXTENDS ChatConnection, FiniteSets

Calls == Cardinality({c \in Sends : pc[c] # "idle"})

Pushed == \E i \in DOMAIN heard : heard[i] = "ReceivedMessage"

\* A request of the server, and network changes with interface checks, are each
\* combined with one call of send; two calls run without them.
Situations ==
    /\ Pushed => Calls =< 1 /\ network.seen = 0
    /\ network.seen > 0 => Calls =< 1
    /\ (\E o \in oldest : o.checks > 0) => network.seen > 0

\* The runtime polls every future that can go on, select! chooses at random among
\* the branches that are ready, the listener returns and a write ends.
ChatFairness ==
    /\ \A c \in Sends : /\ WF_vars(Enqueue(c))
                        /\ WF_vars(Await(c))
                        /\ WF_vars(JoinTask(c))
                        /\ WF_vars(TaskJoined(c))
    /\ SF_vars(TakeRequest)
    /\ SF_vars(TakeResponse)
    /\ SF_vars(ClientDisconnect)
    /\ WF_vars(Sent \/ SendFailed)
    /\ WF_vars(ListenerSteps)
    /\ WF_vars(TaskReturns)

ChatSpec == Init /\ [][Next /\ Situations']_vars /\ ChatFairness

===============================================================================
