---------------------------- MODULE ConnectState ----------------------------
(***************************************************************************)
(* What connects remember of each other: the failure records of            *)
(* ConnectState (net/src/connect_state.rs, ConnectionOutcomes in           *)
(* net/infra/src/route/schedule.rs), and the network change that clears    *)
(* them (bridge/shared/types/src/net.rs, on_network_change).  A connect    *)
(* subscribes to changes, copies the records under the lock, runs without  *)
(* it, and applies what it learned under the lock again.  A change is told *)
(* to the subscribers first and to the records afterwards.                 *)
(*                                                                         *)
(* How a connect chooses and delays its attempts in between is left out:   *)
(* it ends with any outcomes it can report, each attempt begun at a time   *)
(* of its own.                                                             *)
(***************************************************************************)
EXTENDS Integers, FiniteSets, FiniteSetsExt

CONSTANTS
    Connects,
    Direct, Proxies,                 \* the transport routes
    ShortTermCutoff, LongTermCutoff, \* age_cutoff of the two outcomes
    MaxCount,                        \* max_count
    NETWORK_CHANGE_DEBOUNCE,
    MaxTime, MaxSleep                \* bounds

ASSUME CutoffAssumption == ShortTermCutoff \in Nat \ {0} /\ LongTermCutoff \in Nat \ {0}

AllRoutes == Direct \cup Proxies

VARIABLES
    now,           \* Instant
    slept,         \* how far SystemTime has run ahead of it
    mostRecent,    \* most_recent_network_change
    notifier,      \* on_network_change on its way: [at, cutoff]
    records,       \* attempts_record.recent_failures: per route << >> or <<record>>
    service,       \* service_level_attempts_record, of the one service
    connect        \* per connect: see NotConnecting

stateVars == <<now, slept, mostRecent, notifier, records, service, connect>>

NoRecords == [r \in AllRoutes |-> << >>]
NotConnecting ==
    [at |-> "idle", changed |-> FALSE, snapshot |-> {}, reset |-> FALSE, start |-> 0,
     finished |-> 0, wall |-> 0]

StateInit ==
    /\ now = 0 /\ slept = 0 /\ mostRecent = 0
    /\ notifier = [at |-> "idle", cutoff |-> 0]
    /\ records = NoRecords /\ service = << >>
    /\ connect = [c \in Connects |-> NotConnecting]

-----------------------------------------------------------------------------
(* ConnectionOutcomes                                                      *)

Merge(old, new) == IF "LongTerm" \in {old, new} THEN "LongTerm" ELSE "ShortTerm"

\* ConnectionFailureRecord::new and update.
Failure(old, outcome, started, wall) ==
    [outcome |-> IF old = << >> THEN outcome ELSE Merge(old[1].outcome, outcome),
     started |-> started, wall |-> wall,
     count |-> IF old = << >> THEN 1 ELSE Min({old[1].count + 1, MaxCount})]

AgeCutoff(record) == IF record.outcome = "ShortTerm" THEN ShortTermCutoff ELSE LongTermCutoff

\* saturating_duration_since
Age(at, started) == IF at < started THEN 0 ELSE at - started

AgedOut(old, at) ==
    IF old # << >> /\ Age(at, old[1].started) >= AgeCutoff(old[1]) THEN << >> ELSE old

Failing(recs) == {r \in AllRoutes : recs[r] # << >>}

\* One step of apply_outcome_updates.
Applied(old, outcome, started, wall) ==
    IF outcome = "untried" THEN old
    ELSE IF outcome = "ok" THEN << >> ELSE <<Failure(old, outcome, started, wall)>>

\* reset
Reset(recs, cutoff) ==
    [r \in AllRoutes |->
        IF recs[r] # << >> /\ ~ cutoff < recs[r][1].started THEN << >> ELSE recs[r]]

\* reset_if_system_has_probably_been_asleep
Asleep(old) ==
    /\ old # << >> /\ now + slept >= LongTermCutoff
    /\ ~ now + slept - LongTermCutoff < old[1].wall
Awake(old) == IF Asleep(old) THEN << >> ELSE old

-----------------------------------------------------------------------------
(* A connect                                                               *)

\* ConnectionResources are made, with a receiver that has seen what was sent so
\* far; changed tells whether network_change_event has anything new.
Subscribe(c) ==
    /\ connect[c].at = "idle"
    /\ connect' = [connect EXCEPT ![c].at = "subscribed"]
    /\ UNCHANGED <<now, slept, mostRecent, notifier, records, service>>

\* prepare_snapshot, under the lock.  Of the copy it matters here only when the
\* failures in it began.
PrepareSnapshot(c) ==
    /\ connect[c].at = "subscribed"
    /\ records' = [r \in AllRoutes |-> Awake(records[r])]
    /\ service' = Awake(service)
    /\ connect' = [connect EXCEPT ![c].at = "running", ![c].start = now,
                      ![c].snapshot = {records'[r][1].started : r \in Failing(records')}]
    /\ UNCHANGED <<now, slept, mostRecent, notifier>>

\* ResettingConnectionOutcomes::wants_recalculation.
WantsRecalculation(c) ==
    /\ connect[c].at = "running" /\ ~ connect[c].reset /\ connect[c].changed
    /\ connect' = [connect EXCEPT ![c].reset = TRUE, ![c].changed = FALSE]
    /\ UNCHANGED <<now, slept, mostRecent, notifier, records, service>>

\* connect returns; updates.finished_at and system_now.
Finish(c) ==
    /\ connect[c].at = "running"
    /\ connect' = [connect EXCEPT ![c] =
                     [NotConnecting EXCEPT !.at = "finished", !.start = connect[c].start,
                                           !.finished = now, !.wall = now + slept]]
    /\ UNCHANGED <<now, slept, mostRecent, notifier, records, service>>

\* connect_timeout: the updates are dropped with the future.
TimesOut(c) ==
    /\ connect[c].at = "running"
    /\ connect' = [connect EXCEPT ![c] = NotConnecting]
    /\ UNCHANGED <<now, slept, mostRecent, notifier, records, service>>

\* process_outcomes: failed proxies are remembered longer if a direct route
\* worked and no proxy did.
ProcessOutcomes(outcomes) ==
    LET direct == \E r \in Direct : outcomes[r] = "ok"
        proxy == \E r \in Proxies : outcomes[r] = "ok" IN
    [r \in AllRoutes |->
        IF r \in Proxies /\ outcomes[r] = "ShortTerm" /\ direct /\ ~ proxy THEN "LongTerm"
        ELSE outcomes[r]]

\* What connect_inner may report: failures, and at most one success.
PossibleOutcomes ==
    {o \in [AllRoutes -> {"untried", "ok", "ShortTerm"}] :
        Cardinality({r \in AllRoutes : o[r] = "ok"}) <= 1}

\* service_level_outcome: a success, or failure_for_all_routes of a fatal error.
ServiceOutcomes(outcomes) ==
    IF \E r \in AllRoutes : outcomes[r] = "ok" THEN {"ok"} ELSE {"untried", "ShortTerm"}

\* When the attempts began, each some time after the connect; it is kept of
\* failures only.
StartTimes(c, outcomes) ==
    {s \in [AllRoutes -> connect[c].start .. connect[c].finished] :
        \A r \in AllRoutes : outcomes[r] # "ShortTerm" => s[r] = connect[c].start}

\* Faulty variant: the old records are cleared where they should be aged out.
ApplyUpdatesAfresh(c, outcomes, started, forAll) ==
    LET start == connect[c].start
        wall == connect[c].wall
        processed == ProcessOutcomes(outcomes) IN
    /\ connect[c].at = "finished"
    /\ records' = [r \in AllRoutes |-> Applied(<< >>, processed[r], started[r], wall)]
    /\ service' = Applied(Applied(service, forAll, start, wall), forAll, start, wall)
    /\ connect' = [connect EXCEPT ![c] = NotConnecting]
    /\ UNCHANGED <<now, slept, mostRecent, notifier>>

\* The updates are applied under the lock; those of the service twice.
ApplyUpdates(c, outcomes, started, forAll) ==
    LET start == connect[c].start
        wall == connect[c].wall
        finished == connect[c].finished
        processed == ProcessOutcomes(outcomes) IN
    /\ connect[c].at = "finished"
    /\ records' = [r \in AllRoutes |->
                     Applied(AgedOut(records[r], finished), processed[r], started[r], wall)]
    /\ service' = IF forAll = "untried" THEN service
                  ELSE Applied(Applied(AgedOut(service, finished), forAll, start, wall),
                               forAll, start, wall)
    /\ connect' = [connect EXCEPT ![c] = NotConnecting]
    /\ UNCHANGED <<now, slept, mostRecent, notifier>>

\* preconnect_and_save applies its outcomes as they are, and none for the service.
PreconnectApplies(c, outcomes, started) ==
    /\ connect[c].at = "finished"
    /\ records' = [r \in AllRoutes |-> Applied(AgedOut(records[r], connect[c].finished),
                                            outcomes[r], started[r], connect[c].wall)]
    /\ connect' = [connect EXCEPT ![c] = NotConnecting]
    /\ UNCHANGED <<now, slept, mostRecent, notifier, service>>

-----------------------------------------------------------------------------
(* ConnectionManager::on_network_change                                    *)

OnNetworkChange ==
    /\ notifier.at = "idle" /\ now - mostRecent >= NETWORK_CHANGE_DEBOUNCE
    /\ mostRecent' = now
    /\ notifier' = [at |-> "noted", cutoff |-> now]
    /\ UNCHANGED <<now, slept, records, service, connect>>

SendEvent ==
    /\ notifier.at = "noted"
    /\ connect' = [c \in Connects |->
                     IF connect[c].at \in {"subscribed", "running"}
                     THEN [connect[c] EXCEPT !.changed = TRUE] ELSE connect[c]]
    /\ notifier' = [notifier EXCEPT !.at = "sent"]
    /\ UNCHANGED <<now, slept, mostRecent, records, service>>

\* network_changed, under the lock.
NetworkChanged ==
    /\ notifier.at = "sent"
    /\ records' = Reset(records, notifier.cutoff)
    /\ notifier' = [at |-> "idle", cutoff |-> 0]
    /\ UNCHANGED <<now, slept, mostRecent, service, connect>>

ClockTick ==
    /\ now < MaxTime /\ now' = now + 1
    /\ UNCHANGED <<slept, mostRecent, notifier, records, service, connect>>

\* The machine is suspended: SystemTime goes on, Instant does not.
Suspend ==
    /\ slept < MaxSleep /\ slept' = slept + 1
    /\ UNCHANGED <<now, mostRecent, notifier, records, service, connect>>

StateNext ==
    \/ \E c \in Connects :
         \/ Subscribe(c) \/ PrepareSnapshot(c) \/ WantsRecalculation(c)
         \/ Finish(c) \/ TimesOut(c)
         \/ \E o \in PossibleOutcomes : \E s \in StartTimes(c, o) :
              \/ \E f \in ServiceOutcomes(o) : ApplyUpdates(c, o, s, f)
              \/ PreconnectApplies(c, o, s)
    \/ OnNetworkChange \/ SendEvent \/ NetworkChanged \/ ClockTick \/ Suspend

StateSpec == StateInit /\ [][StateNext]_stateVars

-----------------------------------------------------------------------------
(* Properties                                                              *)

\* Some connect reports outcomes of this kind.
Reports(OfKind(_)) ==
    \E c \in {d \in Connects : connect[d].at = "finished"}, o \in PossibleOutcomes :
        OfKind(o) /\ \E s \in StartTimes(c, o), f \in ServiceOutcomes(o) : ApplyUpdates(c, o, s, f)

\* A failure is forgotten only for a cause: the route worked, the failure is as
\* old as its cutoff by one of the clocks, or the network changed after it began
\* (after it began and not, as the comment of reset has it, after it ended: see
\* NetworkChange).  A connect that ended long ago and reports late takes no other
\* one's records.
ForgottenForCause ==
    [][\A r \in AllRoutes : (records[r] # << >> /\ records'[r] = << >>) =>
         \/ now - records[r][1].started >= AgeCutoff(records[r][1])
         \/ now + slept - records[r][1].wall >= LongTermCutoff
         \/ NetworkChanged /\ records[r][1].started <= notifier.cutoff
         \/ Reports(LAMBDA o : o[r] = "ok")
         \/ \E c \in Connects, o \in PossibleOutcomes :
              o[r] = "ok" /\ \E s \in StartTimes(c, o) : PreconnectApplies(c, o, s)]_stateVars

=============================================================================
