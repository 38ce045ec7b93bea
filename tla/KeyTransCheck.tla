---------------------------- MODULE KeyTransCheck ----------------------------
(***************************************************************************)
(* The key transparency check of one account                               *)
(* (net/chat/src/api/keytrans.rs, api/keytrans/monitor_and_search.rs and   *)
(* verify_ext.rs; bridge/shared/src/net/keytrans.rs): the client refreshes *)
(* the distinguished tree head, monitors the fields it knows, searches for *)
(* those it does not know or that changed, and stores what it learnt if    *)
(* all went well.  Every request may fail, and the log and the             *)
(* discoverability of the number change between the requests.              *)
(*                                                                         *)
(* The monitoring data of a field is its search key and greatest_version:  *)
(* module KeyTransparency shows that an accepted answer for a tree of n    *)
(* entries makes it the version the honest log has there.                  *)
(***************************************************************************)
EXTENDS Integers, Sequences, FiniteSets, FiniteSetsExt, SequencesExt

CONSTANTS
    Checks,     \* the checks that may run at the same time
    Modes,      \* the modes the application uses, of "contact", "self", "selfHidden"
    E164s,      \* the phone numbers
    Usernames,  \* the username hashes
    MaxLog,     \* the bound on the entries of the log
    MaxChecks   \* the bound on the checks started

Fields == {"e164", "username"}
Aci == "aci"
KeysOf(f) == IF f = "e164" THEN E164s ELSE Usernames
Keys == {Aci} \union E164s \union Usernames

VARIABLES
    log,            \* the entries: a search key and whose account it maps to
    discoverable,   \* whether the server answers searches for phone numbers
    stored,         \* the application's AccountData for the account, if any
    distinguished,  \* its distinguished tree head, if any, and whether it is old
    check,          \* the checks
    started,        \* how many checks there were
    done            \* how a check ended in the last step, if one did (history)

vars == <<log, discoverable, stored, distinguished, check, started, done>>

\* The log.  The account is "me"; a key may be given to another account, or to
\* none, and back.
Has(key, n) == {i \in 1 .. n : log[i].key = key}
VersionAt(key, n) == Cardinality(Has(key, n)) - 1
ValueAt(key, n) == IF Has(key, n) = {} THEN "gone" ELSE log[Max(Has(key, n))].value
ValueOf(key, version) ==
    log[CHOOSE i \in Has(key, Len(log)) : VersionAt(key, i) = version].value

\* What the server sends for a key: nothing if it maps to no account or is a
\* number that is not discoverable.
Answered(key, n) == ValueAt(key, n) # "gone" /\ (key \in E164s => discoverable)

NoKeys == [f \in Fields |-> << >>]
Requests ==
    [keys : {k \in [Fields -> {<< >>} \union {<<key>> : key \in Keys}] :
                \A f \in Fields : k[f] # << >> => k[f][1] \in KeysOf(f)},
     mode : Modes]

-----------------------------------------------------------------------------
(* Planning.                                                               *)

select_monitor_or_search_for(data, requested) ==
    IF data # << >> /\ requested = <<data[1].key>>
    THEN [monitor |-> requested, search |-> << >>, data |-> data]
    ELSE [monitor |-> << >>, search |-> requested, data |-> << >>]

plan(req, account) ==
    LET chosen == [f \in Fields |-> select_monitor_or_search_for(account.opt[f], req.keys[f])]
    IN  [monitor |-> [f \in Fields |-> chosen[f].monitor],
         search |-> [f \in Fields |-> chosen[f].search],
         account |-> [account EXCEPT !.opt = [f \in Fields |-> chosen[f].data]]]

merge_with(parameters, other) ==
    [f \in Fields |-> IF other[f] # << >> THEN other[f] ELSE parameters[f]]

-----------------------------------------------------------------------------
(* Requests.  An answer is made for a tree of n entries; the client refuses *)
(* one that is smaller than a head it knows.                               *)

HeadsAccepted(account, dist, n) ==
    (account # << >> => n >= account[1].head) /\ n >= dist

Failed(why) == [ok |-> FALSE, why |-> why]

\* A field is monitored exactly if there is data for it.
resolve_monitor(value, data) == (value = << >>) = (data = << >>)

monitor(account, params, dist, n) ==
    IF \E f \in Fields : ~resolve_monitor(params[f], account.opt[f])
    THEN Failed("account data does not match the monitor request")
    ELSE IF ~HeadsAccepted(<<account>>, dist, n) THEN Failed("older tree")
    ELSE [ok |-> TRUE,
          account |->
            [aci |-> Max({account.aci, VersionAt(Aci, n)}),
             opt |-> [f \in Fields |->
                        IF params[f] = << >> THEN << >>
                        ELSE <<[key |-> params[f][1],
                                version |-> Max({account.opt[f][1].version,
                                                 VersionAt(params[f][1], n)})]>>],
             head |-> n]]

MissingFields(params, n) == {f \in Fields : params[f] # << >> /\ ~Answered(params[f][1], n)}
FoundFields(params, n) == {f \in Fields : params[f] # << >>} \ MissingFields(params, n)

\* There is data for the field, of another search key.
KeyChanged(account, params, f) ==
    account # << >> /\ account[1].opt[f] # << >> /\ account[1].opt[f][1].key # params[f][1]

SearchResult(params, n) ==
    [ok |-> TRUE, missing |-> MissingFields(params, n),
     account |->
        [aci |-> VersionAt(Aci, n),
         opt |-> [f \in Fields |->
                    IF f \in FoundFields(params, n)
                    THEN <<[key |-> params[f][1], version |-> VersionAt(params[f][1], n)]>>
                    ELSE << >>],
         head |-> n]]

\* Faulty variant: the values found are not compared with the expected ones.
searchUnchecked(account, params, dist, n) ==
    IF ~HeadsAccepted(account, dist, n) THEN Failed("older tree")
    ELSE IF \E f \in FoundFields(params, n) : KeyChanged(account, params, f)
    THEN Failed("given search key index does not match database")
    ELSE SearchResult(params, n)

\* verify_chat_search_response, with the fields the server did not answer for.
search(account, params, dist, n) ==
    IF ~HeadsAccepted(account, dist, n) THEN Failed("older tree")
    ELSE IF \E f \in FoundFields(params, n) : KeyChanged(account, params, f)
    THEN Failed("given search key index does not match database")
    ELSE IF ValueAt(Aci, n) # "me" \/ \E f \in FoundFields(params, n) : ValueAt(params[f][1], n) # "me"
    THEN Failed("unexpected search value")
    ELSE SearchResult(params, n)

modal_search(account, params, dist, mode, n) ==
    LET found == search(account, params, dist, n)
    IN  IF found.ok /\ mode = "selfHidden"
        THEN [found EXCEPT !.missing = @ \ {"e164"}] ELSE found

merge_account_data(earlier, later, preserve_aci) ==
    [aci |-> IF preserve_aci THEN earlier.aci ELSE later.aci,
     opt |-> [f \in Fields |-> IF later.opt[f] # << >> THEN later.opt[f] ELSE earlier.opt[f]],
     head |-> later.head]

remove_missing(partial) ==
    [partial EXCEPT
        !.account.opt = [f \in Fields |-> IF f \in partial.missing THEN << >> ELSE @[f]]]

\* try_subtract and maximum_version, over the fields both have a version for.
Common(account, before) ==
    {f \in Fields : account.opt[f] # << >> /\ before.opt[f] # << >>}
Decreased(account, before) ==
    \/ account.aci < before.aci
    \/ \E f \in Common(account, before) : account.opt[f][1].version < before.opt[f][1].version
VersionsChanged(account, before) ==
    \/ account.aci > before.aci
    \/ \E f \in Common(account, before) : account.opt[f][1].version > before.opt[f][1].version

-----------------------------------------------------------------------------
(* The check.                                                              *)

Idle == [phase |-> "idle"]

\* The application has nothing yet, or what a check of all fields stored when
\* the log had its three entries.
Init ==
    /\ \E number \in E164s, name \in Usernames :
        /\ log = [i \in 1 .. 3 |-> [key |-> <<Aci, number, name>>[i], value |-> "me"]]
        /\ stored \in { << >>,
              <<[aci |-> 0, head |-> 3,
                 opt |-> [f \in Fields |-> <<[key |-> IF f = "e164" THEN number ELSE name,
                                             version |-> 0]>>]]>> }
    /\ discoverable = TRUE
    /\ distinguished = IF stored = << >> THEN << >> ELSE <<[size |-> 3, old |-> FALSE]>>
    /\ check = [c \in Checks |-> Idle] /\ started = 0
    /\ done = "none"

Begin(c) ==
    /\ check[c].phase = "idle" /\ started < MaxChecks
    /\ \E req \in Requests :
        check' = [check EXCEPT ![c] =
            [phase |-> "distinguished", req |-> req, stored |-> stored, known |-> distinguished]]
    /\ started' = started + 1
    /\ UNCHANGED <<log, discoverable, stored, distinguished>> /\ done' = "none"

End(c, how) ==
    /\ check' = [check EXCEPT ![c] = Idle]
    /\ done' = how
    /\ UNCHANGED <<log, discoverable, started>>

Fail(c, why) == End(c, why) /\ UNCHANGED <<stored, distinguished>>

\* The data is stored under the keys that were asked for.
into_stored(account, keys) ==
    [account EXCEPT !.opt =
        [f \in Fields |-> IF @[f] = << >> \/ keys[f] = << >> THEN << >>
                          ELSE <<[@[f][1] EXCEPT !.key = keys[f][1]]>>]]

\* Faulty variant: what is missing from the result is not looked at.
FinishPartial(c, partial) ==
    /\ End(c, "ok")
    /\ stored' = <<partial.account>>
    /\ distinguished' = <<[size |-> check[c].dist, old |-> FALSE]>>

\* into_serialized_account_data and KeyTransparency_Check: a result with missing
\* fields is an error; else it is stored, with a distinguished head that is not
\* the known one; the known one keeps its age.
Finish(c, partial) ==
    IF partial.missing # {} THEN Fail(c, "missing fields")
    ELSE /\ End(c, "ok")
         /\ stored' = <<into_stored(partial.account, check[c].req.keys)>>
         /\ distinguished' =
                IF check[c].renewed THEN <<[size |-> check[c].dist, old |-> FALSE]>> ELSE distinguished

Step(c, next) ==
    /\ check' = [check EXCEPT ![c] = next]
    /\ UNCHANGED <<log, discoverable, stored, distinguished, started>> /\ done' = "none"

\* The head is known: plan, and go on to the first request.  `renewed` says that
\* the head is not the one the application has.
Planned(c, dist, renewed) ==
    LET ch == check[c]
        at == [phase |-> "search", req |-> ch.req, renewed |-> renewed, dist |-> dist,
               account |-> << >>, params |-> ch.req.keys, changed |-> FALSE]
        p == plan(ch.req, ch.stored[1])
    IN  IF ch.stored = << >> THEN at
        ELSE [at EXCEPT !.phase = "monitor", !.account = <<p.account>>, !.params = p]

\* The trees the servers answer for: the newest one, or one that is a bit behind.
Sizes == {Len(log) - 1, Len(log)} \ {0}

Refreshes(known) == \A k \in Range(known) : k.old

\* The server may have signed a tree of the same size again: another head.
UpdateDistinguished(c) ==
    LET known == check[c].known
    IN  /\ check[c].phase = "distinguished"
        /\ IF ~Refreshes(known)
           THEN Step(c, Planned(c, known[1].size, FALSE))
           ELSE \E n \in Sizes, signed \in BOOLEAN :
                    IF known # << >> /\ n < known[1].size THEN Fail(c, "older tree")
                    ELSE Step(c, Planned(c, n, known = << >> \/ n # known[1].size \/ signed))

\* PostMonitorAction.
AfterMonitor(c, account) ==
    LET p == check[c].params
        before == check[c].account[1]
        changed == VersionsChanged(account, before)
        searching == IF changed THEN merge_with(p.monitor, p.search) ELSE p.search
        combined == merge_account_data(before, account, FALSE)
    IN  IF Decreased(account, before) THEN Fail(c, "version of the mapping decreased")
        ELSE IF account.head < before.head THEN Fail(c, "assertion failed")
        ELSE IF changed /\ check[c].req.mode # "contact" THEN Fail(c, "version change")
        ELSE IF searching # NoKeys \/ changed
        THEN Step(c, [check[c] EXCEPT !.phase = "search", !.params = searching,
                                      !.changed = changed, !.account = <<combined>>])
        ELSE Finish(c, [missing |-> {}, account |-> combined])

Monitor(c) ==
    /\ check[c].phase = "monitor"
    /\ \E n \in Sizes :
        LET answer == monitor(check[c].account[1], check[c].params.monitor, check[c].dist, n)
        IN  IF answer.ok THEN AfterMonitor(c, answer.account) ELSE Fail(c, answer.why)

Search(c) ==
    /\ check[c].phase = "search"
    /\ \E n \in Sizes :
        LET ch == check[c]
            answer == modal_search(ch.account, ch.params, ch.dist, ch.req.mode, n)
            merged == [answer EXCEPT !.account =
                          merge_account_data(ch.account[1], @, ~ch.changed)]
        IN  IF ~answer.ok THEN Fail(c, answer.why)
            ELSE IF ch.account = << >> THEN Finish(c, answer)
            ELSE IF answer.account.head < ch.account[1].head THEN Fail(c, "assertion failed")
            ELSE Finish(c, IF ch.changed THEN remove_missing(merged) ELSE merged)

RequestFails(c) ==
    /\ \/ check[c].phase = "distinguished" /\ Refreshes(check[c].known)
       \/ check[c].phase \in {"monitor", "search"}
    /\ Fail(c, "network")

\* KeyTransparency_ResetDataField.
ResetDataField ==
    /\ stored # << >>
    /\ \E f \in Fields : stored[1].opt[f] # << >> /\ stored' = <<[stored[1] EXCEPT !.opt[f] = << >>]>>
    /\ UNCHANGED <<log, discoverable, distinguished, check, started>> /\ done' = "none"

\* The surroundings.
LogGrows ==
    /\ Len(log) < MaxLog
    /\ \E key \in Keys, value \in {"me", "other", "gone"} :
        /\ value # ValueAt(key, Len(log)) /\ (key = Aci => value # "gone")
        /\ log' = Append(log, [key |-> key, value |-> value])
    /\ UNCHANGED <<discoverable, stored, distinguished, check, started>> /\ done' = "none"

Discoverability ==
    /\ discoverable' = ~discoverable
    /\ UNCHANGED <<log, stored, distinguished, check, started>> /\ done' = "none"

TimePasses ==
    /\ distinguished # << >> /\ distinguished' = <<[distinguished[1] EXCEPT !.old = TRUE]>>
    /\ UNCHANGED <<log, discoverable, stored, check, started>> /\ done' = "none"

Next ==
    \/ LogGrows \/ Discoverability \/ TimePasses \/ ResetDataField
    \/ \E c \in Checks :
        Begin(c) \/ UpdateDistinguished(c) \/ Monitor(c) \/ Search(c) \/ RequestFails(c)

Spec == Init /\ [][Next]_vars

-----------------------------------------------------------------------------
(* Properties                                                              *)

\* verify_ext.rs check_equal: whatever happened between the requests, every
\* mapping that is stored was seen with the expected value: monitoring never
\* moves a field on to a version that was not looked up.
StoredFieldsVerified ==
    stored # << >> =>
        /\ ValueOf(Aci, stored[1].aci) = "me"
        /\ \A f \in Fields : stored[1].opt[f] # << >> =>
                ValueOf(stored[1].opt[f][1].key, stored[1].opt[f][1].version) = "me"

Succeeds(c) == check[c].phase # "idle" /\ check'[c] = Idle /\ done' = "ok"

\* monitor_and_search.rs remove_missing ("making both current and following check
\* fail"): a check that succeeds has monitoring data for every field it was asked
\* about, except for the own number while it is not discoverable.
SuccessIsComplete ==
    [][\A c \in Checks : Succeeds(c) =>
        \A f \in Fields : check[c].req.keys[f] # << >> =>
            \/ stored'[1].opt[f] # << >> /\ stored'[1].opt[f][1].key = check[c].req.keys[f][1]
            \/ f = "e164" /\ check[c].req.mode = "selfHidden"]_vars

=============================================================================
