--------------------------- MODULE KeyTransparency ---------------------------
(***************************************************************************)
(* What a client keeps about one key of the transparency log, and how      *)
(* searching for the key and monitoring it change that                     *)
(* (keytrans/src/verify.rs, MonitoringData in keytrans/src/lib.rs).        *)
(*                                                                         *)
(* The log only grows: the consistency and inclusion proofs tie every      *)
(* answer to a prefix of one log, so an answer is given by the size of the *)
(* tree it was made for.  The versions in the log are what the server      *)
(* wrote: one more than before or the same when honest, else any.          *)
(***************************************************************************)
EXTENDS ImplicitTree, FiniteSets, TLC

CONSTANTS
    MaxPos,     \* the bound on the entry where the key first occurs
    MaxSize,    \* the bound on the entries of the log
    MaxVersion  \* the bound on the versions of the key

ASSUME KeyTransparencyAssumption ==
    /\ MaxPos \in Nat /\ MaxSize \in Nat /\ MaxPos < MaxSize
    /\ MaxVersion \in Nat

VARIABLES
    honest,     \* whether the version only stays or grows by one
    pos,        \* the first entry of the log with the key
    log,        \* the version of the key at each entry
    data,       \* the client's MonitoringData, if it has any
    head,       \* the size in the last tree head the client accepted
    last        \* the last answer the client checked, and its verdict

vars == <<honest, pos, log, data, head, last>>

NoAnswer == [op |-> "none", wanted |-> << >>, size |-> 0, accepted |-> TRUE]

Versions(n) == [x \in pos .. n - 1 |-> log[x + 1]]

latest_log_position(d) == Max(DOMAIN d.ptrs)

greatest_version(d) == Max({d.ptrs[p] : p \in DOMAIN d.ptrs} \union {d.max_observed_version})

-----------------------------------------------------------------------------
(* MonitoringDataWrapper.  A refused answer is << >>.                      *)

start_monitoring(d, ver_pos, version) ==
    IF d # << >> THEN d
    ELSE <<[ptrs |-> ver_pos :> version, max_observed_version |-> version]>>

\* Faulty variant: a pointer above the entry must have the same version.
check_search_consistencySame(d, size, ver_pos, version) ==
    LET above == SelectSeq(monitoring_path(ver_pos, pos, size), LAMBDA x : x \in DOMAIN d.ptrs)
        known == IF ver_pos \in DOMAIN d.ptrs THEN <<ver_pos>> ELSE above
        observed == [d EXCEPT !.max_observed_version = Max({@, version})]
    IN  IF known = << >> THEN <<[observed EXCEPT !.ptrs = @ @@ (ver_pos :> version)]>>
        ELSE IF d.ptrs[Head(known)] # version THEN << >>
        ELSE <<observed>>

check_search_consistency(d, size, ver_pos, version) ==
    LET above == SelectSeq(monitoring_path(ver_pos, pos, size), LAMBDA x : x \in DOMAIN d.ptrs)
        known == IF ver_pos \in DOMAIN d.ptrs THEN <<ver_pos>> ELSE above
        observed == [d EXCEPT !.max_observed_version = Max({@, version})]
    IN  IF known = << >> THEN <<[observed EXCEPT !.ptrs = @ @@ (ver_pos :> version)]>>
        ELSE IF IF ver_pos = Head(known) THEN d.ptrs[ver_pos] # version
                                         ELSE d.ptrs[Head(known)] < version
        THEN << >>
        ELSE <<observed>>

\* The part of a pointer's monitoring path that the proof has steps for.
StepsAlong(path, steps) ==
    SubSeq(path, 1, Max({i \in 0 .. Len(path) : \A j \in 1 .. i : path[j] \in DOMAIN steps}))

find_updated_mapping(p, ver, size, steps) ==
    LET along == StepsAlong(monitoring_path(p, pos, size), steps)
    IN  IF \E i \in DOMAIN along : steps[along[i]] < ver THEN << >>
        ELSE IF along = << >> THEN <<p, ver>>
        ELSE <<Last(along), steps[Last(along)]>>

update(d, size, steps) ==
    LET mapped == {find_updated_mapping(p, d.ptrs[p], size, steps) : p \in DOMAIN d.ptrs}
        ptrs == [q \in {m[1] : m \in mapped} |-> (CHOOSE m \in mapped : m[1] = q)[2]]
        seen == {steps[x] : x \in DOMAIN steps}
    IN  IF << >> \in mapped \/ \E m, k \in mapped : m[1] = k[1] /\ m # k THEN << >>
        ELSE <<[ptrs |-> ptrs,
                max_observed_version |-> Max({d.max_observed_version} \union seen)]>>

-----------------------------------------------------------------------------
(* The two operations.  check_consistency_metadata accepts no smaller tree. *)

HeadAccepted(n) == n >= head

\* A search, for the newest version unless one is wanted, with the versions at
\* the entries it looked at.
Searched(wanted, n) ==
    LET done == consume(new(wanted, pos, n), Versions(n))
    IN  [found |-> IF done.verdict = "done" THEN result(done.guide) ELSE << >>,
         steps |-> [x \in Range(done.guide.ids) |-> log[x + 1]]]

verify_search(wanted, n) ==
    LET s == Searched(wanted, n)
        at == s.found[1]
        checked == check_search_consistency(
                       start_monitoring(data, at, s.steps[at])[1], n, at, s.steps[at])
    IN  IF s.found = << >> \/ ~HeadAccepted(n) \/ checked = << >> THEN << >>
        ELSE update(checked[1], n, s.steps)

\* Faulty variant: the entries after the newest pointer's last ancestor are left out.
verify_monitorPathOnly(n) ==
    LET path == monitoring_path(latest_log_position(data[1]), pos, n)
    IN  IF ~HeadAccepted(n) THEN << >>
        ELSE update(data[1], n, [x \in Range(path) |-> log[x + 1]])

verify_monitor(n) ==
    LET path == full_monitoring_path(latest_log_position(data[1]), pos, n)
    IN  IF ~HeadAccepted(n) THEN << >>
        ELSE update(data[1], n, [x \in Range(path) |-> log[x + 1]])

Checked(wanted, op, n, updated) ==
    /\ last' = [op |-> op, wanted |-> wanted, size |-> n, accepted |-> updated # << >>]
    /\ IF updated = << >> THEN UNCHANGED <<data, head>>
       ELSE data' = updated /\ head' = n
    /\ UNCHANGED <<honest, pos, log>>

\* The tree an answer is made for: the newest, or one that a slower replica still
\* has.  An answer for an older tree that is accepted commutes with the entries
\* appended since, and one that is refused changes nothing.
Sizes == {Len(log) - 1, Len(log)} \ 0 .. pos

Search ==
    \E wanted \in {<< >>} \union {<<v>> : v \in 0 .. MaxVersion}, n \in Sizes :
        Checked(wanted, "search", n, verify_search(wanted, n))

Monitor ==
    /\ data # << >>
    /\ \E n \in Sizes : Checked(<< >>, "monitor", n, verify_monitor(n))

Append1 ==
    /\ Len(log) < MaxSize
    /\ \E v \in 0 .. MaxVersion :
        /\ honest => v \in {Last(log), Last(log) + 1}
        /\ log' = Append(log, v)
    /\ last' = NoAnswer
    /\ UNCHANGED <<honest, pos, data, head>>

Init ==
    /\ honest \in BOOLEAN
    /\ pos \in 0 .. MaxPos
    /\ log = [i \in 1 .. pos + 1 |-> 0]
    /\ data = << >> /\ head = 0
    /\ last = NoAnswer

Next == Append1 \/ Search \/ Monitor

Spec == Init /\ [][Next]_vars

-----------------------------------------------------------------------------
(* Properties                                                              *)

\* verify.rs: an answer that an honest log gives, for a tree at least as large
\* as the last one and a version the key had in it, is never refused, whatever
\* was searched and monitored before and however far the log grew in between.
HonestAnswersAccepted ==
    /\ honest /\ last.op # "none" /\ last.size >= head
    /\ last.wanted # << >> => last.wanted[1] <= log[last.size]
    => last.accepted

\* lib.rs greatest_version ("only used for the early version change detection"):
\* after an accepted monitor or search for the newest version it is not below
\* the version at the end of the tree, and is that version when the log is honest.
NewestVersionSeen ==
    last.op # "none" /\ last.accepted /\ last.wanted = << >> =>
        /\ greatest_version(data[1]) >= log[last.size]
        /\ honest => greatest_version(data[1]) = log[last.size]

=============================================================================
