------------------------------ MODULE HostFanOut ------------------------------
(* A workspace run spread over the VM hosts of one Studio session               *)
(* (plugin/src/test-in-run-mode.server.luau, fanOutToHosts). Packages run one   *)
(* after another, each staged into the one DataModel; a package's entries run   *)
(* on the hosts at once, and a host that misses the deadline runs on.           *)
EXTENDS Integers, FiniteSets

CONSTANTS
    HostCount,   \* Actor hosts the plugin ships (plugin.project.json, vmHosts)
    Packages,    \* packages of the run
    Entries,     \* entries of each package
    HostWait,    \* resolveHostDeadlineSeconds, in ticks
    Bail         \* the run stops after a package that failed

ASSUME FanOutAssumption ==
    /\ HostCount \in Nat \ {0} /\ Packages \in Nat /\ Entries \in Nat \ {0}
    /\ HostWait \in Nat \ {0} /\ Bail \in BOOLEAN

Off == -1                                     \* a timer that is not armed
Hosts == 1..HostCount
Indices == 1..Entries

VARIABLES
    stage,      \* "off" | "sequential" | "between" | "exchange" | "done"
    pkg,        \* package staged last
    staged,     \* package in the DataModel, 0 for none
    live,       \* hosts that still take packages
    batch,      \* number of the latest exchange
    threads,    \* [Hosts -> slices a host still runs]
    fired,      \* answers a host fired and the coordinator has not seen
    received,   \* answers of this exchange
    wait,       \* the exchange's deadline
    kept        \* history: [package, answer] the run returned

fanVars == <<stage, pkg, staged, live, batch, threads, fired, received, wait, kept>>

\* collectReadyHosts: every host that is ready, once there are as many as asked for or
\* the wait is over. None leaves the run sequential.
CollectHosts ==
    /\ stage = "off"
    /\ \E ready \in SUBSET Hosts :
        /\ live' = ready
        /\ stage' = IF ready = {} THEN "sequential" ELSE "between"
    /\ UNCHANGED <<pkg, staged, batch, threads, fired, received, wait, kept>>

\* planSlices: round-robin over the hosts in use, which are sorted by name.
Usable == IF Cardinality(live) < Entries THEN Cardinality(live) ELSE Entries
Rank(h) == Cardinality({g \in live : g <= h})
InUse == {h \in live : Rank(h) <= Usable}
SliceOf(h) == {i \in Indices : (i - 1) % Usable = Rank(h) - 1}

Thread(b, p, left) == [batch |-> b, pkg |-> p, left |-> left]
NewThreads(h) == IF h \in InUse THEN {Thread(batch', pkg', SliceOf(h))} ELSE {}

\* A package is materialized and its entries sent out; with no host left, or when
\* staging fails, its entries come back as errors.
StartPackage ==
    /\ stage = "between" /\ pkg < Packages
    /\ pkg' = pkg + 1
    /\ \/ /\ live # {}
          /\ stage' = "exchange" /\ staged' = pkg'
          /\ batch' = batch + 1
          /\ threads' = [h \in Hosts |-> threads[h] \cup NewThreads(h)]
          /\ received' = {} /\ wait' = HostWait
       \/ UNCHANGED <<stage, staged, batch, threads, received, wait>>
    /\ UNCHANGED <<live, fired, kept>>

\* runStagedSlice: a host runs its next entry against whatever is staged by then and
\* fires the answer with the batch it was given.
HostAnswers(h) ==
    /\ \E t \in threads[h] : \E i \in t.left :
        /\ \A j \in t.left : i <= j
        /\ fired' = fired \cup
             {[index |-> i, batch |-> t.batch, pkg |-> t.pkg, against |-> staged]}
        /\ threads' = [threads EXCEPT ![h] =
             (@ \ {t}) \cup (IF t.left = {i} THEN {} ELSE {Thread(t.batch, t.pkg, t.left \ {i})})]
    /\ UNCHANGED <<stage, pkg, staged, live, batch, received, wait, kept>>

\* Mutant: the answer's batch number is not looked at.
Collect_AnyBatch(a) ==
    /\ a \in fired
    /\ fired' = fired \ {a}
    /\ received' = IF stage = "exchange" /\ \A r \in received : r.index # a.index
                   THEN received \cup {a} ELSE received
    /\ UNCHANGED <<stage, pkg, staged, live, batch, threads, wait, kept>>

\* The results event: an answer counts if it is this exchange's and the first of its
\* index. Between exchanges nobody listens.
Collect(a) ==
    /\ a \in fired
    /\ fired' = fired \ {a}
    /\ received' = IF stage = "exchange" /\ a.batch = batch
                      /\ \A r \in received : r.index # a.index
                   THEN received \cup {a} ELSE received
    /\ UNCHANGED <<stage, pkg, staged, live, batch, threads, wait, kept>>

Answered == {r.index : r \in received}
Stuck == {h \in InUse : ~(SliceOf(h) \subseteq Answered)}

\* Every index has answered, or the wait is over: hosts with an unanswered entry take no
\* further package, and the DataModel is reset.
ExchangeEnds ==
    /\ stage = "exchange"
    /\ Answered = Indices \/ wait = 0
    /\ stage' = "between" /\ staged' = 0 /\ wait' = Off
    /\ live' = live \ Stuck
    /\ kept' = kept \cup {<<pkg, r>> : r \in received}
    /\ UNCHANGED <<pkg, batch, threads, fired, received>>

\* No package is left, or one has failed under --bail.
FanOutEnds ==
    /\ stage = "between"
    /\ pkg = Packages \/ (Bail /\ pkg > 0)
    /\ stage' = "done"
    /\ UNCHANGED <<pkg, staged, live, batch, threads, fired, received, wait, kept>>

FanOutInit ==
    /\ stage = "off" /\ pkg = 0 /\ staged = 0 /\ live = {} /\ batch = 0
    /\ threads = [h \in Hosts |-> {}]
    /\ fired = {} /\ received = {} /\ wait = Off /\ kept = {}

FanOutNext ==
    \/ CollectHosts \/ StartPackage \/ ExchangeEnds \/ FanOutEnds
    \/ \E h \in Hosts : HostAnswers(h)
    \/ \E a \in fired : Collect(a)

-----------------------------------------------------------------------------
(* Properties.                                                                  *)

Answers == [index : Indices, batch : 1..Packages, pkg : 1..Packages, against : 0..Packages]

FanOutTypeOK ==
    /\ stage \in {"off", "sequential", "between", "exchange", "done"}
    /\ pkg \in 0..Packages /\ staged \in 0..Packages /\ batch \in 0..Packages
    /\ live \subseteq Hosts
    /\ threads \in [Hosts -> SUBSET [batch : 1..Packages, pkg : 1..Packages,
                                     left : SUBSET Indices]]
    /\ fired \in SUBSET Answers /\ received \in SUBSET Answers
    /\ wait \in Off..HostWait
    /\ kept \in SUBSET ((1..Packages) \X Answers)

\* Whatever answers late, out of order or after its deadline: what a package returns for
\* an entry was run for that package, and while it was the one in the DataModel
\* (test-in-run-mode.server.luau:371-379, 418-420).
OwnPackage ==
    \A k \in kept : k[2].pkg = k[1] /\ k[2].against = k[1]

\* A host never runs two packages at once: one that is still running takes no further
\* package, and an exchange that is complete has left no host running
\* (test-in-run-mode.server.luau:376-377, 426-441).
OnePackagePerHost ==
    \A h \in Hosts : Cardinality(threads[h]) <= 1

\* Hosts do not get into each other's packages: neither what they run nor what they
\* answer.
HostsKeepApart == OwnPackage /\ OnePackagePerHost

=============================================================================
