-------------------------- MODULE StudioCliRun_proofs --------------------------
(***************************************************************************)
(* Proofs about the fan-out of a workspace run, for every number of hosts, *)
(* packages and entries and whatever the session around it does.  Nothing  *)
(* outside FanOutNext touches the coordinator's state but the clock, which *)
(* moves its deadline only (FanOutAlone).  Ownership is the invariant for  *)
(* OwnPackage: it says of answers under way what OwnPackage says of the    *)
(* ones returned.  Division is the one for OnePackagePerHost: in an        *)
(* exchange the hosts in use hold disjoint shares of what is unanswered,   *)
(* so a host whose whole slice has answered runs nothing.                  *)
(* WaitInv is the invariant for WaitsInv: a copy that is to be told to     *)
(* relay has used up no more of its wait than the session's age, neither   *)
(* has the command line after a nil return, and a copy that defers has its *)
(* whole wait before it as long as the fitting one may still claim.        *)
(***************************************************************************)
EXTENDS StudioCliRun, FiniteSetTheorems, TLAPS

Slices == [batch : Nat, pkg : Nat, left : (SUBSET Indices) \ {{}}]

FanTypes ==
    /\ stage \in {"off", "sequential", "between", "exchange", "done"}
    /\ pkg \in Nat /\ staged \in Nat /\ batch \in Nat
    /\ live \subseteq Hosts
    /\ threads \in [Hosts -> SUBSET Slices]

Ownership ==
    /\ \A h \in Hosts : \A t \in threads[h] :
          t.batch <= batch /\ (stage = "exchange" /\ t.batch = batch => t.pkg = pkg)
    /\ \A a \in fired :
          /\ a.batch \in Nat /\ a.batch <= batch
          /\ stage = "exchange" /\ a.batch = batch => a.pkg = pkg /\ a.against = pkg
    /\ stage = "exchange" =>
          staged = pkg /\ \A a \in received : a.pkg = pkg /\ a.against = pkg
    /\ OwnPackage

\* What host h still runs is its share of this exchange, none of it answered.
Share(h) ==
    \A t \in threads[h] :
        /\ t.batch = batch /\ t.left \subseteq SliceOf(h)
        /\ \A a \in fired : a.batch = batch => a.index \notin t.left
        /\ \A a \in received : a.index \notin t.left

Division ==
    /\ \A h \in Hosts : \A t, u \in threads[h] : t = u
    /\ stage = "off" => \A h \in Hosts : threads[h] = {}
    /\ stage # "exchange" => \A h \in live : threads[h] = {}
    /\ stage = "exchange" =>
          /\ \A h \in live \ InUse : threads[h] = {}
          /\ \A h \in InUse : Share(h)
          /\ \A h \in Hosts \ live : \A t \in threads[h] : t.batch # batch

FanInv == FanTypes /\ Ownership /\ Division

fanCore == <<stage, pkg, staged, live, batch, threads, fired, received, kept>>

-----------------------------------------------------------------------------
(* Slices.                                                                    *)

LEMMA LiveFinite ==
    ASSUME live \subseteq Hosts
    PROVE  /\ IsFiniteSet(live) /\ Cardinality(live) \in Nat
           /\ \A h \in live : /\ IsFiniteSet({g \in live : g <= h})
                              /\ Rank(h) \in Nat \ {0} /\ Rank(h) <= Cardinality(live)
  <1>1. IsFiniteSet(Hosts)
    BY FanOutAssumption, FS_Interval DEF Hosts
  <1>2. IsFiniteSet(live) /\ Cardinality(live) \in Nat
    BY <1>1, FS_Subset, FS_CardinalityType
  <1>3. ASSUME NEW h \in live
        PROVE  /\ IsFiniteSet({g \in live : g <= h})
               /\ Rank(h) \in Nat \ {0} /\ Rank(h) <= Cardinality(live)
    <2>1. {g \in live : g <= h} \subseteq live /\ h \in {g \in live : g <= h}
      BY FanOutAssumption DEF Hosts
    <2>2. IsFiniteSet({g \in live : g <= h}) /\ Rank(h) \in Nat /\ Rank(h) <= Cardinality(live)
      BY <1>2, <2>1, FS_Subset, FS_CardinalityType DEF Rank
    <2>3. Rank(h) # 0
      BY <2>1, <2>2, FS_EmptySet DEF Rank
    <2> QED
      BY <1>2, <2>2, <2>3
  <1> QED
    BY <1>2, <1>3

LEMMA SlicesDisjoint ==
    ASSUME live \subseteq Hosts, NEW g \in live, NEW h \in live, g # h
    PROVE  SliceOf(g) \cap SliceOf(h) = {}
  <1>1. ASSUME NEW x \in live, NEW y \in live, x < y
        PROVE  Rank(x) < Rank(y)
    <2> DEFINE X == {k \in live : k <= x}
               Y == {k \in live : k <= y}
    <2>1. live \subseteq Int
      BY FanOutAssumption DEF Hosts
    <2>9. x \in Int /\ y \in Int /\ x <= y /\ ~(y <= x)
      BY <1>1, <2>1
    <2>2. X \subseteq Y /\ y \in Y /\ y \notin X
      <3>1. \A k \in live : k <= x => k <= y
        BY <2>1, <2>9
      <3>2. y <= y
        BY <2>9
      <3> QED
        BY <2>9, <3>1, <3>2
    <2>3. IsFiniteSet(Y) /\ IsFiniteSet(X)
      BY LiveFinite
    <2>4. Rank(x) = Cardinality(X) /\ Rank(y) = Cardinality(Y)
      BY DEF Rank
    <2> HIDE DEF X, Y
    <2>5. Cardinality(X) < Cardinality(Y)
      BY <2>2, <2>3, FS_Subset, FS_CardinalityType
    <2> QED
      BY <2>4, <2>5
  <1>2. g < h \/ h < g
    BY FanOutAssumption DEF Hosts
  <1>3. Rank(g) \in Nat /\ Rank(h) \in Nat
    BY LiveFinite
  <1>4. Rank(g) # Rank(h)
    BY <1>1, <1>2, <1>3
  <1> QED
    BY <1>3, <1>4 DEF SliceOf

LEMMA SliceNonEmpty ==
    ASSUME live \subseteq Hosts, NEW h \in InUse
    PROVE  SliceOf(h) \in (SUBSET Indices) \ {{}}
  <1>0. h \in live /\ Rank(h) <= Usable
    BY DEF InUse
  <1>9. Rank(h) \in Nat \ {0} /\ Cardinality(live) \in Nat
    <2>1. \A k \in live : Rank(k) \in Nat \ {0}
      BY LiveFinite
    <2> QED
      BY <1>0, <2>1, LiveFinite
  <1>2. Usable \in Nat /\ Usable <= Entries
    BY <1>9, FanOutAssumption DEF Usable
  <1>1. Rank(h) \in 1..Usable /\ Usable # 0
    BY <1>0, <1>9, <1>2
  <1>3. (Rank(h) - 1) % Usable = Rank(h) - 1
    <2> DEFINE x == Rank(h) - 1
    <2>1. x \in Nat /\ x < Usable
      BY <1>1, <1>2
    <2> HIDE DEF x
    <2>2. x % Usable = x
      BY <1>2, <2>1
    <2> QED
      BY <2>2 DEF x
  <1>4. Rank(h) \in Indices
    BY <1>1, <1>2, FanOutAssumption DEF Indices
  <1> QED
    BY <1>3, <1>4 DEF SliceOf

-----------------------------------------------------------------------------
(* The coordinator and its hosts.                                             *)

LEMMA TypesStart == Init => FanInv
  BY DEF Init, FanOutInit, FanInv, FanTypes, Ownership, Division, OwnPackage, InUse

LEMMA HostsReady ==
    ASSUME FanInv, CollectHosts
    PROVE  FanInv'
  <1>1. /\ stage = "off" /\ live' \subseteq Hosts /\ stage' \in {"sequential", "between"}
        /\ UNCHANGED <<pkg, staged, batch, threads, fired, received, kept>>
    BY DEF CollectHosts
  <1>2. FanTypes'
    BY <1>1 DEF FanInv, FanTypes
  <1>3. Ownership'
    BY <1>1 DEF FanInv, Ownership, OwnPackage
  <1>4. Division'
    BY <1>1 DEF FanInv, Division
  <1> QED
    BY <1>2, <1>3, <1>4 DEF FanInv

LEMMA PackageStarts ==
    ASSUME FanInv, StartPackage
    PROVE  FanInv'
  <1>1. /\ stage = "between" /\ pkg' = pkg + 1
        /\ UNCHANGED <<live, fired, kept>>
    BY DEF StartPackage
  <1>2. pkg' \in Nat /\ batch \in Nat /\ batch + 1 \in Nat
    BY <1>1 DEF FanInv, FanTypes
  <1>3. CASE UNCHANGED <<stage, staged, batch, threads, received, wait>>
    <2>1. FanTypes'
      BY <1>1, <1>2, <1>3 DEF FanInv, FanTypes
    <2>2. Ownership'
      BY <1>1, <1>3 DEF FanInv, Ownership, OwnPackage
    <2>3. Division'
      BY <1>1, <1>3 DEF FanInv, Division
    <2> QED
      BY <2>1, <2>2, <2>3 DEF FanInv
  <1>4. CASE /\ stage' = "exchange" /\ staged' = pkg' /\ batch' = batch + 1
             /\ threads' = [h \in Hosts |-> threads[h] \cup NewThreads(h)]
             /\ received' = {}
    <2>1. /\ \A h \in InUse : /\ SliceOf(h) \in (SUBSET Indices) \ {{}}
                              /\ NewThreads(h) = {Thread(batch', pkg', SliceOf(h))}
          /\ \A h \in Hosts \ InUse : NewThreads(h) = {}
          /\ InUse \subseteq live
      BY SliceNonEmpty DEF FanInv, FanTypes, NewThreads, InUse
    <2>2. \A h \in live : threads[h] = {}
      BY <1>1 DEF FanInv, Division
    <2>3. /\ \A h \in InUse : threads'[h] = {Thread(batch', pkg', SliceOf(h))}
          /\ \A h \in Hosts \ InUse : threads'[h] = threads[h]
      BY <1>4, <2>1, <2>2 DEF FanInv, FanTypes
    <2>4. InUse' = InUse /\ \A h \in Hosts : SliceOf(h)' = SliceOf(h)
      BY <1>1 DEF InUse, Usable, Rank, SliceOf
    <2>5. FanTypes'
      <3>1. \A h \in Hosts : threads'[h] \subseteq Slices
        <4>1. \A h \in InUse : Thread(batch', pkg', SliceOf(h)) \in Slices
          BY <1>2, <1>4, <2>1 DEF Thread, Slices
        <4> QED
          BY <2>3, <4>1 DEF FanInv, FanTypes
      <3>2. threads' \in [Hosts -> SUBSET Slices]
        BY <1>4, <3>1
      <3> QED
        BY <1>1, <1>2, <1>4, <3>2 DEF FanInv, FanTypes
    <2>6. Ownership'
      <3>1. \A h \in Hosts : \A t \in threads'[h] :
               t.batch <= batch' /\ (t.batch = batch' => t.pkg = pkg')
        <4>1. \A h \in InUse : \A t \in threads'[h] : t.batch = batch' /\ t.pkg = pkg'
          BY <2>3 DEF Thread
        <4>2. \A h \in Hosts \ InUse : \A t \in threads'[h] : t.batch \in Nat /\ t.batch <= batch
          BY <2>3 DEF FanInv, FanTypes, Ownership, Slices
        <4> QED
          BY <1>2, <1>4, <4>1, <4>2
      <3>2. \A a \in fired : a.batch \in Nat /\ a.batch <= batch' /\ a.batch # batch'
        BY <1>2, <1>4 DEF FanInv, Ownership
      <3> QED
        BY <1>1, <1>4, <3>1, <3>2 DEF FanInv, Ownership, OwnPackage
    <2>7. Division'
      <3>1. \A h \in Hosts : \A t, u \in threads'[h] : t = u
        BY <2>3 DEF FanInv, Division
      <3>2. \A h \in live' \ InUse' : threads'[h] = {}
        BY <1>1, <2>2, <2>3, <2>4 DEF FanInv, FanTypes
      <3>3. \A h \in InUse' : Share(h)'
        <4>1. \A h \in InUse : \A t \in threads'[h] : t.batch = batch' /\ t.left = SliceOf(h)
          BY <2>3 DEF Thread
        <4>2. \A a \in fired' : a.batch # batch'
          BY <1>1, <1>2, <1>4 DEF FanInv, Ownership
        <4> QED
          BY <1>4, <2>1, <2>4, <4>1, <4>2 DEF Share, FanInv, FanTypes
      <3>4. \A h \in Hosts \ live' : \A t \in threads'[h] : t.batch # batch'
        <4>1. \A h \in Hosts \ live : \A t \in threads[h] : t.batch \in Nat /\ t.batch <= batch
          BY DEF FanInv, FanTypes, Ownership, Slices
        <4> QED
          BY <1>1, <1>2, <1>4, <2>1, <2>3, <4>1
      <3> QED
        BY <1>4, <3>1, <3>2, <3>3, <3>4 DEF Division
    <2> QED
      BY <2>5, <2>6, <2>7 DEF FanInv
  <1> QED
    BY <1>3, <1>4 DEF StartPackage

LEMMA HostFires ==
    ASSUME FanInv, NEW h \in Hosts, HostAnswers(h)
    PROVE  FanInv'
  <1>0. PICK t \in threads[h] : \E i \in t.left :
           /\ fired' = fired \cup {[index |-> i, batch |-> t.batch, pkg |-> t.pkg, against |-> staged]}
           /\ threads' = [threads EXCEPT ![h] =
                (@ \ {t}) \cup (IF t.left = {i} THEN {} ELSE {Thread(t.batch, t.pkg, t.left \ {i})})]
    BY DEF HostAnswers
  <1>1. PICK i \in t.left :
           /\ fired' = fired \cup {[index |-> i, batch |-> t.batch, pkg |-> t.pkg, against |-> staged]}
           /\ threads' = [threads EXCEPT ![h] =
                (@ \ {t}) \cup (IF t.left = {i} THEN {} ELSE {Thread(t.batch, t.pkg, t.left \ {i})})]
    BY <1>0
  <1>2. UNCHANGED <<stage, pkg, staged, live, batch, received, wait, kept>>
    BY DEF HostAnswers
  <1> DEFINE a0 == [index |-> i, batch |-> t.batch, pkg |-> t.pkg, against |-> staged]
             rest == Thread(t.batch, t.pkg, t.left \ {i})
  <1>3. t \in Slices
    BY DEF FanInv, FanTypes
  <1>4. threads[h] = {t}
    BY DEF FanInv, Division
  <1>5. /\ threads'[h] = (IF t.left = {i} THEN {} ELSE {rest})
        /\ \A g \in Hosts \ {h} : threads'[g] = threads[g]
        /\ threads' = [g \in Hosts |-> threads'[g]]
    BY <1>1, <1>4 DEF FanInv, FanTypes
  <1>6. /\ \A u \in threads'[h] : u = rest /\ t.left # {i}
        /\ rest.batch = t.batch /\ rest.pkg = t.pkg /\ rest.left = t.left \ {i}
    BY <1>5 DEF Thread
  <1>7. fired' = fired \cup {a0}
        /\ a0.index = i /\ a0.batch = t.batch /\ a0.pkg = t.pkg /\ a0.against = staged
    BY <1>1
  <1> HIDE DEF a0, rest
  <1>8. FanTypes'
    <2>1. threads'[h] \subseteq Slices
      <3>1. t.left # {i} => rest \in Slices
        BY <1>3, <1>6 DEF rest, Thread, Slices
      <3> QED
        BY <1>6, <3>1
    <2>2. threads' \in [Hosts -> SUBSET Slices]
      BY <1>5, <2>1 DEF FanInv, FanTypes
    <2> QED
      BY <1>2, <2>2 DEF FanInv, FanTypes
  <1>9. Ownership'
    <2>1. t.batch \in Nat /\ t.batch <= batch /\ (stage = "exchange" /\ t.batch = batch => t.pkg = pkg)
      BY <1>3 DEF Slices, FanInv, Ownership
    <2>2. \A g \in Hosts : \A u \in threads'[g] :
             u.batch <= batch /\ (stage = "exchange" /\ u.batch = batch => u.pkg = pkg)
      BY <1>5, <1>6, <2>1 DEF FanInv, Ownership
    <2>3. \A a \in fired' :
             /\ a.batch \in Nat /\ a.batch <= batch
             /\ stage = "exchange" /\ a.batch = batch => a.pkg = pkg /\ a.against = pkg
      BY <1>7, <2>1 DEF FanInv, Ownership
    <2> QED
      BY <1>2, <2>2, <2>3 DEF FanInv, Ownership, OwnPackage
  <1>10. Division'
    <2>0. InUse' = InUse /\ \A g \in Hosts : SliceOf(g)' = SliceOf(g)
      BY <1>2 DEF InUse, Usable, Rank, SliceOf
    <2>1. \A g \in Hosts : \A u, v \in threads'[g] : u = v
      BY <1>5, <1>6 DEF FanInv, Division
    <2>2. stage # "off" /\ (stage # "exchange" => h \notin live)
      BY DEF FanInv, Division
    <2>3. stage # "exchange" => \A g \in live : threads'[g] = {}
      BY <1>5, <2>2 DEF FanInv, FanTypes, Division
    <2>4. ASSUME stage = "exchange"
          PROVE  /\ \A g \in live \ InUse : threads'[g] = {}
                 /\ \A g \in Hosts \ live : \A u \in threads'[g] : u.batch # batch
      <3>1. h \notin live \ InUse
        BY <2>4 DEF FanInv, Division
      <3>2. h \in Hosts \ live => t.batch # batch
        BY <2>4 DEF FanInv, Division
      <3> QED
        BY <1>5, <1>6, <2>4, <3>1, <3>2 DEF FanInv, FanTypes, Division
    <2>5. ASSUME stage = "exchange", NEW g \in InUse
          PROVE  \A u \in threads'[g] :
                    /\ u.batch = batch /\ u.left \subseteq SliceOf(g)
                    /\ \A a \in fired' : a.batch = batch => a.index \notin u.left
                    /\ \A a \in received : a.index \notin u.left
      <3>1. g \in live /\ g \in Hosts /\ InUse \subseteq live
        BY DEF InUse, FanInv, FanTypes
      <3>2. CASE g = h
        <4>1. Share(h)
          BY <2>5, <3>2 DEF FanInv, Division
        <4>2. /\ t.batch = batch /\ t.left \subseteq SliceOf(h)
              /\ \A a \in fired : a.batch = batch => a.index \notin t.left
              /\ \A a \in received : a.index \notin t.left
          BY <4>1 DEF Share
        <4> QED
          BY <1>6, <1>7, <3>2, <4>2
      <3>3. CASE g # h
        <4>1. threads'[g] = threads[g] /\ Share(g)
          BY <1>5, <2>5, <3>1, <3>3 DEF FanInv, Division
        <4>2. t.batch = batch => h \in InUse
          BY <2>5 DEF FanInv, Division
        <4>3. t.batch = batch => i \in SliceOf(h)
          BY <2>5, <4>2 DEF FanInv, Division, Share
        <4>4. t.batch = batch => i \notin SliceOf(g)
          BY <3>1, <3>3, <4>2, <4>3, SlicesDisjoint DEF FanInv, FanTypes
        <4> QED
          BY <1>7, <4>1, <4>4 DEF Share
      <3> QED
        BY <3>2, <3>3
    <2>6. stage = "exchange" => \A g \in InUse : Share(g)'
      BY <1>2, <2>0, <2>5 DEF Share, InUse, FanInv, FanTypes
    <2> QED
      BY <1>2, <2>0, <2>1, <2>2, <2>3, <2>4, <2>6 DEF Division
  <1> QED
    BY <1>8, <1>9, <1>10 DEF FanInv

LEMMA AnswerCollected ==
    ASSUME FanInv, NEW a \in fired, Collect(a)
    PROVE  FanInv'
  <1>1. /\ fired' \subseteq fired
        /\ UNCHANGED <<stage, pkg, staged, live, batch, threads, wait, kept>>
        /\ \/ received' = received
           \/ stage = "exchange" /\ a.batch = batch /\ received' = received \cup {a}
    BY DEF Collect
  <1>2. FanTypes'
    BY <1>1 DEF FanInv, FanTypes
  <1>3. Ownership'
    <2>1. stage = "exchange" => \A r \in received' : r.pkg = pkg /\ r.against = pkg
      BY <1>1 DEF FanInv, Ownership
    <2> QED
      BY <1>1, <2>1 DEF FanInv, Ownership, OwnPackage
  <1>4. Division'
    <2>1. InUse' = InUse /\ \A g \in Hosts : SliceOf(g)' = SliceOf(g)
      BY <1>1 DEF InUse, Usable, Rank, SliceOf
    <2>2. ASSUME stage = "exchange", NEW g \in InUse
          PROVE  Share(g)'
      <3>1. Share(g) /\ g \in Hosts
        BY <2>2 DEF FanInv, FanTypes, Division, InUse
      <3> QED
        BY <1>1, <2>1, <3>1 DEF Share
    <2> QED
      BY <1>1, <2>1, <2>2 DEF FanInv, Division
  <1> QED
    BY <1>2, <1>3, <1>4 DEF FanInv

LEMMA ExchangeOver ==
    ASSUME FanInv, ExchangeEnds
    PROVE  FanInv'
  <1>1. /\ stage = "exchange" /\ stage' = "between" /\ staged' = 0
        /\ live' = live \ Stuck
        /\ kept' = kept \cup {<<pkg, r>> : r \in received}
        /\ UNCHANGED <<pkg, batch, threads, fired, received>>
    BY DEF ExchangeEnds
  <1>2. FanTypes'
    BY <1>1 DEF FanInv, FanTypes
  <1>3. Ownership'
    <2>1. \A r \in received : r.pkg = pkg /\ r.against = pkg
      BY <1>1 DEF FanInv, Ownership
    <2>2. \A k \in {<<pkg, r>> : r \in received} : k[2].pkg = k[1] /\ k[2].against = k[1]
      BY <2>1
    <2>3. OwnPackage'
      BY <1>1, <2>2 DEF FanInv, Ownership, OwnPackage
    <2> QED
      BY <1>1, <2>3 DEF FanInv, Ownership
  <1>4. Division'
    <2>1. \A h \in live' : threads[h] = {}
      <3>1. SUFFICES ASSUME NEW h \in live', NEW t \in threads[h] PROVE FALSE
        OBVIOUS
      <3>2. h \in InUse /\ h \in Hosts
        BY <1>1, <3>1 DEF FanInv, FanTypes, Division
      <3>3. t.left \subseteq SliceOf(h) /\ \A r \in received : r.index \notin t.left
        BY <1>1, <3>2 DEF FanInv, Division, Share
      <3>4. SliceOf(h) \subseteq Answered
        BY <1>1, <3>1, <3>2 DEF Stuck
      <3>5. t.left # {}
        BY <3>2 DEF FanInv, FanTypes, Slices
      <3> QED
        BY <3>3, <3>4, <3>5 DEF Answered
    <2> QED
      BY <1>1, <2>1 DEF FanInv, Division
  <1> QED
    BY <1>2, <1>3, <1>4 DEF FanInv

\* Whatever else happens leaves the coordinator alone; the clock moves its deadline.
LEMMA FanOutAlone == Next => FanOutNext \/ UNCHANGED fanCore
  BY DEF Next, Copy, Hears, Serve, ServeEnds, Bootstrap, NilReturns, RunReturns, PlayRuns,
         Starts, WaitEnds, Opened, HearsRelay, TakesArgs, GivesUp, Yields, Refuses, HearsStarted,
         HearsNil, HearsReady, HearsResults, Expires, LaunchFails, Drop, Tick, fanVars, fanCore

LEMMA FanKept ==
    ASSUME FanInv, UNCHANGED fanCore
    PROVE  FanInv'
  <1>1. InUse' = InUse /\ \A g \in Hosts : SliceOf(g)' = SliceOf(g)
    BY DEF fanCore, InUse, Usable, Rank, SliceOf
  <1>2. FanTypes' /\ Ownership'
    BY DEF fanCore, FanInv, FanTypes, Ownership, OwnPackage
  <1>3. \A g \in Hosts : Share(g)' <=> Share(g)
    BY <1>1 DEF fanCore, Share
  <1>4. InUse \subseteq Hosts
    BY DEF InUse, FanInv, FanTypes
  <1>5. Division'
    BY <1>1, <1>3, <1>4 DEF fanCore, FanInv, Division
  <1> QED
    BY <1>2, <1>5 DEF FanInv

LEMMA FanOutStep ==
    ASSUME FanInv, [Next]_vars
    PROVE  FanInv'
  <1>1. CASE FanOutNext
    <2>1. CASE FanOutEnds
      <3>1. stage # "exchange" /\ stage' = "done"
            /\ UNCHANGED <<pkg, staged, live, batch, threads, fired, received, kept>>
        BY <2>1 DEF FanOutEnds
      <3> QED
        BY <3>1 DEF FanInv, FanTypes, Ownership, OwnPackage, Division
    <2> QED
      BY <1>1, <2>1, HostsReady, PackageStarts, ExchangeOver, HostFires, AnswerCollected
         DEF FanOutNext
  <1>2. CASE UNCHANGED fanCore
    BY <1>2, FanKept
  <1>3. CASE UNCHANGED vars
    <2>1. UNCHANGED fanCore
      BY <1>3 DEF vars, fanVars, fanCore
    <2> QED
      BY <2>1, FanKept
  <1> QED
    BY <1>1, <1>2, <1>3, FanOutAlone

LEMMA FanOutHolds == Spec => []FanInv
  BY TypesStart, FanOutStep, PTL DEF Spec

\* Whatever answers late, out of order or after its deadline: what a package returns for an
\* entry was run for that package while it was the one in the DataModel
\* (test-in-run-mode.server.luau:371-379, 418-420).
THEOREM OwnAnswersOnly == Spec => []OwnPackage
  <1>1. FanInv => OwnPackage
    BY DEF FanInv, Ownership
  <1> QED
    BY <1>1, FanOutHolds, PTL

\* A host never runs two packages at once (test-in-run-mode.server.luau:376-377, 426-441).
THEOREM HostsRunOnePackage == Spec => []OnePackagePerHost
  <1>1. FanInv => OnePackagePerHost
    <2>1. SUFFICES ASSUME FanInv, NEW h \in Hosts PROVE Cardinality(threads[h]) <= 1
      BY DEF OnePackagePerHost
    <2>2. threads[h] = {} \/ \E t \in threads[h] : threads[h] = {t}
      BY <2>1 DEF FanInv, Division
    <2>3. Cardinality(threads[h]) \in {0, 1}
      <3>1. threads[h] = {} => Cardinality(threads[h]) = 0
        BY FS_EmptySet
      <3>2. \A t : Cardinality({t}) = 1
        BY FS_Singleton
      <3> QED
        BY <2>2, <3>1, <3>2
    <2> QED
      BY <2>3
  <1> QED
    BY <1>1, FanOutHolds, PTL

\* Hosts do not get into each other's packages (test-in-run-mode.server.luau:371-441).
THEOREM HostsStayApart == Spec => []HostsKeepApart
  BY OwnAnswersOnly, HostsRunOnePackage, PTL DEF HostsKeepApart

-----------------------------------------------------------------------------
(* The waits of the three machines.                                           *)

AskedNil == Frame("nilReturn", NoCopy) \in toCli
Ready(c) == Frame("pluginReady", c) \in toCli

\* A copy that is to be told to relay, in every stage of the exchange.
Pending(c) ==
    \/ sock[c] = "opening" \/ Ready(c) \/ c \in toCopy
    \/ c \in ready /\ ~nilAsked /\ (boot = "running" \/ AskedNil)

\* The frames of a session come in their order, each once.
Exchange ==
    /\ boot = "off" => /\ nil = FALSE /\ toCli = {} /\ endTest = "none" /\ ~nilAsked
                       /\ \A c \in Copies : copy[c] = "off"
    /\ AskedNil => nil /\ boot = "returned" /\ ~nilAsked
    /\ nilAsked => nil /\ boot = "returned"
    /\ toCopy # {} \/ relayed # {} => nilAsked
    /\ toCopy \cap relayed = {}
    /\ \A c \in Copies :
         /\ copy[c] \in {"off", "waiting"} => sock[c] = "none"
         /\ sock[c] \in {"none", "opening"} => ~Ready(c)
         /\ sock[c] \in {"none", "opening"} \/ Ready(c) => c \notin ready \cup toCopy \cup relayed

Relaying ==
    \A c \in Copies : nil /\ Pending(c) => copy[c] = "args" /\ timer[c] >= RelayWait - age

NilWaiting ==
    /\ \A c \in Copies : copy[c] = "waiting" => timer[c] \in 0..RunningWait
    /\ nilTimer # Off =>
         /\ nilAsked /\ ready = {}
         /\ age < Skew => nilTimer >= NilWait - age
         /\ \A c \in Copies :
              /\ copy[c] = "off" => nilTimer >= NilWait - age
              /\ copy[c] = "waiting" => timer[c] < nilTimer
              /\ sock[c] = "opening" \/ Ready(c) => nilTimer > 0

Coming ==
    /\ server # NoCopy
    /\ \/ copy[server] \in {"off", "waiting"}
       \/ /\ copy[server] = "args"
          /\ IF nil THEN server \in relayed \/ Pending(server) ELSE boot = "running"

Refusals ==
    /\ \A c \in Copies :
         /\ copy[c] \in {"args", "deferring"} => running
         /\ copy[c] = "serving" => c = server /\ claim
         /\ copy[c] = "deferring" =>
              /\ c # server /\ (nil => nilAsked)
              /\ Coming => timer[c] >= Defer - age
              /\ Serving => timer[c] > 0
    /\ endTest = "refused" \/ (\E f \in toCli : f.type = "refused") => ~Serving /\ ~Coming


WaitInv == TypeOK /\ Exchange /\ Relaying /\ NilWaiting /\ Refusals

\* Studio boots.
LEMMA BootKeeps ==
    ASSUME WaitInv, Bootstrap
    PROVE  Exchange' /\ Relaying' /\ NilWaiting' /\ Refusals'
  <1>0. TypeOK /\ Exchange /\ Relaying /\ NilWaiting /\ Refusals
    BY DEF WaitInv
  <1>1. /\ boot = "off" /\ boot' = "running" /\ nil' \in BOOLEAN
        /\ toCli' \subseteq toCli \cup {Frame("started", NoCopy)}
        /\ UNCHANGED <<server, keyed, running, age, claim, endTest, copy, timer, sock,
                        relayed, toCopy, nilTimer, nilAsked, ready>>
    BY DEF Bootstrap, setup, studioVars, copyVars, wire, cliVars, SendFrame
  <1>2. Exchange'
    BY <1>0, <1>1 DEF TypeOK, Exchange, AskedNil, Ready, Frame
  <1>3. Relaying'
    BY <1>0, <1>1 DEF TypeOK, Exchange, Relaying, Pending, AskedNil, Ready, Frame
  <1>4. NilWaiting'
    BY <1>0, <1>1 DEF TypeOK, Exchange, NilWaiting, AskedNil, Ready, Frame
  <1>5. Coming' => Coming
    <2>1. Coming' => server # NoCopy
      BY <1>1 DEF Coming
    <2>2. server # NoCopy => server \in Copies
      BY <1>0, CopiesAssumption DEF TypeOK
    <2> QED
      BY <1>0, <1>1, <2>1, <2>2 DEF Exchange, Coming
  <1>6. Refusals'
    BY <1>0, <1>1, <1>5 DEF TypeOK, Exchange, Refusals, Serving, Frame
  <1> QED
    BY <1>2, <1>3, <1>4, <1>6

\* The session is reported to have returned nil while it goes on.
LEMMA NilKeeps ==
    ASSUME WaitInv, NilReturns
    PROVE  Exchange' /\ Relaying' /\ NilWaiting' /\ Refusals'
  <1>0. TypeOK /\ Exchange /\ Relaying /\ NilWaiting /\ Refusals
    BY DEF WaitInv
  <1>1. /\ boot = "running" /\ nil /\ boot' = "returned"
        /\ toCli' = toCli \/ toCli' = toCli \cup {Frame("nilReturn", NoCopy)}
        /\ UNCHANGED <<server, keyed, nil, running, age, sideChannel, claim, endTest, copy,
                        timer, sock, relayed, toCopy, nilTimer, nilAsked, ready>>
    BY DEF NilReturns, setup, studioVars, copyVars, wire, cliVars, SendFrame, NoFault
  <1>2. Exchange'
    BY <1>0, <1>1 DEF TypeOK, Exchange, AskedNil, Ready, Frame
  <1>3. Relaying'
    BY <1>0, <1>1 DEF TypeOK, Exchange, Relaying, Pending, AskedNil, Ready, Frame
  <1>4. NilWaiting'
    BY <1>0, <1>1 DEF TypeOK, Exchange, NilWaiting, AskedNil, Ready, Frame
  <1>5. Coming' => Coming
    BY <1>0, <1>1 DEF TypeOK, Exchange, Coming, Pending, AskedNil, Ready, Frame
  <1>6. Refusals'
    BY <1>0, <1>1, <1>5 DEF TypeOK, Exchange, Refusals, Serving, Frame
  <1> QED
    BY <1>2, <1>3, <1>4, <1>6

\* The session returns what EndTest was given.
LEMMA RunKeeps ==
    ASSUME WaitInv, RunReturns
    PROVE  Exchange' /\ Relaying' /\ NilWaiting' /\ Refusals'
  <1>0. TypeOK /\ Exchange /\ Relaying /\ NilWaiting /\ Refusals
    BY DEF WaitInv
  <1>1. /\ boot = "running" /\ ~nil /\ boot' = "returned"
        /\ \/ toCli' = toCli \/ toCli' = toCli \cup {Frame("error", NoCopy)}
           \/ endTest # "none" /\ toCli' = toCli \cup {Frame(endTest, NoCopy)}
        /\ UNCHANGED <<server, keyed, nil, running, age, sideChannel, claim, endTest, copy,
                        timer, sock, relayed, toCopy, nilTimer, nilAsked, ready>>
    BY DEF RunReturns, setup, studioVars, copyVars, wire, cliVars, SendFrame
  <1>2. Exchange'
    BY <1>0, <1>1 DEF TypeOK, Exchange, AskedNil, Ready, Frame
  <1>3. Relaying'
    BY <1>0, <1>1 DEF TypeOK, Exchange, Relaying, Pending, AskedNil, Ready, Frame
  <1>4. NilWaiting'
    BY <1>0, <1>1 DEF TypeOK, Exchange, NilWaiting, AskedNil, Ready, Frame
  <1>5. Coming' => Coming
    BY <1>0, <1>1 DEF TypeOK, Exchange, Coming, Pending, AskedNil, Ready, Frame
  <1>6. Refusals'
    BY <1>0, <1>1, <1>5 DEF TypeOK, Exchange, Refusals, Serving, Frame
  <1> QED
    BY <1>2, <1>3, <1>4, <1>6

\* The play session runs.
LEMMA PlayKeeps ==
    ASSUME WaitInv, PlayRuns
    PROVE  Exchange' /\ Relaying' /\ NilWaiting' /\ Refusals'
  <1>0. TypeOK /\ Exchange /\ Relaying /\ NilWaiting /\ Refusals
    BY DEF WaitInv
  <1>1. /\ running' = TRUE
        /\ UNCHANGED <<server, keyed, boot, nil, age, sideChannel, claim, endTest, copy,
                        timer, sock, relayed, toCli, toCopy, nilTimer, nilAsked, ready>>
    BY DEF PlayRuns, setup, studioVars, copyVars, wire, cliVars
  <1>2. Exchange'
    BY <1>0, <1>1 DEF TypeOK, Exchange, AskedNil, Ready, Frame
  <1>3. Relaying'
    BY <1>0, <1>1 DEF TypeOK, Exchange, Relaying, Pending, AskedNil, Ready, Frame
  <1>4. NilWaiting'
    BY <1>0, <1>1 DEF TypeOK, Exchange, NilWaiting, AskedNil, Ready, Frame
  <1>5. Coming' => Coming
    BY <1>0, <1>1 DEF TypeOK, Exchange, Coming, Pending, AskedNil, Ready, Frame
  <1>6. Refusals'
    BY <1>0, <1>1, <1>5 DEF TypeOK, Exchange, Refusals, Serving, Frame
  <1> QED
    BY <1>2, <1>3, <1>4, <1>6

\* A copy wakes up.
LEMMA StartKeeps ==
    ASSUME WaitInv, NEW c \in Copies, Starts(c)
    PROVE  Exchange' /\ Relaying' /\ NilWaiting' /\ Refusals'
  <1>0. TypeOK /\ Exchange /\ Relaying /\ NilWaiting /\ Refusals
    BY DEF WaitInv
  <1>1. /\ copy[c] = "off" /\ boot # "off"
        /\ \/ /\ running /\ copy' = [copy EXCEPT ![c] = "args"]
              /\ \/ /\ sock' = [sock EXCEPT ![c] = "opening"]
                    /\ timer' = [timer EXCEPT ![c] = RelayWait]
                 \/ sock' = sock /\ timer' = [timer EXCEPT ![c] = ArgsWait]
           \/ /\ copy' = [copy EXCEPT ![c] = "waiting"]
              /\ timer' = [timer EXCEPT ![c] = RunningWait] /\ sock' = sock
        /\ UNCHANGED <<server, keyed, boot, nil, running, age, sideChannel, claim, endTest,
                        relayed, toCli, toCopy, nilTimer, nilAsked, ready>>
    BY DEF Starts, setup, studioVars, copyVars, wire, cliVars, Begin, Enter
  <1>7. /\ \A d \in Copies \ {c} : /\ copy'[d] = copy[d] /\ timer'[d] = timer[d]
                                 /\ sock'[d] = sock[d]
        /\ \/ running /\ copy'[c] = "args"
              /\ \/ sock'[c] = "opening" /\ timer'[c] = RelayWait
                 \/ sock'[c] = "none" /\ timer'[c] = ArgsWait
           \/ copy'[c] = "waiting" /\ timer'[c] = RunningWait /\ sock'[c] = "none"
    BY <1>0, <1>1 DEF TypeOK, Exchange, Off
  <1>2. Exchange'
    BY <1>0, <1>1, <1>7 DEF TypeOK, Exchange, AskedNil, Ready, Frame
  <1>3. Relaying'
    BY <1>0, <1>1, <1>7, CopiesAssumption, WaitsAssumption, NestAssumption
       DEF TypeOK, Exchange, Relaying, Pending, AskedNil, Ready, Frame
  <1>4. NilWaiting'
    BY <1>0, <1>1, <1>7, CopiesAssumption, WaitsAssumption, NestAssumption
       DEF TypeOK, Exchange, NilWaiting, AskedNil, Ready, Frame
  <1>5. Coming' => Coming
    BY <1>0, <1>1, CopiesAssumption DEF TypeOK, Exchange, Coming, Pending, AskedNil, Ready, Frame
  <1>6. Refusals'
    BY <1>0, <1>1, <1>5, <1>7, CopiesAssumption, WaitsAssumption, NestAssumption
       DEF TypeOK, Exchange, Refusals, Serving, Frame
  <1> QED
    BY <1>2, <1>3, <1>4, <1>6

\* A copy no longer waits for the play session.
LEMMA WaitKeeps ==
    ASSUME WaitInv, NEW c \in Copies, WaitEnds(c)
    PROVE  Exchange' /\ Relaying' /\ NilWaiting' /\ Refusals'
  <1>0. TypeOK /\ Exchange /\ Relaying /\ NilWaiting /\ Refusals
    BY DEF WaitInv
  <1>1. /\ copy[c] = "waiting"
        /\ \/ /\ running /\ copy' = [copy EXCEPT ![c] = "args"]
              /\ \/ /\ sock' = [sock EXCEPT ![c] = "opening"]
                    /\ timer' = [timer EXCEPT ![c] = RelayWait]
                 \/ sock' = sock /\ timer' = [timer EXCEPT ![c] = ArgsWait]
           \/ copy' = [copy EXCEPT ![c] = "done"] /\ timer' = [timer EXCEPT ![c] = Off] /\ sock' = sock
        /\ UNCHANGED <<server, keyed, boot, nil, running, age, sideChannel, claim, endTest,
                        relayed, toCli, toCopy, nilTimer, nilAsked, ready>>
    BY DEF WaitEnds, setup, studioVars, copyVars, wire, cliVars, Begin, Enter
  <1>7. /\ \A d \in Copies \ {c} : /\ copy'[d] = copy[d] /\ timer'[d] = timer[d]
                                 /\ sock'[d] = sock[d]
        /\ \/ running /\ copy'[c] = "args"
              /\ \/ sock'[c] = "opening" /\ timer'[c] = RelayWait
                 \/ sock'[c] = "none" /\ timer'[c] = ArgsWait
           \/ copy'[c] = "done" /\ sock'[c] = "none"
    BY <1>0, <1>1 DEF TypeOK, Exchange, Off
  <1>2. Exchange'
    BY <1>0, <1>1, <1>7 DEF TypeOK, Exchange, AskedNil, Ready, Frame
  <1>3. Relaying'
    BY <1>0, <1>1, <1>7, CopiesAssumption, WaitsAssumption, NestAssumption
       DEF TypeOK, Exchange, Relaying, Pending, AskedNil, Ready, Frame
  <1>4. NilWaiting'
    BY <1>0, <1>1, <1>7, CopiesAssumption, WaitsAssumption, NestAssumption
       DEF TypeOK, Exchange, NilWaiting, AskedNil, Ready, Frame
  <1>5. Coming' => Coming
    BY <1>0, <1>1, CopiesAssumption DEF TypeOK, Exchange, Coming, Pending, AskedNil, Ready, Frame
  <1>6. Refusals'
    BY <1>0, <1>1, <1>5, <1>7, CopiesAssumption, WaitsAssumption, NestAssumption
       DEF TypeOK, Exchange, Refusals, Serving, Frame
  <1> QED
    BY <1>2, <1>3, <1>4, <1>6

\* A copy reports that its socket is ready.
LEMMA OpenKeeps ==
    ASSUME WaitInv, NEW c \in Copies, Opened(c)
    PROVE  Exchange' /\ Relaying' /\ NilWaiting' /\ Refusals'
  <1>0. TypeOK /\ Exchange /\ Relaying /\ NilWaiting /\ Refusals
    BY DEF WaitInv
  <1>1. /\ sock[c] = "opening" /\ sock' = [sock EXCEPT ![c] = "open"]
        /\ toCli' = toCli \cup {Frame("pluginReady", c)}
        /\ UNCHANGED <<server, keyed, boot, nil, running, age, sideChannel, claim, endTest,
                        copy, timer, relayed, toCopy, nilTimer, nilAsked, ready>>
    BY DEF Opened, setup, studioVars, copyVars, wire, cliVars
  <1>2. Exchange'
    BY <1>0, <1>1 DEF TypeOK, Exchange, AskedNil, Ready, Frame
  <1>3. Relaying'
    BY <1>0, <1>1, CopiesAssumption, WaitsAssumption, NestAssumption
       DEF TypeOK, Exchange, Relaying, Pending, AskedNil, Ready, Frame
  <1>4. NilWaiting'
    BY <1>0, <1>1, CopiesAssumption, WaitsAssumption, NestAssumption
       DEF TypeOK, Exchange, NilWaiting, AskedNil, Ready, Frame
  <1>5. Coming' => Coming
    BY <1>0, <1>1, CopiesAssumption DEF TypeOK, Exchange, Coming, Pending, AskedNil, Ready, Frame
  <1>6. Refusals'
    BY <1>0, <1>1, <1>5, CopiesAssumption, WaitsAssumption, NestAssumption
       DEF TypeOK, Exchange, Refusals, Serving, Frame
  <1> QED
    BY <1>2, <1>3, <1>4, <1>6

\* A copy is told to relay.
LEMMA RelayKeeps ==
    ASSUME WaitInv, NEW c \in Copies, HearsRelay(c)
    PROVE  Exchange' /\ Relaying' /\ NilWaiting' /\ Refusals'
  <1>0. TypeOK /\ Exchange /\ Relaying /\ NilWaiting /\ Refusals
    BY DEF WaitInv
  <1>1. /\ c \in toCopy /\ toCopy' = toCopy \ {c}
        /\ \/ relayed' = relayed
           \/ sock[c] = "open" /\ relayed' = relayed \cup {c}
        /\ UNCHANGED <<server, keyed, boot, nil, running, age, sideChannel, claim, endTest,
                        copy, timer, sock, toCli, nilTimer, nilAsked, ready>>
    BY DEF HearsRelay, setup, studioVars, copyVars, wire, cliVars
  <1>2. Exchange'
    BY <1>0, <1>1 DEF TypeOK, Exchange, AskedNil, Ready, Frame
  <1>3. Relaying'
    BY <1>0, <1>1, CopiesAssumption, WaitsAssumption, NestAssumption
       DEF TypeOK, Exchange, Relaying, Pending, AskedNil, Ready, Frame
  <1>4. NilWaiting'
    BY <1>0, <1>1, CopiesAssumption, WaitsAssumption, NestAssumption
       DEF TypeOK, Exchange, NilWaiting, AskedNil, Ready, Frame
  <1>5. Coming' => Coming
    BY <1>0, <1>1, CopiesAssumption DEF TypeOK, Exchange, Coming, Pending, AskedNil, Ready, Frame
  <1>6. Refusals'
    BY <1>0, <1>1, <1>5, CopiesAssumption, WaitsAssumption, NestAssumption
       DEF TypeOK, Exchange, Refusals, Serving, Frame
  <1> QED
    BY <1>2, <1>3, <1>4, <1>6

\* The handshake.
LEMMA TakeKeeps ==
    ASSUME WaitInv, NEW c \in Copies, TakesArgs(c)
    PROVE  Exchange' /\ Relaying' /\ NilWaiting' /\ Refusals'
  <1>0. TypeOK /\ Exchange /\ Relaying /\ NilWaiting /\ Refusals
    BY DEF WaitInv
  <1>1. /\ copy[c] = "args" /\ HasArgs(c)
        /\ IF c = server
           THEN /\ copy' = [copy EXCEPT ![c] = "serving"] /\ timer' = [timer EXCEPT ![c] = Off]
                /\ claim' = TRUE
           ELSE /\ copy' = [copy EXCEPT ![c] = "deferring"] /\ timer' = [timer EXCEPT ![c] = Defer]
                /\ UNCHANGED claim
        /\ UNCHANGED <<server, keyed, boot, nil, running, age, endTest, sock, relayed,
                        toCli, toCopy, nilTimer, nilAsked, ready>>
    BY DEF TakesArgs, setup, studioVars, copyVars, wire, cliVars, Enter
  <1>7. /\ \A d \in Copies \ {c} : copy'[d] = copy[d] /\ timer'[d] = timer[d]
        /\ c = server => copy'[c] = "serving" /\ timer'[c] = Off /\ claim'
        /\ c # server => copy'[c] = "deferring" /\ timer'[c] = Defer /\ claim' = claim
        /\ nil => c \in relayed /\ nilAsked /\ ~Pending(c)
        /\ c = server => Coming
    <2>1. server = c => server # NoCopy
      BY <1>0, CopiesAssumption
    <2> QED
      BY <1>0, <1>1, <2>1 DEF TypeOK, Exchange, HasArgs, Coming, Pending, AskedNil, Ready
  <1>2. Exchange'
    BY <1>0, <1>1, <1>7 DEF TypeOK, Exchange, AskedNil, Ready, Frame
  <1>3. Relaying'
    BY <1>0, <1>1, <1>7, CopiesAssumption, WaitsAssumption, NestAssumption
       DEF TypeOK, Exchange, Relaying, Pending, AskedNil, Ready, Frame
  <1>4. NilWaiting'
    BY <1>0, <1>1, <1>7, CopiesAssumption, WaitsAssumption, NestAssumption
       DEF TypeOK, Exchange, NilWaiting, AskedNil, Ready, Frame
  <1>5. Coming' => Coming
    BY <1>0, <1>1, CopiesAssumption DEF TypeOK, Exchange, Coming, Pending, AskedNil, Ready, Frame
  <1>6. Refusals'
    <2>1. \A d \in Copies : copy'[d] \in {"args", "deferring"} => running
      BY <1>0, <1>1, <1>7 DEF Refusals
    <2>2. \A d \in Copies : copy'[d] = "serving" => d = server /\ claim'
      BY <1>0, <1>1, <1>7 DEF Refusals
    <2>3. c # server => Serving' = Serving
      BY <1>0, <1>1, <1>7, CopiesAssumption DEF TypeOK, Serving
    <2>4. ASSUME NEW d \in Copies, copy'[d] = "deferring"
          PROVE  /\ d # server /\ (nil => nilAsked)
                 /\ Coming' => timer'[d] >= Defer - age
                 /\ Serving' => timer'[d] > 0
      <3>1. CASE d = c
        BY <1>0, <1>1, <1>7, <2>4, <3>1, WaitsAssumption DEF TypeOK
      <3>2. CASE d # c
        <4>1. /\ d # server /\ (nil => nilAsked)
              /\ Coming => timer[d] >= Defer - age
              /\ Serving => timer[d] > 0
          BY <1>0, <1>7, <2>4, <3>2 DEF Refusals
        <4>2. timer[d] >= Defer - age => timer[d] > 0
          BY <1>0, <2>4, WaitsAssumption, NestAssumption DEF TypeOK, Off
        <4> QED
          BY <1>5, <1>7, <2>3, <3>2, <4>1, <4>2
      <3> QED
        BY <3>1, <3>2
    <2>5. endTest = "refused" \/ (\E f \in toCli : f.type = "refused") => ~Serving' /\ ~Coming'
      BY <1>0, <1>5, <1>7, <2>3 DEF Refusals
    <2> QED
      BY <1>1, <2>1, <2>2, <2>4, <2>5 DEF Refusals
  <1> QED
    BY <1>2, <1>3, <1>4, <1>6

\* A copy stops waiting for its arguments.
LEMMA GiveUpKeeps ==
    ASSUME WaitInv, NEW c \in Copies, GivesUp(c)
    PROVE  Exchange' /\ Relaying' /\ NilWaiting' /\ Refusals'
  <1>0. TypeOK /\ Exchange /\ Relaying /\ NilWaiting /\ Refusals
    BY DEF WaitInv
  <1>1. /\ copy[c] = "args" /\ timer[c] = 0 /\ ~HasArgs(c)
        /\ copy' = [copy EXCEPT ![c] = "done"] /\ timer' = [timer EXCEPT ![c] = Off]
        /\ UNCHANGED <<server, keyed, boot, nil, running, age, sideChannel, claim, endTest,
                        sock, relayed, toCli, toCopy, nilTimer, nilAsked, ready>>
    BY DEF GivesUp, setup, studioVars, copyVars, wire, cliVars, studioVars, Enter
  <1>2. Exchange'
    BY <1>0, <1>1 DEF TypeOK, Exchange, AskedNil, Ready, Frame
  <1>3. Relaying'
    BY <1>0, <1>1, CopiesAssumption, WaitsAssumption, NestAssumption
       DEF TypeOK, Exchange, Relaying, Pending, AskedNil, Ready, Frame
  <1>4. NilWaiting'
    BY <1>0, <1>1, CopiesAssumption, WaitsAssumption, NestAssumption
       DEF TypeOK, Exchange, NilWaiting, AskedNil, Ready, Frame
  <1>5. Coming' => Coming
    BY <1>0, <1>1, CopiesAssumption DEF TypeOK, Exchange, Coming, Pending, AskedNil, Ready, Frame
  <1>6. Refusals'
    BY <1>0, <1>1, <1>5, CopiesAssumption, WaitsAssumption, NestAssumption
       DEF TypeOK, Exchange, Refusals, Serving, Frame
  <1> QED
    BY <1>2, <1>3, <1>4, <1>6

\* A copy stands down.
LEMMA YieldKeeps ==
    ASSUME WaitInv, NEW c \in Copies, Yields(c)
    PROVE  Exchange' /\ Relaying' /\ NilWaiting' /\ Refusals'
  <1>0. TypeOK /\ Exchange /\ Relaying /\ NilWaiting /\ Refusals
    BY DEF WaitInv
  <1>1. /\ copy[c] = "deferring"
        /\ copy' = [copy EXCEPT ![c] = "done"] /\ timer' = [timer EXCEPT ![c] = Off]
        /\ UNCHANGED <<server, keyed, boot, nil, running, age, sideChannel, claim, endTest,
                        sock, relayed, toCli, toCopy, nilTimer, nilAsked, ready>>
    BY DEF Yields, setup, studioVars, copyVars, wire, cliVars, studioVars, Enter
  <1>2. Exchange'
    BY <1>0, <1>1 DEF TypeOK, Exchange, AskedNil, Ready, Frame
  <1>3. Relaying'
    BY <1>0, <1>1, CopiesAssumption, WaitsAssumption, NestAssumption
       DEF TypeOK, Exchange, Relaying, Pending, AskedNil, Ready, Frame
  <1>4. NilWaiting'
    BY <1>0, <1>1, CopiesAssumption, WaitsAssumption, NestAssumption
       DEF TypeOK, Exchange, NilWaiting, AskedNil, Ready, Frame
  <1>5. Coming' => Coming
    BY <1>0, <1>1, CopiesAssumption DEF TypeOK, Exchange, Coming, Pending, AskedNil, Ready, Frame
  <1>6. Refusals'
    BY <1>0, <1>1, <1>5, CopiesAssumption, WaitsAssumption, NestAssumption
       DEF TypeOK, Exchange, Refusals, Serving, Frame
  <1> QED
    BY <1>2, <1>3, <1>4, <1>6

\* A copy that does not fit refuses.
LEMMA RefuseKeeps ==
    ASSUME WaitInv, NEW c \in Copies, Refuses(c)
    PROVE  Exchange' /\ Relaying' /\ NilWaiting' /\ Refusals'
  <1>0. TypeOK /\ Exchange /\ Relaying /\ NilWaiting /\ Refusals
    BY DEF WaitInv
  <1>1. /\ copy[c] = "deferring" /\ timer[c] = 0
        /\ copy' = [copy EXCEPT ![c] = "done"] /\ timer' = [timer EXCEPT ![c] = Off]
        /\ endTest' \in {endTest, "refused"} /\ toCli' \in {toCli, toCli \cup {Frame("refused", c)}}
        /\ endTest' # endTest => boot = "running"
        /\ UNCHANGED <<server, keyed, boot, nil, running, age, sideChannel, claim, sock,
                        relayed, toCopy, nilTimer, nilAsked, ready>>
    BY DEF Refuses, setup, studioVars, copyVars, wire, cliVars, studioVars, Enter, EndTest
  <1>2. Exchange'
    BY <1>0, <1>1 DEF TypeOK, Exchange, AskedNil, Ready, Frame
  <1>3. Relaying'
    BY <1>0, <1>1, CopiesAssumption, WaitsAssumption, NestAssumption
       DEF TypeOK, Exchange, Relaying, Pending, AskedNil, Ready, Frame
  <1>4. NilWaiting'
    BY <1>0, <1>1, CopiesAssumption, WaitsAssumption, NestAssumption
       DEF TypeOK, Exchange, NilWaiting, AskedNil, Ready, Frame
  <1>5. Coming' => Coming
    BY <1>0, <1>1, CopiesAssumption DEF TypeOK, Exchange, Coming, Pending, AskedNil, Ready, Frame
  <1>6. Refusals'
    BY <1>0, <1>1, <1>5, CopiesAssumption, WaitsAssumption, NestAssumption
       DEF TypeOK, Exchange, Refusals, Serving, Frame
  <1> QED
    BY <1>2, <1>3, <1>4, <1>6

\* The serving copy answers.
LEMMA ServedKeeps ==
    ASSUME WaitInv, ServeEnds
    PROVE  Exchange' /\ Relaying' /\ NilWaiting' /\ Refusals'
  <1>0. TypeOK /\ Exchange /\ Relaying /\ NilWaiting /\ Refusals
    BY DEF WaitInv
  <1>1. /\ Serving
        /\ copy' = [copy EXCEPT ![server] = "done"] /\ timer' = [timer EXCEPT ![server] = Off]
        /\ \E a \in {"entries", "error"} : /\ endTest' \in {endTest, a}
                                      /\ toCli' \in {toCli, toCli \cup {Frame(a, server)}}
        /\ endTest' # endTest => boot = "running"
        /\ UNCHANGED <<server, keyed, boot, nil, running, age, sideChannel, claim, sock,
                        relayed, toCopy, nilTimer, nilAsked, ready>>
    BY DEF ServeEnds, setup, studioVars, copyVars, wire, cliVars, Enter, EndTest
  <1>7. /\ server \in Copies /\ copy[server] = "serving" /\ server # NoCopy
        /\ \A d \in Copies \ {server} : copy'[d] = copy[d] /\ timer'[d] = timer[d]
        /\ copy'[server] = "done"
        /\ AskedNil' = AskedNil /\ \A d \in Copies : Ready(d)' = Ready(d)
    BY <1>0, <1>1, CopiesAssumption DEF TypeOK, Serving, AskedNil, Ready, Frame
  <1>2. Exchange'
    BY <1>0, <1>1, <1>7 DEF TypeOK, Exchange, AskedNil, Ready, Frame
  <1>3. Relaying'
    BY <1>0, <1>1, <1>7, CopiesAssumption, WaitsAssumption, NestAssumption
       DEF TypeOK, Exchange, Relaying, Pending, AskedNil, Ready, Frame
  <1>4. NilWaiting'
    BY <1>0, <1>1, <1>7, CopiesAssumption, WaitsAssumption, NestAssumption
       DEF TypeOK, Exchange, NilWaiting, AskedNil, Ready, Frame
  <1>5. Coming' => Coming
    BY <1>0, <1>1, CopiesAssumption DEF TypeOK, Exchange, Coming, Pending, AskedNil, Ready, Frame
  <1>6. Refusals'
    BY <1>0, <1>1, <1>5, <1>7, CopiesAssumption, WaitsAssumption, NestAssumption
       DEF TypeOK, Exchange, Refusals, Serving, Frame
  <1> QED
    BY <1>2, <1>3, <1>4, <1>6

\* The command line hears of a nil return.
LEMMA HearNilKeeps ==
    ASSUME WaitInv, HearsNil
    PROVE  Exchange' /\ Relaying' /\ NilWaiting' /\ Refusals'
  <1>0. TypeOK /\ Exchange /\ Relaying /\ NilWaiting /\ Refusals
    BY DEF WaitInv
  <1>1. /\ Frame("nilReturn", NoCopy) \in toCli
        /\ toCli' = toCli \ {Frame("nilReturn", NoCopy)}
        /\ nilAsked' = TRUE /\ nilTimer' = IF ready = {} THEN NilWait ELSE Off
        /\ toCopy' = toCopy \cup ready
        /\ UNCHANGED <<server, keyed, boot, nil, running, age, sideChannel, claim, endTest,
                        copy, timer, sock, relayed, ready>>
    BY DEF HearsNil, setup, studioVars, copyVars, wire, cliVars
  <1>2. Exchange'
    BY <1>0, <1>1 DEF TypeOK, Exchange, AskedNil, Ready, Frame
  <1>3. Relaying'
    BY <1>0, <1>1, CopiesAssumption, WaitsAssumption, NestAssumption
       DEF TypeOK, Exchange, Relaying, Pending, AskedNil, Ready, Frame
  <1>4. NilWaiting'
    BY <1>0, <1>1, CopiesAssumption, WaitsAssumption, NestAssumption
       DEF TypeOK, Exchange, NilWaiting, AskedNil, Ready, Frame
  <1>5. Coming' => Coming
    BY <1>0, <1>1, CopiesAssumption DEF TypeOK, Exchange, Coming, Pending, AskedNil, Ready, Frame
  <1>6. Refusals'
    BY <1>0, <1>1, <1>5, CopiesAssumption, WaitsAssumption, NestAssumption
       DEF TypeOK, Exchange, Refusals, Serving, Frame
  <1> QED
    BY <1>2, <1>3, <1>4, <1>6

\* The command line hears that a copy is ready.
LEMMA HearReadyKeeps ==
    ASSUME WaitInv, NEW c \in Copies, HearsReady(c)
    PROVE  Exchange' /\ Relaying' /\ NilWaiting' /\ Refusals'
  <1>0. TypeOK /\ Exchange /\ Relaying /\ NilWaiting /\ Refusals
    BY DEF WaitInv
  <1>1. /\ Frame("pluginReady", c) \in toCli
        /\ toCli' = toCli \ {Frame("pluginReady", c)} /\ ready' = ready \cup {c}
        /\ IF nilAsked THEN toCopy' = toCopy \cup {c} /\ nilTimer' = Off
           ELSE UNCHANGED <<toCopy, nilTimer>>
        /\ UNCHANGED <<server, keyed, boot, nil, running, age, sideChannel, claim, endTest,
                        copy, timer, sock, relayed, nilAsked>>
    BY DEF HearsReady, setup, studioVars, copyVars, wire, cliVars
  <1>2. Exchange'
    BY <1>0, <1>1 DEF TypeOK, Exchange, AskedNil, Ready, Frame
  <1>3. Relaying'
    BY <1>0, <1>1, CopiesAssumption, WaitsAssumption, NestAssumption
       DEF TypeOK, Exchange, Relaying, Pending, AskedNil, Ready, Frame
  <1>4. NilWaiting'
    BY <1>0, <1>1, CopiesAssumption, WaitsAssumption, NestAssumption
       DEF TypeOK, Exchange, NilWaiting, AskedNil, Ready, Frame
  <1>5. Coming' => Coming
    BY <1>0, <1>1, CopiesAssumption DEF TypeOK, Exchange, Coming, Pending, AskedNil, Ready, Frame
  <1>6. Refusals'
    BY <1>0, <1>1, <1>5, CopiesAssumption, WaitsAssumption, NestAssumption
       DEF TypeOK, Exchange, Refusals, Serving, Frame
  <1> QED
    BY <1>2, <1>3, <1>4, <1>6

\* The command line hears that the session started.
LEMMA HearKeeps ==
    ASSUME WaitInv, HearsStarted
    PROVE  Exchange' /\ Relaying' /\ NilWaiting' /\ Refusals'
  <1>0. TypeOK /\ Exchange /\ Relaying /\ NilWaiting /\ Refusals
    BY DEF WaitInv
  <1>1. /\ toCli' = toCli \ {Frame("started", NoCopy)}
        /\ UNCHANGED <<server, keyed, boot, nil, running, age, sideChannel, claim, endTest,
                        copy, timer, sock, relayed, toCopy, nilTimer, nilAsked, ready>>
    BY DEF HearsStarted, setup, studioVars, copyVars, wire, cliVars
  <1>2. Exchange'
    BY <1>0, <1>1 DEF TypeOK, Exchange, AskedNil, Ready, Frame
  <1>3. Relaying'
    BY <1>0, <1>1 DEF TypeOK, Exchange, Relaying, Pending, AskedNil, Ready, Frame
  <1>4. NilWaiting'
    BY <1>0, <1>1 DEF TypeOK, Exchange, NilWaiting, AskedNil, Ready, Frame
  <1>5. Coming' => Coming
    BY <1>0, <1>1 DEF TypeOK, Exchange, Coming, Pending, AskedNil, Ready, Frame
  <1>6. Refusals'
    BY <1>0, <1>1, <1>5 DEF TypeOK, Exchange, Refusals, Serving, Frame
  <1> QED
    BY <1>2, <1>3, <1>4, <1>6

\* A socket is lost.
LEMMA DropKeeps ==
    ASSUME WaitInv, NEW c \in Copies, Drop(c)
    PROVE  Exchange' /\ Relaying' /\ NilWaiting' /\ Refusals'
  <1>0. TypeOK /\ Exchange /\ Relaying /\ NilWaiting /\ Refusals
    BY DEF WaitInv
  <1>1. /\ sock[c] = "open" /\ sock' = [sock EXCEPT ![c] = "lost"]
        /\ UNCHANGED <<server, keyed, boot, nil, running, age, sideChannel, claim, endTest,
                        copy, timer, relayed, toCli, toCopy, nilTimer, nilAsked, ready>>
    BY DEF Drop, setup, studioVars, copyVars, wire, cliVars
  <1>2. Exchange'
    BY <1>0, <1>1 DEF TypeOK, Exchange, AskedNil, Ready, Frame
  <1>3. Relaying'
    BY <1>0, <1>1, CopiesAssumption, WaitsAssumption, NestAssumption
       DEF TypeOK, Exchange, Relaying, Pending, AskedNil, Ready, Frame
  <1>4. NilWaiting'
    BY <1>0, <1>1, CopiesAssumption, WaitsAssumption, NestAssumption
       DEF TypeOK, Exchange, NilWaiting, AskedNil, Ready, Frame
  <1>5. Coming' => Coming
    BY <1>0, <1>1, CopiesAssumption DEF TypeOK, Exchange, Coming, Pending, AskedNil, Ready, Frame
  <1>6. Refusals'
    BY <1>0, <1>1, <1>5, CopiesAssumption, WaitsAssumption, NestAssumption
       DEF TypeOK, Exchange, Refusals, Serving, Frame
  <1> QED
    BY <1>2, <1>3, <1>4, <1>6

\* Steps that leave the machines' waits alone, or end the command line's.
LEMMA RestKeeps ==
    ASSUME WaitInv, UNCHANGED <<setup, studioVars, age, copyVars, toCopy, nilAsked, ready>>,
           toCli' \subseteq toCli, nilTimer' \in {Off, nilTimer},
           AskedNil' = AskedNil, \A c \in Copies : Ready(c)' = Ready(c)
    PROVE  Exchange' /\ Relaying' /\ NilWaiting' /\ Refusals'
  <1>0. TypeOK /\ Exchange /\ Relaying /\ NilWaiting /\ Refusals
    BY DEF WaitInv
  <1>1. UNCHANGED <<server, keyed, boot, nil, running, age, sideChannel, claim, endTest, copy,
                    timer, sock, relayed, toCopy, nilAsked, ready>>
    BY DEF setup, studioVars, copyVars
  <1>2. \A c \in Copies : Pending(c)' = Pending(c)
    BY <1>1 DEF Pending
  <1>3. Exchange'
    BY <1>0, <1>1 DEF TypeOK, Exchange
  <1>4. Relaying'
    BY <1>0, <1>1, <1>2 DEF Relaying
  <1>5. NilWaiting'
    BY <1>0, <1>1 DEF NilWaiting
  <1>6. Coming' = Coming /\ Serving' = Serving
    <2>1. server # NoCopy => server \in Copies
      BY <1>0, CopiesAssumption DEF TypeOK
    <2> QED
      BY <1>1, <1>2, <2>1 DEF Coming, Serving
  <1>7. Refusals'
    BY <1>0, <1>1, <1>6 DEF Refusals
  <1> QED
    BY <1>3, <1>4, <1>5, <1>7

\* Time goes on: no copy that is to be told to relay, and none that is to claim the run, is
\* kept waiting once the copies have had Skew ticks.
LEMMA TickKeeps ==
    ASSUME WaitInv, Tick
    PROVE  Exchange' /\ Relaying' /\ NilWaiting' /\ Refusals'
  <1>0. TypeOK /\ Exchange /\ Relaying /\ NilWaiting /\ Refusals
    BY DEF WaitInv
  <1>1. /\ UNCHANGED <<server, keyed, boot, nil, running, sideChannel, claim, endTest, copy,
                       sock, relayed, toCli, toCopy, nilAsked, ready>>
        /\ toCli = {} /\ toCopy = {}
        /\ \A c \in Copies : ~(copy[c] = "deferring" /\ claim)
        /\ nilTimer # 0 /\ \A c \in Copies : timer[c] # 0
        /\ nilTimer' = Later(nilTimer) /\ timer' = [c \in Copies |-> Later(timer[c])]
    BY DEF Tick, Prompt, setup, studioVars, wire
  <1>2. boot = "off" \/ age < Skew \/ (~(nil /\ boot = "running") /\ \A c \in Copies : ~Due(c))
    BY <1>0, WaitsAssumption DEF TypeOK, Tick, Prompt
  <1>3. age' = IF boot # "off" /\ age < Skew THEN age + 1 ELSE age
    BY DEF Tick
  <1>4. /\ \A c \in Copies : timer'[c] = IF timer[c] > 0 THEN timer[c] - 1 ELSE timer[c]
        /\ \A c \in Copies : timer[c] > 0 \/ timer[c] = Off
        /\ \/ nilTimer > 0 /\ nilTimer' = nilTimer - 1
           \/ nilTimer = Off /\ nilTimer' = Off
        /\ age \in 0..Skew
    BY <1>0, <1>1, WaitsAssumption DEF TypeOK, Later, Off
  <1>5. \A c \in Copies : Pending(c)' = Pending(c) /\ Ready(c)' = Ready(c) /\ ~Ready(c)
    BY <1>1 DEF Pending, AskedNil, Ready
  <1>6. Exchange'
    BY <1>0, <1>1 DEF Exchange, AskedNil, Ready
  <1>7. Relaying'
    <2>1. ASSUME NEW c \in Copies, nil, Pending(c)
          PROVE  boot # "off" /\ age < Skew
      BY <1>0, <1>1, <1>2, <2>1 DEF Exchange, Pending, AskedNil, Ready, Due
    <2>2. ASSUME NEW c \in Copies, nil, Pending(c)
          PROVE  copy[c] = "args" /\ timer'[c] >= RelayWait - age'
      BY <1>0, <1>3, <1>4, <2>1, <2>2, WaitsAssumption, NestAssumption DEF TypeOK, Relaying, Off
    <2> QED
      BY <1>1, <1>5, <2>2 DEF Relaying
  <1>8. NilWaiting'
    <2>1. ASSUME NEW c \in Copies, copy[c] = "waiting"
          PROVE  timer'[c] \in 0..RunningWait
      BY <1>0, <1>4, <2>1, WaitsAssumption DEF NilWaiting, Off
    <2>2. ASSUME nilTimer' # Off
          PROVE  /\ nilAsked /\ ready = {}
                 /\ age' < Skew => nilTimer' >= NilWait - age'
                 /\ \A c \in Copies :
                      /\ copy[c] = "off" => nilTimer' >= NilWait - age'
                      /\ copy[c] = "waiting" => timer'[c] < nilTimer'
                      /\ sock[c] = "opening" => nilTimer' > 0
      <3>1. /\ nilTimer # Off /\ nilTimer > 0 /\ nilTimer' = nilTimer - 1
            /\ nilTimer \in Int /\ boot # "off"
        BY <1>0, <1>4, <2>2 DEF TypeOK, Exchange, NilWaiting, Off
      <3>2. age < Skew => nilTimer' >= NilWait - age' /\ age' = age + 1
        BY <1>0, <1>3, <1>4, <3>1, WaitsAssumption DEF NilWaiting
      <3>3. \A c \in Copies : copy[c] = "off" \/ sock[c] = "opening" => age < Skew
        BY <1>2, <3>1 DEF Due
      <3>4. age < Skew => nilTimer' > 0
        BY <1>3, <1>4, <3>1, <3>2, WaitsAssumption, NestAssumption
      <3>5. \A c \in Copies : copy[c] = "waiting" => timer'[c] < nilTimer'
        BY <1>0, <1>4, <3>1, WaitsAssumption DEF TypeOK, NilWaiting, Off
      <3>6. age' < Skew => age < Skew
        BY <1>3, <1>4, WaitsAssumption
      <3> QED
        BY <1>0, <3>1, <3>2, <3>3, <3>4, <3>5, <3>6 DEF NilWaiting
    <2> QED
      BY <1>1, <1>5, <2>1, <2>2 DEF NilWaiting
  <1>9. Coming' = Coming /\ Serving' = Serving
    <2>1. server # NoCopy => server \in Copies
      BY <1>0, CopiesAssumption DEF TypeOK
    <2> QED
      BY <1>1, <1>5, <2>1 DEF Coming, Serving
  <1>10. Refusals'
    <2>1. ASSUME NEW c \in Copies, copy[c] = "deferring"
          PROVE  /\ Coming => timer'[c] >= Defer - age'
                 /\ Serving => timer'[c] > 0
      <3>1. boot # "off" /\ running /\ c # server /\ (nil => nilAsked) /\ timer[c] \in Nat \cup {Off}
        BY <1>0, <2>1 DEF TypeOK, Exchange, Refusals
      <3>2. ~Serving
        BY <1>0, <1>1, <2>1, CopiesAssumption DEF TypeOK, Refusals, Serving
      <3>3. Coming => age < Skew
        <4>1. Coming => server \in Copies
          BY <1>0, CopiesAssumption DEF TypeOK, Coming
        <4> QED
          BY <1>1, <1>2, <1>5, <3>1, <4>1 DEF Coming, Due, HasArgs, Pending, Ready
      <3>4. Coming => timer'[c] >= Defer - age'
        BY <1>0, <1>3, <1>4, <2>1, <3>1, <3>3, WaitsAssumption, NestAssumption DEF Refusals, Off
      <3> QED
        BY <3>2, <3>4
    <2> QED
      BY <1>0, <1>1, <1>9, <2>1 DEF Refusals
  <1> QED
    BY <1>6, <1>7, <1>8, <1>10

-----------------------------------------------------------------------------
(* Types.                                                                     *)

\* The coordinator has sent out at most one exchange per package.
FanTyped == FanOutTypeOK /\ batch <= pkg /\ (stage = "exchange" => pkg >= 1)

LEMMA PackageTyped ==
    ASSUME FanTyped, StartPackage
    PROVE  FanTyped'
  <1>1. /\ pkg < Packages /\ pkg' = pkg + 1 /\ UNCHANGED <<live, fired, kept>>
        /\ pkg \in 0..Packages /\ batch \in 0..Packages /\ batch <= pkg /\ stage = "between"
    BY DEF FanTyped, FanOutTypeOK, StartPackage
  <1>2. pkg' \in 1..Packages /\ batch + 1 \in 1..Packages /\ batch + 1 <= pkg' /\ batch <= pkg'
    BY <1>1, FanOutAssumption
  <1>3. CASE UNCHANGED <<stage, staged, batch, threads, received, wait>>
    BY <1>1, <1>2, <1>3 DEF FanTyped, FanOutTypeOK
  <1>4. CASE /\ stage' = "exchange" /\ staged' = pkg' /\ batch' = batch + 1
             /\ threads' = [h \in Hosts |-> threads[h] \cup NewThreads(h)]
             /\ received' = {} /\ wait' = HostWait
    <2>1. \A h \in Hosts : NewThreads(h) \in
            SUBSET [batch : 1..Packages, pkg : 1..Packages, left : SUBSET Indices]
      BY <1>2, <1>4 DEF NewThreads, Thread, SliceOf
    <2>2. threads' \in [Hosts -> SUBSET [batch : 1..Packages, pkg : 1..Packages,
                                         left : SUBSET Indices]]
      BY <1>4, <2>1 DEF FanTyped, FanOutTypeOK
    <2> QED
      BY <1>1, <1>2, <1>4, <2>2, FanOutAssumption DEF FanTyped, FanOutTypeOK, Off
  <1> QED
    BY <1>3, <1>4 DEF StartPackage

LEMMA AnswerTyped ==
    ASSUME FanTyped, NEW h \in Hosts, HostAnswers(h)
    PROVE  FanTyped'
  <1>1. PICK t \in threads[h] : \E i \in t.left :
           /\ fired' = fired \cup {[index |-> i, batch |-> t.batch, pkg |-> t.pkg,
                                    against |-> staged]}
           /\ threads' = [threads EXCEPT ![h] =
                (@ \ {t}) \cup (IF t.left = {i} THEN {} ELSE {Thread(t.batch, t.pkg, t.left \ {i})})]
    BY DEF HostAnswers
  <1>2. /\ UNCHANGED <<stage, pkg, staged, live, batch, received, wait, kept>>
        /\ t \in [batch : 1..Packages, pkg : 1..Packages, left : SUBSET Indices]
    BY DEF HostAnswers, FanTyped, FanOutTypeOK
  <1>3. fired' \in SUBSET Answers
    BY <1>1, <1>2 DEF FanTyped, FanOutTypeOK, Answers
  <1>4. threads' \in [Hosts -> SUBSET [batch : 1..Packages, pkg : 1..Packages,
                                       left : SUBSET Indices]]
    BY <1>1, <1>2 DEF FanTyped, FanOutTypeOK, Thread
  <1> QED
    BY <1>2, <1>3, <1>4 DEF FanTyped, FanOutTypeOK

LEMMA FanTypesKept ==
    ASSUME FanTyped, FanOutNext
    PROVE  FanTyped'
  <1>1. CASE CollectHosts
    BY <1>1 DEF CollectHosts, FanTyped, FanOutTypeOK
  <1>2. CASE ExchangeEnds
    BY <1>2, FanOutAssumption DEF ExchangeEnds, FanTyped, FanOutTypeOK, Off
  <1>3. CASE FanOutEnds
    BY <1>3 DEF FanOutEnds, FanTyped, FanOutTypeOK
  <1>4. CASE \E a \in fired : Collect(a)
    BY <1>4 DEF Collect, FanTyped, FanOutTypeOK
  <1> QED
    BY <1>1, <1>2, <1>3, <1>4, PackageTyped, AnswerTyped DEF FanOutNext

\* The clock moves the deadline of an exchange, and nothing else outside FanOutNext touches
\* the coordinator.
LEMMA FanTypesHold ==
    ASSUME FanTyped, [Next]_vars
    PROVE  FanTyped'
  <1>1. FanOutNext \/ UNCHANGED fanVars \/ Tick
    BY DEF Next, Copy, Hears, Serve, ServeEnds, Bootstrap, NilReturns, RunReturns, PlayRuns,
           Starts, WaitEnds, Opened, HearsRelay, TakesArgs, GivesUp, Yields, Refuses,
           HearsStarted, HearsNil, HearsReady, HearsResults, Expires, LaunchFails, Drop, vars
  <1>2. CASE UNCHANGED fanVars
    BY <1>2 DEF fanVars, FanTyped, FanOutTypeOK
  <1>3. CASE Tick
    BY <1>3, FanOutAssumption DEF Tick, Later, FanTyped, FanOutTypeOK, Off
  <1> QED
    BY <1>1, <1>2, <1>3, FanTypesKept

\* The copies' and the command line's state keeps its types.
LEMMA TypesKept ==
    ASSUME TypeOK, FanOutTypeOK', [Next]_vars
    PROVE  TypeOK'
  <1> USE CopiesAssumption
  <1>0. /\ BootTimeout \in Nat /\ RunTimeout \in Nat /\ NilWait \in Nat /\ RelayWait \in Nat
        /\ ArgsWait \in Nat /\ RunningWait \in Nat /\ Defer \in Nat
        /\ MaxFaults \in Nat /\ Skew \in Nat
    BY WaitsAssumption
  <1>1. CASE Bootstrap
    BY <1>0, <1>1
       DEF TypeOK, Bootstrap, SendFrame, Fault, NoFault, Frame, FrameTypes, setup, copyVars,
           cliVars
  <1>2. CASE NilReturns
    BY <1>0, <1>2
       DEF TypeOK, NilReturns, SendFrame, Fault, NoFault, Frame, FrameTypes, setup, copyVars,
           cliVars
  <1>3. CASE RunReturns
    BY <1>0, <1>3
       DEF TypeOK, RunReturns, SendFrame, Fault, NoFault, Frame, FrameTypes, setup, copyVars,
           cliVars
  <1>4. CASE PlayRuns
    BY <1>0, <1>4 DEF TypeOK, PlayRuns, setup, copyVars, cliVars, wire
  <1>5. CASE \E c \in Copies : Starts(c)
    BY <1>0, <1>5
       DEF TypeOK, Starts, Begin, Enter, Fault, NoFault, setup, studioVars, cliVars, wire
  <1>6. CASE \E c \in Copies : WaitEnds(c)
    BY <1>0, <1>6
       DEF TypeOK, WaitEnds, Begin, Enter, Fault, NoFault, setup, studioVars, cliVars, wire
  <1>7. CASE \E c \in Copies : Opened(c)
    BY <1>0, <1>7 DEF TypeOK, Opened, Frame, FrameTypes, setup, studioVars, cliVars
  <1>8. CASE \E c \in Copies : HearsRelay(c)
    BY <1>0, <1>8 DEF TypeOK, HearsRelay, setup, studioVars, cliVars
  <1>9. CASE \E c \in Copies : TakesArgs(c)
    <2>1. PICK c \in Copies : TakesArgs(c)
      BY <1>9
    <2>2. /\ copy' \in [Copies -> {"off", "waiting", "args", "deferring", "serving", "done"}]
          /\ timer' \in [Copies -> Nat \cup {Off}]
          /\ claim' \in BOOLEAN /\ sideChannel' \in BOOLEAN
      BY <1>0, <2>1 DEF TypeOK, TakesArgs, Enter
    <2> QED
      BY <2>1, <2>2 DEF TypeOK, TakesArgs, setup, cliVars, wire
  <1>10. CASE \E c \in Copies : GivesUp(c) \/ Yields(c)
    BY <1>0, <1>10 DEF TypeOK, GivesUp, Yields, Enter, setup, studioVars, cliVars, wire
  <1>11. CASE \E c \in Copies : Refuses(c)
    BY <1>0, <1>11 DEF TypeOK, Refuses, Enter, EndTest, Frame, FrameTypes, setup, cliVars
  <1>12. CASE \E c \in Copies : Drop(c)
    BY <1>0, <1>12 DEF TypeOK, Drop, Fault, setup, studioVars, cliVars, wire
  <1>13. CASE Serve
    BY <1>0, <1>13 DEF TypeOK, Serve, setup, studioVars, copyVars, cliVars, wire
  <1>14. CASE ServeEnds
    BY <1>0, <1>14
       DEF TypeOK, ServeEnds, Serving, Enter, EndTest, Fault, NoFault, Frame, FrameTypes, setup,
           cliVars
  <1>15. CASE HearsStarted \/ HearsNil
    <2>1. /\ bootTimer' = Off
          /\ runTimer' \in Off..RunTimeout /\ nilTimer' \in Off..NilWait
      BY <1>0, <1>15 DEF TypeOK, HearsStarted, HearsNil, MarkStarted, Off
    <2>2. Off \in Off..BootTimeout
      BY <1>0 DEF Off
    <2>3. /\ UNCHANGED <<server, keyed, boot, nil, running, age, sideChannel, claim, endTest, copy,
                         timer, sock, relayed, outcome, ready, faults>>
          /\ toCli' \subseteq toCli /\ toCopy' \subseteq toCopy \cup ready /\ nilAsked' \in BOOLEAN
      BY <1>15 DEF TypeOK, HearsStarted, HearsNil, setup, studioVars, copyVars
    <2> QED
      BY <2>1, <2>2, <2>3 DEF TypeOK
  <1>16. CASE \E c \in Copies : HearsReady(c)
    BY <1>0, <1>16 DEF TypeOK, HearsReady, Off, setup, studioVars, copyVars
  <1>17. CASE HearsResults \/ Expires \/ LaunchFails
    BY <1>0, <1>17
       DEF TypeOK, HearsResults, Expires, LaunchFails, Settle, Fault, Off, setup, studioVars,
           copyVars, wire
  <1>18. CASE Tick
    BY <1>0, <1>18 DEF TypeOK, Tick, Later, Off, setup, studioVars, wire
  <1>19. CASE UNCHANGED vars
    BY <1>0, <1>19 DEF TypeOK, vars, setup, studioVars, copyVars, cliVars, wire
  <1> QED
    BY <1>1, <1>2, <1>3, <1>4, <1>5, <1>6, <1>7, <1>8, <1>9, <1>10, <1>11, <1>12, <1>13, <1>14,
       <1>15, <1>16, <1>17, <1>18, <1>19 DEF Next, Copy, Hears

-----------------------------------------------------------------------------
(* Every step.                                                                *)

LEMMA WaitsStart == Init => WaitInv /\ FanTyped
  <1>1. SUFFICES ASSUME Init PROVE WaitInv /\ FanTyped
    OBVIOUS
  <1>2. FanTyped
    BY <1>1, FanOutAssumption DEF Init, FanOutInit, FanTyped, FanOutTypeOK, Off
  <1>3. TypeOK
    <2>1. /\ BootTimeout \in Nat /\ RunTimeout \in Nat /\ NilWait \in Nat
          /\ MaxFaults \in Nat /\ Skew \in Nat
      BY WaitsAssumption
    <2>2. bootTimer \in Off..BootTimeout /\ runTimer \in Off..RunTimeout /\ nilTimer \in Off..NilWait
      BY <1>1, <2>1 DEF Init, Off
    <2>3. /\ toCli \subseteq [type : FrameTypes, from : Copies \cup {NoCopy}]
          /\ age \in 0..Skew /\ faults \in 0..MaxFaults
      BY <1>1, <2>1 DEF Init
    <2> QED
      BY <1>1, <1>2, <2>2, <2>3 DEF Init, FanTyped, TypeOK
  <1>4. Exchange /\ NilWaiting /\ Relaying /\ Refusals
    BY <1>1, <1>3, CopiesAssumption
       DEF Init, TypeOK, Exchange, NilWaiting, Relaying, Refusals, Pending, AskedNil, Ready
  <1> QED
    BY <1>2, <1>3, <1>4 DEF WaitInv

\* What the machines wait for is kept by every step.
LEMMA WaitStep ==
    ASSUME WaitInv, FanTyped, [Next]_vars
    PROVE  WaitInv' /\ FanTyped'
  <1>1. FanTyped'
    BY FanTypesHold
  <1>2. TypeOK'
    BY <1>1, TypesKept DEF WaitInv, FanTyped
  <1> SUFFICES Exchange' /\ Relaying' /\ NilWaiting' /\ Refusals'
    BY <1>1, <1>2 DEF WaitInv
  <1>3. CASE Bootstrap \/ NilReturns \/ RunReturns \/ PlayRuns \/ ServeEnds
    BY <1>3, BootKeeps, NilKeeps, RunKeeps, PlayKeeps, ServedKeeps
  <1>4. CASE \E c \in Copies : Copy(c) \/ Drop(c)
    BY <1>4, StartKeeps, WaitKeeps, OpenKeeps, RelayKeeps, TakeKeeps, GiveUpKeeps, YieldKeeps,
       RefuseKeeps, DropKeeps DEF Copy
  <1>5. CASE Hears \/ Tick
    <2>1. CASE HearsResults
      <3>1. PICK f \in toCli : /\ f.type \in {"entries", "refused", "error"}
                               /\ toCli' = toCli \ {f} /\ Settle(f.type)
        BY <2>1 DEF HearsResults
      <3>2. /\ f # Frame("nilReturn", NoCopy)
            /\ \A c \in Copies : f # Frame("pluginReady", c)
        BY <3>1 DEF Frame
      <3>3. /\ UNCHANGED <<setup, studioVars, age, copyVars, toCopy, nilAsked, ready>>
            /\ toCli' \subseteq toCli /\ nilTimer' = Off
            /\ AskedNil' = AskedNil /\ \A c \in Copies : Ready(c)' = Ready(c)
        BY <2>1, <3>1, <3>2 DEF HearsResults, Settle, AskedNil, Ready
      <3> QED
        BY <3>3, RestKeeps
    <2> QED
      BY <1>5, <2>1, HearKeeps, HearNilKeeps, HearReadyKeeps, TickKeeps DEF Hears
  <1>6. CASE Serve \/ Expires \/ LaunchFails \/ UNCHANGED vars
    <2>1. /\ UNCHANGED <<setup, studioVars, age, copyVars, wire, nilAsked, ready>>
          /\ nilTimer' \in {Off, nilTimer}
      BY <1>6 DEF Serve, Expires, LaunchFails, Settle, vars, cliVars
    <2>2. /\ toCli' \subseteq toCli /\ UNCHANGED toCopy
          /\ AskedNil' = AskedNil /\ \A c \in Copies : Ready(c)' = Ready(c)
      BY <2>1 DEF wire, AskedNil, Ready
    <2> QED
      BY <2>1, <2>2, RestKeeps
  <1> QED
    BY <1>3, <1>4, <1>5, <1>6 DEF Next

\* The wait settles on a refusal, or on the expiry of the nil return's wait, only when no copy
\* can still answer.
LEMMA SettledInTime ==
    ASSUME WaitInv, ExpiresAfterCopies, NoRefusalWhileServed, [Next]_vars
    PROVE  ExpiresAfterCopies' /\ NoRefusalWhileServed'
  <1>1. CASE UNCHANGED vars
    BY <1>1
       DEF vars, setup, copyVars, wire, cliVars, ExpiresAfterCopies, NoRefusalWhileServed,
           Serving
  <1>2. CASE outcome = "none" /\ outcome' = "none"
    BY <1>2 DEF ExpiresAfterCopies, NoRefusalWhileServed
  <1>3. CASE outcome = "none" /\ HearsResults
    <2>1. outcome' # "nilExpired" /\ (outcome' = "refused" => \E f \in toCli : f.type = "refused")
      BY <1>3 DEF HearsResults, Settle
    <2>2. Serving' = Serving
      BY <1>3 DEF HearsResults, Serving, setup, copyVars
    <2> QED
      BY <2>1, <2>2 DEF WaitInv, Refusals, ExpiresAfterCopies, NoRefusalWhileServed
  <1>4. CASE outcome = "none" /\ Expires
    <2>1. outcome' # "refused" /\ (outcome' = "nilExpired" => nilTimer = 0)
      BY <1>4 DEF Expires, Settle
    <2>2. UNCHANGED <<copy, sock, toCli, ready>>
      BY <1>4 DEF Expires, Settle, copyVars, wire
    <2>3. ASSUME nilTimer = 0
          PROVE  /\ ready = {}
                 /\ \A c \in Copies : /\ copy[c] \notin {"off", "waiting"} /\ sock[c] # "opening"
                                      /\ Frame("pluginReady", c) \notin toCli
      <3>1. /\ ready = {}
            /\ \A c \in Copies :
                 /\ copy[c] = "off" => 0 >= NilWait - age
                 /\ copy[c] = "waiting" => timer[c] < 0
                 /\ ~(sock[c] = "opening" \/ Ready(c))
        BY <2>3 DEF WaitInv, NilWaiting, Off
      <3>2. /\ age \in 0..Skew
            /\ \A c \in Copies : copy[c] = "waiting" => timer[c] \in 0..RunningWait
        BY DEF WaitInv, TypeOK, NilWaiting
      <3> QED
        BY <3>1, <3>2, WaitsAssumption, NestAssumption DEF Ready
    <2> QED
      BY <2>1, <2>2, <2>3 DEF ExpiresAfterCopies, NoRefusalWhileServed
  <1>5. CASE outcome = "none" /\ LaunchFails
    BY <1>5 DEF LaunchFails, Settle, ExpiresAfterCopies, NoRefusalWhileServed
  <1>6. Next => outcome = "none" /\ (outcome' = "none" \/ HearsResults \/ Expires \/ LaunchFails)
    BY DEF Next, Unsettled, Copy, Hears, Serve, ServeEnds, Bootstrap, NilReturns, RunReturns,
           PlayRuns, Starts, WaitEnds, Opened, HearsRelay, TakesArgs, GivesUp, Yields, Refuses,
           HearsStarted, HearsNil, HearsReady, Drop, Tick, cliVars
  <1> QED
    BY <1>1, <1>2, <1>3, <1>4, <1>5, <1>6

\* The waits of the three machines nest, whoever is late and whoever refuses: a copy that is
\* told to relay is there to hear it, the command line gives up on a nil return only once no
\* copy can report ready, and no refusal takes the run from the copy that serves it
\* (studio-cli-deadlines.ts:18-20, test-in-run-mode.server.luau:7, 78-89, 101-103).
THEOREM WaitsNest == Spec => []WaitsInv
  <1> DEFINE Inv == WaitInv /\ FanTyped /\ ExpiresAfterCopies /\ NoRefusalWhileServed
  <1>1. Init => Inv
    BY WaitsStart DEF Init, ExpiresAfterCopies, NoRefusalWhileServed
  <1>2. Inv /\ [Next]_vars => Inv'
    BY WaitStep, SettledInTime
  <1>3. Inv => WaitsInv
    <2>1. SUFFICES ASSUME WaitInv, NEW c \in toCopy
                   PROVE  copy[c] \in {"args", "deferring", "serving"}
      BY DEF WaitsInv, WaitInv, RelayFindsCopy
    <2>2. c \in Copies /\ nil /\ Pending(c)
      BY <2>1 DEF WaitInv, TypeOK, Exchange, Pending
    <2> QED
      BY <2>1, <2>2 DEF WaitInv, Relaying
  <1> HIDE DEF Inv
  <1> QED
    BY <1>1, <1>2, <1>3, PTL DEF Spec

=============================================================================
