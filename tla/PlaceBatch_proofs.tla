------------------------ MODULE PlaceBatch_proofs ------------------------
(***************************************************************************)
(* That the runs of one share are kept apart, for shares of any length,    *)
(* whatever a package's stage is and whatever its tests do.                *)
(*                                                                         *)
(* The invariant follows a project through its entry: untouched until it   *)
(* is staged, then owned by the guard that parked the caller, then settled.*)
(***************************************************************************)
EXTENDS PlaceBatch, TLAPS

Within == {"staged", "refused", "parked", "woken"}

Fresh(e) ==
    /\ worker[e] = "none" /\ executor[e] = "none" /\ dispatch[e] = "none"
    /\ waiting[e] = FALSE /\ woken[e] = 0
    /\ result[e] = "none" /\ cause[e] = "none" /\ verdict[e] = "none"

\* The project in hand, and those still to come.
Followed ==
    /\ pc \in Within => at \in Projects
    /\ \A e \in Projects : e > at \/ (e = at /\ pc \in {"staged", "refused"}) => Fresh(e)
    /\ pc = "parked" => /\ result[at] = "none" /\ cause[at] = "none" /\ woken[at] = 0
                        /\ verdict[at] = "none"
    /\ \A e \in Projects : cause[e] = "budget" => batch[e].budgeted
    /\ \A e \in Projects : result[e] = "passed" => cause[e] = "none"

\* The types, by what an action touches.
PlaceTypes ==
    /\ pc \in {"take", "staged", "refused", "parked", "woken", "between", "over"}
    /\ at \in 0..Len(batch)
    /\ prevPkg \in {NoPackage} \cup {batch[e].pkg : e \in Projects}
    /\ mock \in Projects \cup {Off} /\ capture \in Projects \cup {Off}
    /\ verdict \in [Projects -> {"none", "staging", "noJest", "failed", "passed",
                                 "warning", "budget"}]
ThreadTypes ==
    /\ worker \in [Projects -> {"none", "waits", "expects", "ended"}]
    /\ executor \in [Projects -> {"none", "runs", "stuck", "ended"}]
    /\ dispatch \in [Projects -> {"none", "parked"}]
    /\ stray \in [Projects -> {"none", "waits", "warned"}]
    /\ waiting \in [Projects -> BOOLEAN] /\ woken \in [Projects -> Nat]
    /\ result \in [Projects -> {"none", "failed", "passed"}]
    /\ cause \in [Projects -> {"none", "warning", "budget"}]
LineTypes ==
    /\ filed \in [Projects -> Seq(Lines)] /\ echo \in Lines \cup {NoLine}
    /\ posted \in Seq(Lines) /\ crowded \subseteq Projects

\* The types are those of the place, of the threads and of the lines.
LEMMA Types ==
    TypeOK <=> batch \in Batches /\ queued \in BOOLEAN /\ PlaceTypes /\ ThreadTypes /\ LineTypes
BY DEF TypeOK, PlaceTypes, ThreadTypes, LineTypes

IInv == TypeOK /\ RunsKeepApart /\ Followed

\* A share's projects are numbered from one.
LEMMA Numbered ==
    ASSUME batch \in Batches
    PROVE  /\ Projects = 1..Len(batch) /\ Len(batch) \in Nat
           /\ Off \notin Projects
BY BatchesAreShares DEF Projects, Off

\* Every share starts with nothing run.
LEMMA InitInv == Init => IInv
<1> SUFFICES ASSUME Init PROVE IInv
  OBVIOUS
<1>1. batch \in Batches /\ pc = "take" /\ at = 0
  BY DEF Init
<1>2. Projects = 1..Len(batch) /\ Len(batch) \in Nat /\ Off \notin Projects
  BY <1>1, Numbered
<1>3. TypeOK
  BY <1>1, <1>2 DEF Init, TypeOK, NoPackage, NoLine, Off, Lines
<1>4. RunsKeepApart
  BY <1>1, <1>2 DEF Init, RunsKeepApart, Alive, Off
<1>5. Followed
  BY <1>1, <1>2 DEF Init, Followed, Fresh, Within
<1> QED
  BY <1>3, <1>4, <1>5 DEF IInv

\* The next project is taken up and its package staged.
LEMMA TakeKeeps == IInv /\ Take => IInv'
<1> SUFFICES ASSUME IInv, Take PROVE IInv'
  OBVIOUS
<1>1. Projects = 1..Len(batch) /\ Len(batch) \in Nat /\ Off \notin Projects
  BY Numbered DEF IInv, TypeOK
<1>2. batch' = batch /\ queued' = queued /\ Projects' = Projects /\ Lines' = Lines
  BY DEF Take, Projects, Lines
<1>3. PlaceTypes /\ ThreadTypes /\ LineTypes
  BY Types DEF IInv
<1>4. TypeOK'
  <2>1. PlaceTypes'
    BY <1>1, <1>2, <1>3
       DEF PlaceTypes, IInv, Followed, Within, Entry, Take, stageVars, threadVars, guardVars,
           outputVars
  <2>2. ThreadTypes'
    BY <1>1, <1>2, <1>3
       DEF ThreadTypes, IInv, Followed, Within, Take, stageVars, threadVars, guardVars,
           outputVars
  <2>3. LineTypes'
    BY <1>1, <1>2, <1>3
       DEF LineTypes, IInv, Followed, Within, Take, stageVars, threadVars, guardVars, outputVars
  <2> QED
    BY <1>2, <2>1, <2>2, <2>3 DEF IInv, TypeOK, PlaceTypes, ThreadTypes, LineTypes
<1>5. RunsKeepApart'
  BY <1>1, <1>2
     DEF IInv, TypeOK, RunsKeepApart, Alive, Followed, Fresh, Within, Off, Take, stageVars,
         threadVars, guardVars, outputVars
<1>6. Followed'
  BY <1>1, <1>2
     DEF IInv, TypeOK, RunsKeepApart, Alive, Followed, Fresh, Within, Take, stageVars, threadVars,
         guardVars, outputVars
<1> QED
  BY <1>4, <1>5, <1>6 DEF IInv

\* A package that cannot be staged, or whose Jest is missing.
LEMMA RefusesKeeps == IInv /\ (StageFails \/ JestMissing) => IInv'
<1> SUFFICES ASSUME IInv, StageFails \/ JestMissing PROVE IInv'
  OBVIOUS
<1>1. Projects = 1..Len(batch) /\ Len(batch) \in Nat /\ Off \notin Projects
  BY Numbered DEF IInv, TypeOK
<1>2. PlaceTypes /\ ThreadTypes /\ LineTypes
  BY Types DEF IInv
<1>3. at \in Projects /\ pc \in {"staged", "refused"}
  BY DEF IInv, Followed, Within, StageFails, JestMissing
<1>4. PICK answer \in {"staging", "noJest"} : Report(answer, Entry.pkg)
  BY DEF StageFails, JestMissing
<1>5. UNCHANGED <<worker, executor, dispatch, stray, waiting, woken, result, cause, mock,
                  filed, echo, posted, crowded>>
  BY DEF StageFails, JestMissing, threadVars, guardVars
<1>6. /\ UNCHANGED <<batch, queued, at>> /\ Projects' = Projects /\ Lines' = Lines
      /\ verdict' = [verdict EXCEPT ![at] = answer] /\ prevPkg' = batch[at].pkg
      /\ capture' = Off /\ pc' \in {"between", "take"}
  BY <1>4 DEF Report, Projects, Lines, Entry
<1>7. TypeOK'
  <2>1. PlaceTypes'
    BY <1>2, <1>3, <1>5, <1>6 DEF PlaceTypes
  <2>2. ThreadTypes' /\ LineTypes'
    BY <1>2, <1>5, <1>6 DEF ThreadTypes, LineTypes
  <2> QED
    BY <1>6, <2>1, <2>2 DEF IInv, TypeOK, PlaceTypes, ThreadTypes, LineTypes
<1>8. RunsKeepApart'
  BY <1>2, <1>3, <1>5, <1>6 DEF IInv, RunsKeepApart, Alive, PlaceTypes
<1>9. Followed'
  BY <1>1, <1>2, <1>3, <1>5, <1>6 DEF IInv, Followed, Fresh, Within, PlaceTypes
<1> QED
  BY <1>7, <1>8, <1>9 DEF IInv

\* The next item is read off the queue.
LEMMA ReadKeeps == IInv /\ Read => IInv'
<1> SUFFICES ASSUME IInv, Read PROVE IInv'
  OBVIOUS
<1>1. Projects = 1..Len(batch) /\ Len(batch) \in Nat /\ Off \notin Projects
  BY Numbered DEF IInv, TypeOK
<1>2. batch' = batch /\ queued' = queued /\ Projects' = Projects /\ Lines' = Lines
  BY DEF Read, Projects, Lines
<1>3. PlaceTypes /\ ThreadTypes /\ LineTypes
  BY Types DEF IInv
<1>4. TypeOK'
  <2>1. PlaceTypes'
    BY <1>1, <1>2, <1>3
       DEF PlaceTypes, IInv, Followed, Within, Entry, Read, stageVars, threadVars, guardVars,
           outputVars
  <2>2. ThreadTypes'
    BY <1>1, <1>2, <1>3
       DEF ThreadTypes, IInv, Followed, Within, Read, stageVars, threadVars, guardVars,
           outputVars
  <2>3. LineTypes'
    BY <1>1, <1>2, <1>3
       DEF LineTypes, IInv, Followed, Within, Read, stageVars, threadVars, guardVars, outputVars
  <2> QED
    BY <1>2, <2>1, <2>2, <2>3 DEF IInv, TypeOK, PlaceTypes, ThreadTypes, LineTypes
<1>5. RunsKeepApart'
  BY <1>1, <1>2
     DEF IInv, TypeOK, RunsKeepApart, Alive, Followed, Fresh, Within, Off, Read, stageVars,
         threadVars, guardVars, outputVars
<1>6. Followed'
  BY <1>1, <1>2
     DEF IInv, TypeOK, RunsKeepApart, Alive, Followed, Fresh, Within, Read, stageVars, threadVars,
         guardVars, outputVars
<1> QED
  BY <1>4, <1>5, <1>6 DEF IInv

\* The share is over.
LEMMA StopKeeps == IInv /\ Stop => IInv'
<1> SUFFICES ASSUME IInv, Stop PROVE IInv'
  OBVIOUS
<1>1. Projects = 1..Len(batch) /\ Len(batch) \in Nat /\ Off \notin Projects
  BY Numbered DEF IInv, TypeOK
<1>2. batch' = batch /\ queued' = queued /\ Projects' = Projects /\ Lines' = Lines
  BY DEF Stop, Projects, Lines
<1>3. PlaceTypes /\ ThreadTypes /\ LineTypes
  BY Types DEF IInv
<1>4. TypeOK'
  <2>1. PlaceTypes'
    BY <1>1, <1>2, <1>3
       DEF PlaceTypes, IInv, Followed, Within, Entry, Stop, stageVars, threadVars, guardVars,
           outputVars
  <2>2. ThreadTypes'
    BY <1>1, <1>2, <1>3
       DEF ThreadTypes, IInv, Followed, Within, Stop, stageVars, threadVars, guardVars,
           outputVars
  <2>3. LineTypes'
    BY <1>1, <1>2, <1>3
       DEF LineTypes, IInv, Followed, Within, Stop, stageVars, threadVars, guardVars, outputVars
  <2> QED
    BY <1>2, <2>1, <2>2, <2>3 DEF IInv, TypeOK, PlaceTypes, ThreadTypes, LineTypes
<1>5. RunsKeepApart'
  BY <1>1, <1>2
     DEF IInv, TypeOK, RunsKeepApart, Alive, Followed, Fresh, Within, Off, Stop, stageVars,
         threadVars, guardVars, outputVars
<1>6. Followed'
  BY <1>1, <1>2
     DEF IInv, TypeOK, RunsKeepApart, Alive, Followed, Fresh, Within, Stop, stageVars, threadVars,
         guardVars, outputVars
<1> QED
  BY <1>4, <1>5, <1>6 DEF IInv

\* A guard begins, and parks the caller unless the run ended at once.
LEMMA FirstTurnKeeps == IInv /\ FirstTurn => IInv'
<1> SUFFICES ASSUME IInv, FirstTurn PROVE IInv'
  OBVIOUS
<1>1. Projects = 1..Len(batch) /\ Len(batch) \in Nat /\ Off \notin Projects
  BY Numbered DEF IInv, TypeOK
<1>2. batch' = batch /\ queued' = queued /\ Projects' = Projects /\ Lines' = Lines
  BY DEF FirstTurn, Moves, Begun, Waits, Projects, Lines
<1>3. PlaceTypes /\ ThreadTypes /\ LineTypes
  BY Types DEF IInv
<1>4. TypeOK'
  <2>1. PlaceTypes'
    BY <1>1, <1>2, <1>3
       DEF PlaceTypes, IInv, Followed, Within, Entry, FirstTurn, Moves, Begun, Waits, stageVars,
           threadVars, guardVars, outputVars
  <2>2. ThreadTypes'
    BY <1>1, <1>2, <1>3
       DEF ThreadTypes, IInv, Followed, Within, FirstTurn, Moves, Begun, Waits, stageVars,
           threadVars, guardVars, outputVars
  <2>3. LineTypes'
    BY <1>1, <1>2, <1>3
       DEF LineTypes, IInv, Followed, Within, FirstTurn, Moves, Begun, Waits, stageVars,
           threadVars, guardVars, outputVars
  <2> QED
    BY <1>2, <2>1, <2>2, <2>3 DEF IInv, TypeOK, PlaceTypes, ThreadTypes, LineTypes
<1>5. RunsKeepApart'
  <2>1. PICK to \in Begun \cup {Waits} :
          /\ worker' = [worker EXCEPT ![at] = to[1]]
          /\ executor' = [executor EXCEPT ![at] = to[2]]
          /\ waiting' = [waiting EXCEPT ![at] = to[1] # "ended"]
          /\ pc' = IF to[1] = "ended" THEN "woken" ELSE "parked"
    BY DEF FirstTurn, Moves
  <2>2. /\ pc = "staged" /\ at' = at /\ at \in Projects
        /\ UNCHANGED <<dispatch, woken, cause, verdict>> /\ mock' = at
    BY DEF FirstTurn, IInv, Followed, Within
  <2>3. \A e \in Projects : ~Alive(e) /\ ~waiting[e]
    BY <2>2 DEF IInv, RunsKeepApart
  <2>4. \A e \in Projects : Alive(e)' => e = at /\ pc' \in {"parked", "woken"}
    BY <1>2, <1>3, <2>1, <2>2, <2>3 DEF Alive, ThreadTypes, Begun, Waits
  <2>5. \A e \in Projects : waiting'[e] <=> e = at /\ pc' = "parked"
    BY <1>3, <2>1, <2>2, <2>3 DEF ThreadTypes, Begun, Waits
  <2> QED
    BY <1>2, <2>1, <2>2, <2>4, <2>5 DEF IInv, RunsKeepApart
<1>6. Followed'
  BY <1>1, <1>2
     DEF IInv, TypeOK, RunsKeepApart, Alive, Followed, Fresh, Within, FirstTurn, Moves, Begun,
         Waits, stageVars, threadVars, guardVars, outputVars
<1> QED
  BY <1>4, <1>5, <1>6 DEF IInv

\* A print reaches the capture that is open.
LEMMA DeliverKeeps == IInv /\ Deliver => IInv'
<1> SUFFICES ASSUME IInv, Deliver PROVE IInv'
  OBVIOUS
<1>1. Projects = 1..Len(batch) /\ Len(batch) \in Nat /\ Off \notin Projects
  BY Numbered DEF IInv, TypeOK
<1>2. batch' = batch /\ queued' = queued /\ Projects' = Projects /\ Lines' = Lines
  BY DEF Deliver, SameText, Projects, Lines
<1>3. PlaceTypes /\ ThreadTypes /\ LineTypes
  BY Types DEF IInv
<1>4. TypeOK'
  <2>1. PlaceTypes'
    BY <1>1, <1>2, <1>3
       DEF PlaceTypes, IInv, Followed, Within, Entry, Deliver, SameText, stageVars, threadVars,
           guardVars, outputVars
  <2>2. ThreadTypes'
    BY <1>1, <1>2, <1>3
       DEF ThreadTypes, IInv, Followed, Within, Deliver, SameText, stageVars, threadVars,
           guardVars, outputVars
  <2>3. LineTypes'
    <3>1. posted' = Tail(posted) /\ posted # <<>> /\ crowded' = crowded
      BY DEF Deliver, outputVars
    <3>2. Head(posted) \in Lines /\ Tail(posted) \in Seq(Lines)
      BY <1>3, <3>1 DEF LineTypes
    <3>3. \/ UNCHANGED <<echo, filed>>
          \/ echo' = NoLine /\ UNCHANGED filed
          \/ filed' = [filed EXCEPT ![capture] = Append(@, Head(posted))] /\ UNCHANGED echo
      BY DEF Deliver
    <3>4. filed' \in [Projects -> Seq(Lines)] /\ echo' \in Lines \cup {NoLine}
      <4>1. CASE UNCHANGED <<echo, filed>>
        BY <1>3, <4>1 DEF LineTypes
      <4>2. CASE echo' = NoLine /\ UNCHANGED filed
        BY <1>3, <4>2 DEF LineTypes
      <4>3. CASE filed' = [filed EXCEPT ![capture] = Append(@, Head(posted))] /\ UNCHANGED echo
        <5>1. \A d \in Projects : Append(filed[d], Head(posted)) \in Seq(Lines)
          BY <1>3, <3>2 DEF LineTypes
        <5> QED
          BY <1>3, <4>3, <5>1 DEF LineTypes
      <4> QED
        BY <3>3, <4>1, <4>2, <4>3
    <3> QED
      BY <1>2, <1>3, <3>1, <3>2, <3>4 DEF LineTypes, NoLine
  <2> QED
    BY <1>2, <2>1, <2>2, <2>3 DEF IInv, TypeOK, PlaceTypes, ThreadTypes, LineTypes
<1>5. RunsKeepApart'
  BY <1>1, <1>2
     DEF IInv, TypeOK, RunsKeepApart, Alive, Followed, Fresh, Within, Off, Deliver, SameText,
         stageVars, threadVars, guardVars, outputVars
<1>6. Followed'
  BY <1>1, <1>2
     DEF IInv, TypeOK, RunsKeepApart, Alive, Followed, Fresh, Within, Deliver, SameText,
         stageVars, threadVars, guardVars, outputVars
<1> QED
  BY <1>4, <1>5, <1>6 DEF IInv

\* The guard of the run in hand resumes its caller, and does so once.
LEMMA WokenOnce ==
    ASSUME IInv, pc = "parked", Wake(at)
    PROVE  /\ pc' = "woken"
           /\ waiting' \in [Projects -> BOOLEAN] /\ woken' \in [Projects -> Nat]
           /\ \A d \in Projects : woken'[d] <= 1 /\ waiting'[d] = FALSE
<1>1. ThreadTypes
  BY Types DEF IInv
<1>2. at \in Projects /\ waiting[at] /\ woken[at] = 0
  BY DEF IInv, RunsKeepApart, Followed, Within
<1>3. \A d \in Projects : d # at => waiting[d] = FALSE
  BY <1>1 DEF IInv, RunsKeepApart, ThreadTypes
<1>4. \A d \in Projects : woken[d] <= 1
  BY DEF IInv, RunsKeepApart
<1>5. /\ waiting' = [waiting EXCEPT ![at] = FALSE]
      /\ woken' = [woken EXCEPT ![at] = @ + 1] /\ pc' = "woken"
  BY <1>2 DEF Wake
<1> QED
  BY <1>1, <1>2, <1>3, <1>4, <1>5 DEF ThreadTypes

\* The closure goes on, and may end its run.
LEMMA GoesOnKeeps == \A e \in Projects : IInv /\ GoesOn(e) => IInv'
<1> SUFFICES ASSUME NEW e \in Projects, IInv, GoesOn(e) PROVE IInv'
  OBVIOUS
<1>1. Projects = 1..Len(batch) /\ Len(batch) \in Nat /\ Off \notin Projects
  BY Numbered DEF IInv, TypeOK
<1>2. batch' = batch /\ queued' = queued /\ Projects' = Projects /\ Lines' = Lines
  BY DEF GoesOn, Projects, Lines
<1>3. PlaceTypes /\ ThreadTypes /\ LineTypes
  BY Types DEF IInv
<1>4. e = at /\ pc = "parked" /\ waiting[at]
  BY DEF IInv, RunsKeepApart, Alive, GoesOn, Idle
<1>5. PICK to \in Begun :
        /\ Moves(at, to)
        /\ IF to[1] = "ended" THEN Wake(at) ELSE UNCHANGED <<waiting, woken, pc>>
  BY <1>4 DEF GoesOn
<1>6. /\ worker' = [worker EXCEPT ![at] = to[1]]
      /\ executor' = [executor EXCEPT ![at] = to[2]]
      /\ result' = [result EXCEPT ![at] = to[3]]
  BY <1>5 DEF Moves
<1>7. /\ UNCHANGED <<at, stageVars, dispatch, cause, verdict, mock, outputVars>>
      /\ at \in Projects
  BY <1>4 DEF GoesOn
<1>8. /\ to[1] \in {"expects", "ended"} /\ to[2] \in {"none", "runs", "ended"}
      /\ to[3] \in {"none", "failed", "passed"}
      /\ to[1] = "expects" => to[3] = "none"
      /\ to[1] = "ended" => to[2] # "runs"
  BY <1>5 DEF Begun
<1>9. stray' \in [Projects -> {"none", "waits", "warned"}]
  BY <1>3, <1>5 DEF Moves, ThreadTypes
<1>10. /\ waiting' \in [Projects -> BOOLEAN] /\ woken' \in [Projects -> Nat]
       /\ pc' = IF to[1] = "ended" THEN "woken" ELSE "parked"
       /\ \A d \in Projects : woken'[d] <= 1
       /\ to[1] # "ended" => UNCHANGED <<woken, waiting>>
       /\ to[1] = "ended" => \A d \in Projects : waiting'[d] = FALSE
  <2>1. CASE to[1] = "ended"
    BY <1>4, <1>5, <2>1, WokenOnce
  <2>2. CASE to[1] # "ended"
    BY <1>3, <1>4, <1>5, <2>2 DEF IInv, RunsKeepApart, ThreadTypes
  <2> QED
    BY <2>1, <2>2
<1>11. \A d \in Projects : Alive(d) => d = at
  BY DEF IInv, RunsKeepApart
<1>12. TypeOK'
  <2>1. PlaceTypes'
    BY <1>2, <1>3, <1>7, <1>10 DEF PlaceTypes, stageVars, outputVars
  <2>2. ThreadTypes'
    BY <1>2, <1>3, <1>6, <1>7, <1>8, <1>9, <1>10 DEF ThreadTypes
  <2>3. LineTypes'
    BY <1>2, <1>3, <1>7 DEF LineTypes, outputVars
  <2> QED
    BY <1>2, <2>1, <2>2, <2>3 DEF IInv, TypeOK, PlaceTypes, ThreadTypes, LineTypes
<1>13. RunsKeepApart'
  <2>1. \A d \in Projects : Alive(d)' => d = at
    BY <1>3, <1>6, <1>7, <1>11 DEF Alive, ThreadTypes
  <2>2. \A d \in Projects : waiting'[d] <=> d = at' /\ pc' = "parked"
    BY <1>4, <1>7, <1>10 DEF IInv, RunsKeepApart
  <2> QED
    BY <1>2, <1>4, <1>7, <1>10, <2>1, <2>2 DEF IInv, RunsKeepApart
<1>14. Followed'
  <2>1. cause[at] = "none" /\ result[at] = "none" /\ woken[at] = 0 /\ verdict[at] = "none"
    BY <1>4 DEF IInv, Followed
  <2>2. ASSUME NEW d \in Projects, d > at PROVE Fresh(d)'
    <3>1. Fresh(d) /\ d # at
      BY <1>1, <1>3, <2>2 DEF IInv, Followed, PlaceTypes
    <3>2. worker'[d] = worker[d] /\ executor'[d] = executor[d] /\ result'[d] = result[d]
      BY <1>3, <1>6, <3>1 DEF ThreadTypes
    <3>3. waiting'[d] = waiting[d] /\ woken'[d] = woken[d]
      BY <1>3, <1>4, <1>5, <3>1 DEF Wake, ThreadTypes
    <3> QED
      BY <1>7, <3>1, <3>2, <3>3 DEF Fresh
  <2>3. \A d \in Projects : result'[d] = "passed" => cause[d] = "none"
    BY <1>3, <1>6, <2>1 DEF IInv, Followed, ThreadTypes
  <2>4. pc' = "parked" => result'[at] = "none" /\ woken'[at] = 0
    BY <1>3, <1>4, <1>6, <1>7, <1>8, <1>10, <2>1 DEF ThreadTypes
  <2> QED
    BY <1>2, <1>7, <1>10, <2>1, <2>2, <2>3, <2>4 DEF IInv, Followed, Within
<1> QED
  BY <1>12, <1>13, <1>14 DEF IInv

\* Steps of a run that wake nobody.
LEMMA WithinARunKeeps ==
    \A e \in Projects :
      IInv /\ (TestStuck(e) \/ ChildAppears(e) \/ GivesWay(e) \/ Resumes(e)) => IInv'
<1> SUFFICES ASSUME NEW e \in Projects, IInv,
                    TestStuck(e) \/ ChildAppears(e) \/ GivesWay(e) \/ Resumes(e)
             PROVE  IInv'
  OBVIOUS
<1>1. PlaceTypes /\ ThreadTypes /\ LineTypes
  BY Types DEF IInv
<1>2. e = at /\ pc = "parked"
  BY DEF IInv, RunsKeepApart, Alive, TestStuck, ChildAppears, GivesWay, Resumes, Idle
<1>3. UNCHANGED <<batch, queued, pc, at, stageVars, worker, stray, guardVars, verdict, mock,
                  outputVars>>
  BY DEF TestStuck, ChildAppears, GivesWay, Resumes
<1>4. /\ \/ executor' = executor
         \/ \E to \in {"runs", "stuck"} : executor' = [executor EXCEPT ![e] = to]
      /\ \/ dispatch' = dispatch
         \/ \E to \in {"none", "parked"} : dispatch' = [dispatch EXCEPT ![e] = to]
  BY DEF TestStuck, ChildAppears, GivesWay, Resumes
<1>5. Projects' = Projects /\ Lines' = Lines
  BY <1>3 DEF Projects, Lines
<1>6. \A d \in Projects : d # e => executor'[d] = executor[d] /\ dispatch'[d] = dispatch[d]
  BY <1>1, <1>4 DEF ThreadTypes
<1>7. TypeOK'
  <2>1. PlaceTypes' /\ LineTypes'
    BY <1>1, <1>3, <1>5 DEF PlaceTypes, LineTypes, stageVars, outputVars
  <2>2. ThreadTypes'
    BY <1>1, <1>3, <1>4, <1>5 DEF ThreadTypes, guardVars
  <2> QED
    BY <1>3, <1>5, <2>1, <2>2 DEF IInv, TypeOK, PlaceTypes, ThreadTypes, LineTypes
<1>8. RunsKeepApart'
  BY <1>2, <1>3, <1>5, <1>6 DEF IInv, RunsKeepApart, Alive, guardVars
<1>9. Followed'
  <2>1. \A d \in Projects : d > at => d # e
    BY <1>1, <1>2, Numbered DEF IInv, TypeOK, PlaceTypes
  <2> QED
    BY <1>2, <1>3, <1>5, <1>6, <2>1 DEF IInv, Followed, Fresh, Within, guardVars
<1> QED
  BY <1>7, <1>8, <1>9 DEF IInv

\* The promise settles and wakes the caller.
LEMMA RunEndsKeeps == \A e \in Projects : IInv /\ RunEnds(e) => IInv'
<1> SUFFICES ASSUME NEW e \in Projects, IInv, RunEnds(e) PROVE IInv'
  OBVIOUS
<1>1. Projects = 1..Len(batch) /\ Len(batch) \in Nat /\ Off \notin Projects
  BY Numbered DEF IInv, TypeOK
<1>2. batch' = batch /\ queued' = queued /\ Projects' = Projects /\ Lines' = Lines
  BY DEF RunEnds, Wake, Projects, Lines
<1>3. PlaceTypes /\ ThreadTypes /\ LineTypes
  BY Types DEF IInv
<1>0. e = at /\ pc = "parked" /\ waiting[at]
  BY DEF IInv, RunsKeepApart, Alive, RunEnds, Idle
<1>4. TypeOK'
  <2>1. PlaceTypes'
    BY <1>0, <1>1, <1>2, <1>3
       DEF PlaceTypes, RunEnds, Wake, stageVars, threadVars, guardVars, outputVars
  <2>2. ThreadTypes'
    BY <1>0, <1>1, <1>2, <1>3
       DEF ThreadTypes, RunEnds, Wake, stageVars, threadVars, guardVars, outputVars
  <2>3. LineTypes'
    BY <1>0, <1>1, <1>2, <1>3
       DEF LineTypes, RunEnds, Wake, stageVars, threadVars, guardVars, outputVars
  <2> QED
    BY <1>2, <2>1, <2>2, <2>3 DEF IInv, TypeOK, PlaceTypes, ThreadTypes, LineTypes
<1>5. RunsKeepApart'
  <2>1. /\ worker' = [worker EXCEPT ![at] = "ended"]
        /\ executor' = [executor EXCEPT ![at] = "ended"]
        /\ UNCHANGED <<at, dispatch, cause, verdict, mock>>
    BY <1>0 DEF RunEnds
  <2>2. pc' = "woken" /\ \A d \in Projects : woken'[d] <= 1 /\ waiting'[d] = FALSE
    BY <1>0, WokenOnce DEF RunEnds
  <2>3. \A d \in Projects : Alive(d)' => Alive(d)
    BY <1>3, <2>1 DEF Alive, ThreadTypes
  <2> QED
    BY <1>0, <1>2, <2>1, <2>2, <2>3 DEF IInv, RunsKeepApart
<1>6. Followed'
  BY <1>0, <1>1, <1>2
     DEF IInv, TypeOK, RunsKeepApart, Followed, Fresh, Within, RunEnds, Wake, stageVars,
         threadVars, guardVars, outputVars
<1> QED
  BY <1>4, <1>5, <1>6 DEF IInv

\* A thread the tests left behind goes on.
LEMMA StrayGoesOnKeeps == \A e \in Projects : IInv /\ StrayGoesOn(e) => IInv'
<1> SUFFICES ASSUME NEW e \in Projects, IInv, StrayGoesOn(e) PROVE IInv'
  OBVIOUS
<1>1. Projects = 1..Len(batch) /\ Len(batch) \in Nat /\ Off \notin Projects
  BY Numbered DEF IInv, TypeOK
<1>2. batch' = batch /\ queued' = queued /\ Projects' = Projects /\ Lines' = Lines
  BY DEF StrayGoesOn, Projects, Lines
<1>3. PlaceTypes /\ ThreadTypes /\ LineTypes
  BY Types DEF IInv
<1>0. pc \in {"parked", "between"}
  BY DEF IInv, RunsKeepApart, Alive, StrayGoesOn, Idle
<1>4. TypeOK'
  <2>1. PlaceTypes'
    BY <1>0, <1>1, <1>2, <1>3
       DEF PlaceTypes, StrayGoesOn, stageVars, threadVars, guardVars, outputVars
  <2>2. ThreadTypes'
    BY <1>0, <1>1, <1>2, <1>3
       DEF ThreadTypes, StrayGoesOn, stageVars, threadVars, guardVars, outputVars
  <2>3. LineTypes'
    BY <1>0, <1>1, <1>2, <1>3
       DEF LineTypes, StrayGoesOn, stageVars, threadVars, guardVars, outputVars
  <2> QED
    BY <1>2, <2>1, <2>2, <2>3 DEF IInv, TypeOK, PlaceTypes, ThreadTypes, LineTypes
<1>5. RunsKeepApart'
  BY <1>0, <1>1, <1>2
     DEF IInv, TypeOK, RunsKeepApart, Alive, Followed, Fresh, Within, Off, StrayGoesOn, stageVars,
         threadVars, guardVars, outputVars
<1>6. Followed'
  BY <1>0, <1>1, <1>2
     DEF IInv, TypeOK, RunsKeepApart, Followed, Fresh, Within, StrayGoesOn, stageVars, threadVars,
         guardVars, outputVars
<1> QED
  BY <1>4, <1>5, <1>6 DEF IInv

\* The warning wakes the caller the guard parked, if there is one.
LEMMA EngineWarnsKeeps == \A e \in Projects : IInv /\ EngineWarns(e) => IInv'
<1> SUFFICES ASSUME NEW e \in Projects, IInv, EngineWarns(e) PROVE IInv'
  OBVIOUS
<1>1. batch' = batch /\ queued' = queued /\ Projects' = Projects /\ Lines' = Lines
  BY DEF EngineWarns, Projects, Lines
<1>2. PlaceTypes /\ ThreadTypes /\ LineTypes
  BY Types DEF IInv
<1>3. /\ UNCHANGED <<at, stageVars, worker, executor, dispatch, result, verdict, mock, outputVars>>
      /\ stray' \in [Projects -> {"none", "waits", "warned"}]
  BY <1>2 DEF EngineWarns, ThreadTypes
<1>4. LineTypes'
  BY <1>1, <1>2, <1>3 DEF LineTypes, outputVars
<1>5. CASE pc = "parked"
  <2>1. Wake(at) /\ cause' = [cause EXCEPT ![at] = "warning"]
    BY <1>5 DEF EngineWarns
  <2>2. /\ pc' = "woken"
        /\ waiting' \in [Projects -> BOOLEAN] /\ woken' \in [Projects -> Nat]
        /\ \A d \in Projects : woken'[d] <= 1 /\ waiting'[d] = FALSE
    BY <1>5, <2>1, WokenOnce
  <2>3. at \in Projects /\ verdict[at] = "none" /\ result[at] = "none"
    BY <1>5 DEF IInv, Followed, Within
  <2>4. ThreadTypes' /\ PlaceTypes'
    <3>1. cause' \in [Projects -> {"none", "warning", "budget"}]
      BY <1>2, <2>1 DEF ThreadTypes
    <3>2. ThreadTypes'
      BY <1>1, <1>2, <1>3, <2>2, <3>1 DEF ThreadTypes
    <3>3. PlaceTypes'
      BY <1>1, <1>2, <1>3, <2>2 DEF PlaceTypes, stageVars, outputVars
    <3> QED
      BY <3>2, <3>3
  <2>5. RunsKeepApart'
    <3>1. \A d \in Projects : Alive(d)' => d = at
      BY <1>3 DEF IInv, RunsKeepApart, Alive
    <3>2. \A d \in Projects : verdict[d] = "passed" => cause'[d] = "none"
      BY <1>2, <2>1, <2>3 DEF IInv, RunsKeepApart, ThreadTypes
    <3> QED
      BY <1>1, <1>3, <1>5, <2>2, <3>1, <3>2 DEF IInv, RunsKeepApart
  <2>6. Followed'
    <3>1. \A d \in Projects : /\ cause'[d] = "budget" => batch[d].budgeted
                              /\ result[d] = "passed" => cause'[d] = "none"
      BY <1>2, <2>1, <2>3 DEF IInv, Followed, ThreadTypes
    <3>2. \A d \in Projects : d > at => Fresh(d)'
      BY <1>2, <1>3, <1>5, <2>1, <2>2, <2>3, Numbered
         DEF IInv, TypeOK, Followed, Fresh, ThreadTypes, Wake
    <3> QED
      BY <1>1, <1>3, <2>2, <2>3, <3>1, <3>2 DEF Followed, Within
  <2> QED
    BY <1>1, <1>4, <2>4, <2>5, <2>6 DEF IInv, TypeOK, PlaceTypes, ThreadTypes, LineTypes
<1>6. CASE pc # "parked"
  <2>1. UNCHANGED <<cause, waiting, woken, pc>>
    BY <1>6 DEF EngineWarns
  <2>2. ThreadTypes' /\ PlaceTypes'
    BY <1>1, <1>2, <1>3, <2>1 DEF ThreadTypes, PlaceTypes, stageVars, outputVars
  <2>3. RunsKeepApart' /\ Followed'
    BY <1>1, <1>3, <2>1 DEF IInv, RunsKeepApart, Alive, Followed, Fresh, Within
  <2> QED
    BY <1>1, <1>4, <2>2, <2>3 DEF IInv, TypeOK, PlaceTypes, ThreadTypes, LineTypes
<1> QED
  BY <1>5, <1>6

\* The budget wakes the caller the guard parked.
LEMMA DeadlineFiresKeeps == IInv /\ DeadlineFires => IInv'
<1> SUFFICES ASSUME IInv, DeadlineFires PROVE IInv'
  OBVIOUS
<1>1. Projects = 1..Len(batch) /\ Len(batch) \in Nat /\ Off \notin Projects
  BY Numbered DEF IInv, TypeOK
<1>2. batch' = batch /\ queued' = queued /\ Projects' = Projects /\ Lines' = Lines
  BY DEF DeadlineFires, Wake, Entry, Projects, Lines
<1>3. PlaceTypes /\ ThreadTypes /\ LineTypes
  BY Types DEF IInv
<1>0. at \in Projects /\ pc = "parked" /\ waiting[at]
  BY DEF IInv, RunsKeepApart, Followed, Within, DeadlineFires, Idle
<1>4. TypeOK'
  <2>1. PlaceTypes'
    BY <1>0, <1>1, <1>2, <1>3
       DEF PlaceTypes, DeadlineFires, Wake, Entry, stageVars, threadVars, guardVars, outputVars
  <2>2. ThreadTypes'
    BY <1>0, <1>1, <1>2, <1>3
       DEF ThreadTypes, DeadlineFires, Wake, Entry, stageVars, threadVars, guardVars, outputVars
  <2>3. LineTypes'
    BY <1>0, <1>1, <1>2, <1>3
       DEF LineTypes, DeadlineFires, Wake, Entry, stageVars, threadVars, guardVars, outputVars
  <2> QED
    BY <1>2, <2>1, <2>2, <2>3 DEF IInv, TypeOK, PlaceTypes, ThreadTypes, LineTypes
<1>5. RunsKeepApart'
  <2>1. /\ cause' = [cause EXCEPT ![at] = "budget"]
        /\ UNCHANGED <<at, worker, executor, dispatch, result, verdict, mock>>
    BY DEF DeadlineFires, threadVars
  <2>2. pc' = "woken" /\ \A d \in Projects : woken'[d] <= 1 /\ waiting'[d] = FALSE
    BY <1>0, WokenOnce DEF DeadlineFires
  <2>3. \A d \in Projects : Alive(d)' => Alive(d)
    BY <2>1 DEF Alive
  <2>4. verdict[at] = "none"
    BY <1>0 DEF IInv, Followed
  <2>5. \A d \in Projects : verdict'[d] = "passed" => cause'[d] = "none"
    BY <1>3, <2>1, <2>4 DEF IInv, RunsKeepApart, ThreadTypes
  <2> QED
    BY <1>0, <1>2, <2>1, <2>2, <2>3, <2>5 DEF IInv, RunsKeepApart
<1>6. Followed'
  BY <1>0, <1>1, <1>2
     DEF IInv, TypeOK, RunsKeepApart, Followed, Fresh, Within, DeadlineFires, Wake, Entry,
         stageVars, threadVars, guardVars, outputVars
<1> QED
  BY <1>4, <1>5, <1>6 DEF IInv

\* The lines of a run's end are lines of the project in hand.
LEMMA EndLinesAreLines ==
    ASSUME at \in Projects, NEW unscheduled \in BOOLEAN
    PROVE  /\ EndLines(unscheduled) \in Seq(Lines)
           /\ EndLines(unscheduled) # <<>> => Last(EndLines(unscheduled)) \in Lines
<1> DEFINE abandoned == IF Finished THEN <<>> ELSE <<NoteText(at)>>
           refused == IF unscheduled THEN <<SchedulingText(at)>> ELSE <<>>
<1>1. NoteText(at) \in Lines /\ SchedulingText(at) \in Lines
  BY DEF NoteText, SchedulingText, Lines
<1>2. abandoned \in Seq(Lines) /\ refused \in Seq(Lines)
  BY <1>1
<1>3. EndLines(unscheduled) = abandoned \o refused
  BY DEF EndLines
<1>4. EndLines(unscheduled) \in Seq(Lines)
  BY <1>2, <1>3
<1>5. EndLines(unscheduled) # <<>> => Last(EndLines(unscheduled)) \in Lines
  <2> SUFFICES ASSUME EndLines(unscheduled) # <<>>
               PROVE  EndLines(unscheduled)[Len(EndLines(unscheduled))] \in Lines
    BY DEF Last
  <2> HIDE DEF abandoned, refused
  <2> QED
    BY <1>4
<1> QED
  BY <1>4, <1>5

\* What a run leaves behind when its guard has been woken.
LEMMA SettleKeeps == IInv /\ Settle => IInv'
<1> SUFFICES ASSUME IInv, Settle PROVE IInv'
  OBVIOUS
<1>1. Projects = 1..Len(batch) /\ Len(batch) \in Nat /\ Off \notin Projects
  BY Numbered DEF IInv, TypeOK
<1>2. /\ UNCHANGED <<batch, queued, at, stray, cause, waiting>>
      /\ Projects' = Projects /\ Lines' = Lines
      /\ mock' = Off /\ capture' = Off /\ pc' \in {"between", "take"}
  BY DEF Settle, EndsThreads, Report, Projects, Lines
<1>3. PlaceTypes /\ ThreadTypes /\ LineTypes
  BY Types DEF IInv
<1>4. pc = "woken" /\ at \in Projects /\ \A d \in Projects : waiting[d] = FALSE
  BY <1>3 DEF IInv, RunsKeepApart, Followed, Within, Settle, ThreadTypes
<1>5. /\ worker' = [worker EXCEPT ![at] = "ended"]
      /\ executor' = [executor EXCEPT ![at] = IF Started THEN "ended" ELSE @]
      /\ dispatch' = [dispatch EXCEPT ![at] = "none"]
      /\ result' = [result EXCEPT ![at] = IF ~Finished /\ Started THEN "failed" ELSE @]
      /\ woken' = [woken EXCEPT ![at] = IF waiting[at] /\ ~Finished /\ Started THEN @ + 1 ELSE @]
  BY DEF Settle, EndsThreads
<1>6. verdict' = [verdict EXCEPT ![at] = IF Finished THEN result[at] ELSE cause[at]]
  BY DEF Settle, Report
<1>7. \A d \in Projects : ~Alive(d)' /\ woken'[d] <= 1
  <2>1. \A d \in Projects : woken'[d] = woken[d]
    BY <1>3, <1>4, <1>5 DEF ThreadTypes
  <2>2. \A d \in Projects : Alive(d) => d = at
    BY DEF IInv, RunsKeepApart
  <2>3. \A d \in Projects : ~Alive(d)'
    BY <1>3, <1>5, <2>2 DEF Alive, ThreadTypes, Started
  <2> QED
    BY <2>1, <2>3 DEF IInv, RunsKeepApart
<1>8. \A d \in Projects : /\ verdict'[d] = "budget" => batch[d].budgeted
                          /\ verdict'[d] = "passed" => cause[d] = "none"
                          /\ result'[d] = "passed" => cause[d] = "none"
  <2>1. /\ result[at] # "budget" /\ cause[at] # "passed"
        /\ cause[at] = "budget" => batch[at].budgeted
        /\ result[at] = "passed" => cause[at] = "none"
    BY <1>3, <1>4 DEF IInv, Followed, ThreadTypes
  <2> QED
    BY <1>3, <1>5, <1>6, <2>1 DEF IInv, RunsKeepApart, Followed, ThreadTypes, PlaceTypes
<1>9. PlaceTypes'
  <2>1. prevPkg' = NoPackage \/ prevPkg' = batch[at].pkg
    BY DEF Settle, Report, StagedAfter, Entry
  <2>2. (IF Finished THEN result[at] ELSE cause[at]) \in {"none", "failed", "passed", "warning", "budget"}
    BY <1>3, <1>4 DEF ThreadTypes
  <2> QED
    BY <1>2, <1>3, <1>4, <1>6, <2>1, <2>2 DEF PlaceTypes
<1>10. ThreadTypes'
  <2>1. woken' \in [Projects -> Nat]
    BY <1>3, <1>4, <1>5 DEF ThreadTypes
  <2>2. result' \in [Projects -> {"none", "failed", "passed"}]
    BY <1>3, <1>4, <1>5 DEF ThreadTypes
  <2>3. executor' \in [Projects -> {"none", "runs", "stuck", "ended"}]
    BY <1>3, <1>4, <1>5 DEF ThreadTypes
  <2> QED
    BY <1>2, <1>3, <1>5, <2>1, <2>2, <2>3 DEF ThreadTypes
<1>11. LineTypes'
  <2>1. PICK unscheduled \in BOOLEAN : Notes(EndLines(unscheduled))
    BY DEF Settle
  <2> DEFINE lines == EndLines(unscheduled)
  <2>2. lines \in Seq(Lines) /\ (lines # <<>> => Last(lines) \in Lines)
    BY <1>4, EndLinesAreLines
  <2> HIDE DEF lines
  <2>3. /\ posted' = posted \o lines
        /\ filed' = [filed EXCEPT ![capture] = @ \o lines]
        /\ echo' = IF lines = <<>> THEN echo ELSE Last(lines)
        /\ crowded' \in {crowded, crowded \cup {posted'[i].of : i \in DOMAIN posted'}}
    BY <2>1 DEF Notes, lines
  <2>4. posted' \in Seq(Lines)
    BY <1>3, <2>2, <2>3 DEF LineTypes
  <2>5. \A i \in DOMAIN posted' : posted'[i].of \in Projects
    <3>1. \A i \in DOMAIN posted' : posted'[i] \in Lines
      BY <2>4
    <3>2. \A line \in Lines : line.of \in Projects
      BY DEF Lines
    <3> QED
      BY <3>1, <3>2
  <2>6. \A d \in Projects : filed[d] \o lines \in Seq(Lines)
    BY <1>3, <2>2 DEF LineTypes
  <2>7. filed' \in [Projects -> Seq(Lines)]
    BY <1>3, <2>3, <2>6 DEF LineTypes
  <2>8. echo' \in Lines \cup {NoLine}
    BY <1>3, <2>2, <2>3 DEF LineTypes
  <2>9. crowded' \subseteq Projects
    BY <1>3, <2>3, <2>5 DEF LineTypes
  <2> QED
    BY <1>2, <2>4, <2>7, <2>8, <2>9 DEF LineTypes, NoLine
<1>12. TypeOK'
  BY <1>2, <1>9, <1>10, <1>11 DEF IInv, TypeOK, PlaceTypes, ThreadTypes, LineTypes
<1>13. RunsKeepApart'
  BY <1>2, <1>4, <1>7, <1>8 DEF RunsKeepApart
<1>14. Followed'
  <2>1. ASSUME NEW d \in Projects, d > at PROVE Fresh(d)'
    <3>1. Fresh(d) /\ d # at
      BY <1>1, <1>3, <2>1 DEF IInv, Followed, PlaceTypes
    <3> QED
      BY <1>2, <1>3, <1>5, <1>6, <3>1 DEF Fresh, ThreadTypes, PlaceTypes
  <2> QED
    BY <1>2, <1>8, <2>1 DEF IInv, Followed, Within
<1> QED
  BY <1>12, <1>13, <1>14 DEF IInv

\* Nothing happens.
LEMMA StutterKeeps == IInv /\ UNCHANGED vars => IInv'
<1> SUFFICES ASSUME IInv, UNCHANGED vars PROVE IInv'
  OBVIOUS
<1>1. UNCHANGED <<batch, queued, pc, at, prevPkg, worker, executor, dispatch, stray,
                  waiting, woken, result, cause, verdict, mock, capture, filed, echo,
                  posted, crowded>>
  BY DEF vars, stageVars, threadVars, guardVars, outputVars
<1>2. TypeOK'
  <2>1. PlaceTypes /\ ThreadTypes /\ LineTypes
    BY Types DEF IInv
  <2>2. Projects' = Projects /\ Lines' = Lines
    BY <1>1 DEF Projects, Lines
  <2>3. PlaceTypes'
    BY <1>1, <2>1, <2>2 DEF PlaceTypes
  <2>4. ThreadTypes'
    BY <1>1, <2>1, <2>2 DEF ThreadTypes
  <2>5. LineTypes'
    BY <1>1, <2>1, <2>2 DEF LineTypes
  <2> QED
    BY <1>1, <2>2, <2>3, <2>4, <2>5 DEF IInv, TypeOK, PlaceTypes, ThreadTypes, LineTypes
<1>3. RunsKeepApart' /\ Followed'
  BY <1>1 DEF IInv, RunsKeepApart, Alive, Followed, Fresh, Projects
<1> QED
  BY <1>2, <1>3 DEF IInv

\* Every step keeps it.
LEMMA InvariantHolds == Spec => []IInv
<1>1. ASSUME IInv, [Next]_vars PROVE IInv'
  <2>1. CASE Caller
    BY <1>1, <2>1, TakeKeeps, RefusesKeeps, FirstTurnKeeps, SettleKeeps, ReadKeeps, StopKeeps
       DEF Caller
  <2>2. CASE Threads
    BY <1>1, <2>2, GoesOnKeeps, WithinARunKeeps, RunEndsKeeps, StrayGoesOnKeeps DEF Threads
  <2>3. CASE \E e \in Projects : EngineWarns(e)
    BY <1>1, <2>3, EngineWarnsKeeps
  <2>4. CASE DeadlineFires
    BY <1>1, <2>4, DeadlineFiresKeeps
  <2>5. CASE Deliver
    BY <1>1, <2>5, DeliverKeeps
  <2>6. CASE UNCHANGED vars
    BY <1>1, <2>6, StutterKeeps
  <2> QED
    BY <1>1, <2>1, <2>2, <2>3, <2>4, <2>5, <2>6 DEF Next
<1> QED
  BY <1>1, InitInv, PTL DEF Spec

\* In every share, whatever a package's stage and its tests do, a run is over
\* before the next one begins: no thread of it, no second wake of the caller and
\* no snapshot mock of it outlives its entry
\* (infinite-yield.luau's guard, cooperative-scheduler's cancel).
THEOREM RunsAreOver == Spec => []BatchInv
<1>1. IInv => BatchInv
  BY DEF IInv, BatchInv
<1> QED
  BY <1>1, InvariantHolds, PTL

-----------------------------------------------------------------------------
(* Whose capture a line is found in.  Nothing of a project is on its way   *)
(* while its own capture is open, and a print that was alone in its turn   *)
(* still has its echo waiting for it.                                      *)

Captured ==
    /\ capture = IF pc \in Within THEN at ELSE Off
    /\ \A i \in DOMAIN posted : posted[i].of <= at /\ (pc \in Within => posted[i].of < at)
    /\ \A e \in Projects : e > at \/ (e = at /\ pc \in Within) => NotesOf(e) = {}

Expected ==
    \A i \in DOMAIN posted :
      posted[i].of \in crowded \/ (Len(posted) = 1 /\ SameText(posted[i], echo))

LineInv == Captured /\ Expected /\ LinesAreOwn

\* No line is there before a share begins.
LEMMA NothingSaidYet == Init => LineInv
<1> SUFFICES ASSUME Init PROVE LineInv
  OBVIOUS
<1>1. \A e \in Projects : filed[e] = <<>>
  BY DEF Init
<1>2. \A e \in Projects : NotesOf(e) = {} /\ DOMAIN filed[e] = {}
  BY <1>1 DEF NotesOf
<1>3. posted = <<>> /\ DOMAIN posted = {}
  BY DEF Init
<1> QED
  BY <1>2, <1>3 DEF Init, LineInv, Captured, Expected, LinesAreOwn, Within

\* A step that opens or closes no capture and prints nothing.
LEMMA QuietStep ==
    ASSUME LineInv, UNCHANGED <<batch, at, verdict, outputVars>>, pc' \in Within <=> pc \in Within
    PROVE  LineInv'
<1>1. UNCHANGED <<capture, filed, echo, posted, crowded>>
  BY DEF outputVars
<1>2. Projects' = Projects /\ \A e \in Projects : NotesOf(e)' = NotesOf(e)
  BY <1>1 DEF Projects, NotesOf
<1>3. Captured'
  BY <1>1, <1>2 DEF LineInv, Captured
<1>4. Expected'
  BY <1>1 DEF LineInv, Expected, SameText
<1>5. LinesAreOwn'
  BY <1>1, <1>2 DEF LineInv, LinesAreOwn
<1> QED
  BY <1>3, <1>4, <1>5 DEF LineInv

\* A capture is opened for a project that has said nothing so far.
LEMMA TakeOpens == IInv /\ LineInv /\ Take => LineInv'
<1> SUFFICES ASSUME IInv, LineInv, Take PROVE LineInv'
  OBVIOUS
<1>1. /\ pc = "take" /\ pc' \in Within /\ pc \notin Within
      /\ at' = at + 1 /\ capture' = at + 1
      /\ UNCHANGED <<batch, verdict, filed, echo, posted, crowded>>
  BY DEF Take, Within
<1>2. Projects' = Projects /\ \A e \in Projects : NotesOf(e)' = NotesOf(e)
  BY <1>1 DEF Projects, NotesOf
<1>3. Projects = 1..Len(batch) /\ at \in Int
  BY Numbered DEF IInv, TypeOK
<1>4. posted \in Seq(Lines) /\ \A i \in DOMAIN posted : posted[i].of \in Int
  <2>1. posted \in Seq(Lines)
    BY DEF IInv, TypeOK
  <2>2. \A i \in DOMAIN posted : posted[i] \in Lines
    BY <2>1
  <2>3. \A line \in Lines : line.of \in Int
    BY <1>3 DEF Lines
  <2> QED
    BY <2>1, <2>2, <2>3
<1>5. Captured'
  BY <1>1, <1>2, <1>3, <1>4 DEF LineInv, Captured
<1>6. Expected'
  BY <1>1 DEF LineInv, Expected, SameText
<1>7. LinesAreOwn'
  BY <1>1, <1>2 DEF LineInv, LinesAreOwn
<1> QED
  BY <1>5, <1>6, <1>7 DEF LineInv

\* An entry that never came to run has said nothing.
LEMMA RefusedSaysNothing == IInv /\ LineInv /\ (StageFails \/ JestMissing) => LineInv'
<1> SUFFICES ASSUME IInv, LineInv, StageFails \/ JestMissing PROVE LineInv'
  OBVIOUS
<1>1. /\ pc \in Within /\ pc' \notin Within /\ capture' = Off
      /\ UNCHANGED <<batch, at, filed, echo, posted, crowded>>
  BY DEF StageFails, JestMissing, Report, Within
<1>2. verdict' = [verdict EXCEPT ![at] = "staging"] \/ verdict' = [verdict EXCEPT ![at] = "noJest"]
  BY DEF StageFails, JestMissing, Report
<1>3. Projects' = Projects /\ \A e \in Projects : NotesOf(e)' = NotesOf(e)
  BY <1>1 DEF Projects, NotesOf
<1>4. /\ at \in Projects /\ NotesOf(at) = {}
      /\ verdict'[at] \in {"staging", "noJest"} /\ \A d \in Projects \ {at} : verdict'[d] = verdict[d]
  BY <1>1, <1>2 DEF IInv, TypeOK, Followed, LineInv, Captured
<1>5. Captured'
  BY <1>1, <1>3 DEF LineInv, Captured
<1>6. Expected'
  BY <1>1 DEF LineInv, Expected, SameText
<1>7. LinesAreOwn'
  BY <1>1, <1>3, <1>4 DEF LineInv, LinesAreOwn
<1> QED
  BY <1>5, <1>6, <1>7 DEF LineInv

\* A print reaches the capture that is open: its echo is dropped, and another
\* line than the one expected shared its turn.
LEMMA DeliveredApart == IInv /\ LineInv /\ Deliver => LineInv'
<1> SUFFICES ASSUME IInv, LineInv, Deliver PROVE LineInv'
  OBVIOUS
<1> DEFINE line == Head(posted)
<1>1. /\ posted # <<>> /\ posted' = Tail(posted)
      /\ UNCHANGED <<batch, at, pc, verdict, capture, crowded>>
  BY DEF Deliver
<1>2. Projects' = Projects /\ Projects = 1..Len(batch) /\ at \in Int /\ Off \notin Projects
  BY <1>1, Numbered DEF IInv, TypeOK, Projects
<1>3. /\ posted \in Seq(Lines) /\ Len(posted) \in Nat \ {0} /\ DOMAIN posted = 1..Len(posted)
      /\ line = posted[1]
      /\ Len(posted') = Len(posted) - 1 /\ DOMAIN posted' = 1..(Len(posted) - 1)
      /\ \A i \in DOMAIN posted' : i + 1 \in DOMAIN posted /\ posted'[i] = posted[i + 1]
  <2>1. posted \in Seq(Lines)
    BY DEF IInv, TypeOK
  <2> QED
    BY <1>1, <2>1
<1>4. Expected'
  BY <1>1, <1>3 DEF LineInv, Expected
<1>5. CASE filed' = filed
  <2>1. \A e \in Projects : NotesOf(e)' = NotesOf(e)
    BY <1>5 DEF NotesOf
  <2>2. Captured'
    BY <1>1, <1>2, <1>3, <2>1 DEF LineInv, Captured
  <2>3. LinesAreOwn'
    BY <1>1, <1>2, <1>5, <2>1 DEF LineInv, LinesAreOwn
  <2> QED
    BY <1>4, <2>2, <2>3 DEF LineInv
<1>6. CASE filed' # filed
  <2>1. /\ capture # Off /\ ~SameText(line, echo)
        /\ filed' = [filed EXCEPT ![capture] = Append(@, line)]
    BY <1>6 DEF Deliver
  <2>2. pc \in Within /\ capture = at /\ at \in Projects /\ verdict[at] = "none"
    BY <2>1 DEF LineInv, Captured, IInv, Followed, Within, Deliver
  <2>3. line.of \in crowded /\ line.of # at
    BY <1>3, <2>1, <2>2, <1>2 DEF LineInv, Expected, Captured
  <2>4. /\ \A d \in Projects \ {at} : filed'[d] = filed[d]
        /\ filed'[at] = Append(filed[at], line) /\ filed[at] \in Seq(Lines)
    BY <2>1, <2>2 DEF IInv, TypeOK
  <2>5. /\ DOMAIN filed[at] = 1..Len(filed[at]) /\ Len(filed[at]) \in Nat
        /\ DOMAIN filed'[at] = 1..(Len(filed[at]) + 1)
        /\ \A i \in DOMAIN filed[at] : filed'[at][i] = filed[at][i]
        /\ filed'[at][Len(filed[at]) + 1] = line
    <3> HIDE DEF line
    <3> QED
      BY <2>4
  <2>6. \A d \in Projects \ {at} : NotesOf(d)' = NotesOf(d)
    BY <2>4 DEF NotesOf
  <2>7. NotesOf(at)' = {}
    <3>1. NotesOf(at) = {}
      BY <2>2 DEF LineInv, Captured
    <3>2. line # NoteText(at)
      BY <2>3 DEF NoteText
    <3> HIDE DEF line
    <3> QED
      BY <1>1, <2>5, <3>1, <3>2 DEF NotesOf, NoteText
  <2>8. Captured'
    BY <1>1, <1>2, <1>3, <2>2, <2>6, <2>7 DEF LineInv, Captured
  <2>9. \A i \in DOMAIN filed'[at] : filed'[at][i].of \in {at} \cup crowded
    <3>1. \A i \in DOMAIN filed[at] : filed[at][i].of \in {at} \cup crowded
      BY <2>2 DEF LineInv, LinesAreOwn
    <3> HIDE DEF line
    <3> QED
      BY <2>3, <2>5, <3>1
  <2>10. LinesAreOwn'
    BY <1>1, <1>2, <2>2, <2>4, <2>6, <2>7, <2>9 DEF LineInv, LinesAreOwn
  <2> QED
    BY <1>4, <2>8, <2>10 DEF LineInv
<1> QED
  BY <1>5, <1>6

\* How a run's end reads: one note if its closure never returned, else none.
LEMMA EndLinesOf ==
    ASSUME NEW unscheduled \in BOOLEAN
    PROVE  LET lines == EndLines(unscheduled)
           IN /\ lines \in Seq([of : {at}, text : {"note", "scheduling"}])
              /\ {i \in 1..Len(lines) : lines[i] = NoteText(at)} = IF Finished THEN {} ELSE {1}
              /\ ~Finished => Len(lines) >= 1
<1> DEFINE note == NoteText(at)
           scheduling == SchedulingText(at)
           lines == EndLines(unscheduled)
<1>1. /\ note \in [of : {at}, text : {"note", "scheduling"}]
      /\ scheduling \in [of : {at}, text : {"note", "scheduling"}]
      /\ note # scheduling
  BY DEF NoteText, SchedulingText
<1>2. lines = (IF Finished THEN <<>> ELSE <<note>>) \o (IF unscheduled THEN <<scheduling>> ELSE <<>>)
  BY DEF EndLines
<1> HIDE DEF note, scheduling, lines
<1> DEFINE own == [of : {at}, text : {"note", "scheduling"}]
           places == {i \in 1..Len(lines) : lines[i] = note}
<1> SUFFICES /\ lines \in Seq(own)
             /\ places = IF Finished THEN {} ELSE {1}
             /\ ~Finished => Len(lines) >= 1
  BY DEF lines, note
<1> HIDE DEF own
<1>3. note \in own /\ scheduling \in own /\ note # scheduling
  BY <1>1 DEF own
<1>4. CASE Finished /\ unscheduled
  <2>1. lines = <<scheduling>>
    BY <1>2, <1>4
  <2> QED
    BY <1>3, <1>4, <2>1
<1>5. CASE Finished /\ ~unscheduled
  <2>1. lines = <<>>
    BY <1>2, <1>5
  <2> QED
    BY <1>5, <2>1
<1>6. CASE ~Finished /\ unscheduled
  <2>1. lines = <<note>> \o <<scheduling>>
    BY <1>2, <1>6
  <2>2. <<note>> \in Seq(own) /\ <<scheduling>> \in Seq(own)
    BY <1>3
  <2>3. Len(lines) = 2 /\ lines[1] = note /\ lines[2] = scheduling
    BY <2>1, <2>2
  <2>4. lines \in Seq(own)
    BY <2>1, <2>2
  <2> QED
    BY <1>3, <1>6, <2>3, <2>4
<1>7. CASE ~Finished /\ ~unscheduled
  <2>1. lines = <<note>>
    BY <1>2, <1>7
  <2> QED
    BY <1>3, <1>7, <2>1
<1> QED
  BY <1>4, <1>5, <1>6, <1>7

\* A run's end is told in its own capture, and expected back or crowded.
LEMMA SettledInItsCapture == IInv /\ LineInv /\ Settle => LineInv'
<1> SUFFICES ASSUME IInv, LineInv, Settle PROVE LineInv'
  OBVIOUS
<1>1. PICK unscheduled \in BOOLEAN : Notes(EndLines(unscheduled))
  BY DEF Settle
<1> DEFINE lines == EndLines(unscheduled)
           own == [of : {at}, text : {"note", "scheduling"}]
           answer == IF Finished THEN result[at] ELSE cause[at]
<1>2. /\ pc = "woken" /\ pc \in Within /\ pc' \notin Within /\ capture' = Off
      /\ UNCHANGED <<batch, at>>
      /\ verdict' = [verdict EXCEPT ![at] = answer]
  BY DEF Settle, EndsThreads, Report, Within
<1>3. /\ Projects' = Projects /\ Projects = 1..Len(batch) /\ at \in Projects /\ at \in Int
      /\ capture = at /\ NotesOf(at) = {} /\ Off \notin Projects
  <2>1. Projects' = Projects /\ Projects = 1..Len(batch) /\ Off \notin Projects
    BY <1>2, Numbered DEF IInv, TypeOK, Projects
  <2>2. at \in Projects
    BY <1>2 DEF IInv, Followed
  <2>3. capture = at /\ NotesOf(at) = {}
    BY <1>2, <2>2 DEF LineInv, Captured
  <2> QED
    BY <2>1, <2>2, <2>3
<1>4. /\ lines \in Seq(own) /\ (~Finished => Len(lines) >= 1)
      /\ {i \in 1..Len(lines) : lines[i] = NoteText(at)} = IF Finished THEN {} ELSE {1}
  BY EndLinesOf
<1>5. answer \in IF Finished THEN {"failed", "passed"} ELSE {"none", "warning", "budget"}
  BY <1>3 DEF IInv, TypeOK, Finished
<1> HIDE DEF lines, answer
<1>6. /\ posted' = posted \o lines
      /\ filed' = [filed EXCEPT ![at] = @ \o lines]
      /\ echo' = IF lines = <<>> THEN echo ELSE Last(lines)
      /\ crowded' = IF Len(posted') > 1 THEN crowded \cup {posted'[i].of : i \in DOMAIN posted'}
                                        ELSE crowded
  BY <1>1, <1>3 DEF Notes, lines
<1>7. /\ posted \in Seq(Lines) /\ filed[at] \in Seq(Lines)
      /\ filed'[at] = filed[at] \o lines
      /\ \A d \in Projects \ {at} : filed'[d] = filed[d]
  BY <1>3, <1>6 DEF IInv, TypeOK
<1>8. \A i \in 1..Len(lines) : lines[i].of = at
  <2>1. \A i \in 1..Len(lines) : lines[i] \in own
    <3> HIDE DEF own
    <3> QED
      BY <1>4
  <2> QED
    BY <2>1
<1>9. /\ Len(posted) \in Nat /\ Len(lines) \in Nat /\ Len(posted') = Len(posted) + Len(lines)
      /\ DOMAIN posted = 1..Len(posted) /\ DOMAIN posted' = 1..Len(posted')
      /\ \A i \in DOMAIN posted' :
           posted'[i] = IF i <= Len(posted) THEN posted[i] ELSE lines[i - Len(posted)]
  BY <1>4, <1>6, <1>7
<1>10. \A i \in DOMAIN posted' : posted'[i].of <= at
  <2> SUFFICES ASSUME NEW i \in DOMAIN posted' PROVE posted'[i].of <= at
    OBVIOUS
  <2>1. CASE i <= Len(posted)
    BY <1>9, <2>1 DEF LineInv, Captured
  <2>2. CASE i > Len(posted)
    BY <1>3, <1>8, <1>9, <2>2
  <2> QED
    BY <1>9, <2>1, <2>2
<1>11. Expected'
  <2>1. CASE Len(posted') > 1
    BY <1>6, <2>1 DEF Expected
  <2>2. CASE Len(posted') <= 1 /\ Len(lines) = 0
    <3>1. lines = <<>> /\ posted' = posted /\ echo' = echo
      BY <1>4, <1>6, <1>7, <2>2
    <3>2. crowded' = crowded
      BY <1>6, <1>9, <2>2
    <3> QED
      BY <3>1, <3>2 DEF LineInv, Expected, SameText
  <2>3. CASE Len(posted') <= 1 /\ Len(lines) # 0
    <3>1. Len(posted) = 0 /\ Len(lines) = 1 /\ Len(posted') = 1
      <4> DEFINE p == Len(posted)
                 n == Len(lines)
                 q == Len(posted')
      <4>1. p \in Nat /\ n \in Nat /\ q = p + n /\ q <= 1 /\ n # 0
        BY <1>9, <2>3
      <4> HIDE DEF p, n, q
      <4>2. p = 0 /\ n = 1 /\ q = 1
        BY <4>1
      <4> QED
        BY <4>2 DEF p, n, q
    <3>2. lines # <<>> /\ echo' = lines[1]
      BY <1>4, <1>6, <3>1 DEF Last
    <3>3. \A i \in DOMAIN posted' : posted'[i] = echo'
      BY <1>9, <3>1, <3>2
    <3> QED
      BY <3>1, <3>3 DEF Expected, SameText
  <2> QED
    BY <1>9, <2>1, <2>2, <2>3
<1>12. \A d \in Projects \ {at} : NotesOf(d)' = NotesOf(d)
  BY <1>7 DEF NotesOf
<1>13. Captured'
  BY <1>2, <1>3, <1>10, <1>12 DEF LineInv, Captured
<1>14. /\ Len(filed[at]) \in Nat /\ DOMAIN filed[at] = 1..Len(filed[at])
       /\ DOMAIN filed'[at] = 1..(Len(filed[at]) + Len(lines))
       /\ \A i \in DOMAIN filed'[at] :
            filed'[at][i] = IF i <= Len(filed[at]) THEN filed[at][i] ELSE lines[i - Len(filed[at])]
  BY <1>4, <1>7
<1>15. \A i \in DOMAIN filed'[at] : filed'[at][i] = NoteText(at) <=> ~Finished /\ i = Len(filed[at]) + 1
  <2> SUFFICES ASSUME NEW i \in DOMAIN filed'[at]
               PROVE  filed'[at][i] = NoteText(at) <=> ~Finished /\ i = Len(filed[at]) + 1
    OBVIOUS
  <2>1. CASE i <= Len(filed[at])
    BY <1>3, <1>14, <2>1 DEF NotesOf
  <2>2. CASE i > Len(filed[at])
    <3>1. i - Len(filed[at]) \in 1..Len(lines) /\ filed'[at][i] = lines[i - Len(filed[at])]
      BY <1>9, <1>14, <2>2
    <3>2. \A j \in 1..Len(lines) : lines[j] = NoteText(at) <=> ~Finished /\ j = 1
      BY <1>4
    <3> QED
      BY <1>14, <3>1, <3>2
  <2> QED
    BY <1>14, <2>1, <2>2
<1>16. /\ Finished => NotesOf(at)' = {}
       /\ ~Finished => /\ Len(filed[at]) + 1 \in DOMAIN filed'[at]
                       /\ NotesOf(at)' = {Len(filed[at]) + 1}
  <2>1. NotesOf(at)' = {i \in DOMAIN filed'[at] : filed'[at][i] = NoteText(at)}
    BY <1>2 DEF NotesOf, NoteText
  <2> QED
    BY <1>4, <1>9, <1>14, <1>15, <2>1
<1>17. \A i \in DOMAIN filed'[at] : filed'[at][i].of \in {at} \cup crowded
  <2> SUFFICES ASSUME NEW i \in DOMAIN filed'[at] PROVE filed'[at][i].of \in {at} \cup crowded
    OBVIOUS
  <2>1. CASE i <= Len(filed[at])
    BY <1>3, <1>14, <2>1 DEF LineInv, LinesAreOwn
  <2>2. CASE i > Len(filed[at])
    <3>1. i - Len(filed[at]) \in 1..Len(lines) /\ filed'[at][i] = lines[i - Len(filed[at])]
      BY <1>9, <1>14, <2>2
    <3> QED
      BY <1>8, <3>1
  <2> QED
    BY <1>14, <2>1, <2>2
<1>18. crowded \subseteq crowded'
  BY <1>6
<1>19. verdict'[at] = answer /\ \A d \in Projects \ {at} : verdict'[d] = verdict[d]
  BY <1>2, <1>3 DEF IInv, TypeOK
<1>20. LinesAreOwn'
  <2> SUFFICES ASSUME NEW e \in Projects
               PROVE  /\ verdict'[e] \in {"warning", "budget"} => \E i \in DOMAIN filed'[e] : NotesOf(e)' = {i}
                      /\ verdict'[e] \in {"staging", "noJest", "failed", "passed"} => NotesOf(e)' = {}
                      /\ \A i \in DOMAIN filed'[e] : filed'[e][i].of \in {e} \cup crowded'
    BY <1>3 DEF LinesAreOwn
  <2>1. CASE e = at
    <3>0. NotesOf(e)' = NotesOf(at)'
      BY <1>2, <2>1 DEF NotesOf, NoteText
    <3>1. verdict'[at] = answer /\ \A i \in DOMAIN filed'[at] : filed'[at][i].of \in {at} \cup crowded'
      BY <1>17, <1>18, <1>19
    <3>2. CASE Finished
      BY <1>2, <1>5, <1>16, <2>1, <3>0, <3>1, <3>2
    <3>3. CASE ~Finished
      BY <1>2, <1>5, <1>16, <2>1, <3>0, <3>1, <3>3
    <3> QED
      BY <3>2, <3>3
  <2>2. CASE e # at
    BY <1>7, <1>12, <1>18, <1>19, <2>2 DEF LineInv, LinesAreOwn
  <2> QED
    BY <2>1, <2>2
<1> QED
  BY <1>11, <1>13, <1>20 DEF LineInv

\* In every share, whatever its tests do and whatever is printed while they do,
\* an abandoned run says how far it had got exactly once, in its own capture, and
\* a line strays into another capture only if it shared its turn
\* (game-output-capture.luau's note and its listener, runner-result.luau's noteAbandon).
THEOREM LinesStayHome == Spec => []LinesAreOwn
<1>1. ASSUME IInv, LineInv, [Next]_vars PROVE LineInv'
  <2>1. CASE Caller
    <3>1. CASE FirstTurn \/ Read \/ Stop
      BY <1>1, <3>1, QuietStep DEF FirstTurn, Read, Stop, Within
    <3> QED
      BY <1>1, <2>1, <3>1, TakeOpens, RefusedSaysNothing, SettledInItsCapture DEF Caller
  <2>2. CASE Threads
    <3>1. PICK e \in Projects : GoesOn(e) \/ TestStuck(e) \/ ChildAppears(e) \/ GivesWay(e)
                                \/ Resumes(e) \/ RunEnds(e) \/ StrayGoesOn(e)
      BY <2>2 DEF Threads
    <3>2. waiting[e] <=> e = at /\ pc = "parked"
      BY <1>1 DEF IInv, RunsKeepApart
    <3>3. UNCHANGED <<batch, at, verdict, outputVars>>
      BY <3>1 DEF GoesOn, TestStuck, ChildAppears, GivesWay, Resumes, RunEnds, StrayGoesOn
    <3>4. pc' \in Within <=> pc \in Within
      BY <3>1, <3>2
         DEF GoesOn, TestStuck, ChildAppears, GivesWay, Resumes, RunEnds, StrayGoesOn, Wake,
             Within
    <3> QED
      BY <1>1, <3>3, <3>4, QuietStep
  <2>3. CASE (\E e \in Projects : EngineWarns(e)) \/ DeadlineFires
    <3>1. UNCHANGED <<batch, at, verdict, outputVars>>
      BY <2>3 DEF EngineWarns, DeadlineFires
    <3>2. pc' \in Within <=> pc \in Within
      BY <2>3 DEF EngineWarns, DeadlineFires, Wake, Within
    <3> QED
      BY <1>1, <3>1, <3>2, QuietStep
  <2>4. CASE Deliver
    BY <1>1, <2>4, DeliveredApart
  <2>5. CASE UNCHANGED vars
    BY <1>1, <2>5, QuietStep DEF vars, outputVars
  <2> QED
    BY <1>1, <2>1, <2>2, <2>3, <2>4, <2>5 DEF Next
<1>2. LineInv => LinesAreOwn
  BY DEF LineInv
<1> QED
  BY <1>1, <1>2, InvariantHolds, InitInv, NothingSaidYet, PTL DEF Spec
-----------------------------------------------------------------------------
(* The stage a project runs in.  Between two entries the caller's prevPkg  *)
(* tells what stands in the tree, unless the package was refused; so the   *)
(* invariant names the project at which what stands now was asked for.     *)

\* The project at which the package of project e was last taken to be new.
IsFirst(d, e) ==
    /\ d \in 1..e
    /\ \A c \in d..e : batch[c].pkg = batch[e].pkg
    /\ \A c \in d..(e - 1) : verdict[c] # "budget"
    /\ d = 1 \/ batch[d - 1].pkg # batch[e].pkg \/ verdict[d - 1] = "budget"

\* The tree is what project d asked for, or nothing where that was refused.
Stands(d) ==
    /\ IsFirst(d, at)
    /\ IF verdict[d] = "staging" THEN Clean(live) ELSE Staged(batch[at].pkg, live)

\* What the caller takes to stand does stand: nothing at first and after a
\* timeout, the last entry's package otherwise.
HandedOn ==
    \/ prevPkg = NoPackage /\ Clean(live) /\ (at = 0 \/ verdict[at] = "budget")
    \/ /\ prevPkg # NoPackage /\ at > 0 /\ prevPkg = batch[at].pkg
       /\ verdict[at] # "budget"
       /\ \E d \in 1..at : Stands(d)

StageInv ==
    /\ live \in Trees
    /\ pc \in Within => verdict[at] = "none"
    /\ pc \in {"staged", "parked", "woken"} => \E d \in 1..at : Stands(d)
    /\ pc = "staged" /\ IsFirst(at, at) => CanStage(batch[at].pkg)
    /\ pc = "refused" => IsFirst(at, at) /\ Clean(live) /\ ~CanStage(batch[at].pkg)
    /\ pc \in {"take", "between"} => HandedOn
    /\ pc = "over" => Clean(live)

\* A project's package was taken to be new at one project only.
LEMMA FirstIsOne ==
    ASSUME NEW e \in Nat, NEW d \in Nat, IsFirst(d, e)
    PROVE  FirstOf(e) = d
<1>1. ASSUME NEW c \in 1..e, IsFirst(c, e) PROVE c = d
  <2>1. c \in Int /\ d \in Int /\ d \in 1..e
    BY DEF IsFirst
  <2>2. CASE c < d
    <3>1. d - 1 \in c..e /\ d - 1 \in c..(e - 1) /\ d # 1
      BY <2>1, <2>2
    <3> QED
      BY <1>1, <3>1 DEF IsFirst
  <2>3. CASE d < c
    <3>1. c - 1 \in d..e /\ c - 1 \in d..(e - 1) /\ c # 1
      BY <2>1, <2>3
    <3> QED
      BY <1>1, <3>1 DEF IsFirst
  <2> QED
    BY <2>1, <2>2, <2>3
<1>2. d \in 1..e
  BY DEF IsFirst
<1>3. FirstOf(e) = CHOOSE c \in 1..e : IsFirst(c, e)
  BY DEF FirstOf, IsFirst
<1> QED
  BY <1>1, <1>2, <1>3

\* The place opens with nothing staged.
LEMMA NothingStagedYet == Init => StageInv
BY MaterializerAssumption DEF Init, StageInv, HandedOn, Within

\* Whatever goes on under the guard leaves the stage alone.
LEMMA StageLeftAlone ==
    ASSUME StageInv, UNCHANGED <<batch, at, verdict, stageVars>>,
           \/ pc' = pc
           \/ pc \in {"staged", "parked"} /\ pc' \in {"parked", "woken"}
           \/ pc = "between" /\ pc' = "take"
    PROVE  StageInv'
<1>1. UNCHANGED <<batch, at, verdict, prevPkg, live>>
  BY DEF stageVars
<1>2. \A d, e : IsFirst(d, e)' = IsFirst(d, e)
  BY <1>1 DEF IsFirst
<1>3. \A d : Stands(d)' = Stands(d)
  BY <1>1, <1>2 DEF Stands
<1>4. HandedOn' = HandedOn
  BY <1>1, <1>3 DEF HandedOn
<1>5. IsFirst(at, at)' = IsFirst(at, at)
  BY <1>1 DEF IsFirst
<1>6. CASE pc' = pc
  BY <1>1, <1>3, <1>4, <1>5, <1>6 DEF StageInv
<1>7. CASE pc \in {"staged", "parked"} /\ pc' \in {"parked", "woken"}
  BY <1>1, <1>3, <1>7 DEF StageInv, Within
<1>8. CASE pc = "between" /\ pc' = "take"
  BY <1>1, <1>4, <1>8 DEF StageInv, Within
<1> QED
  BY <1>6, <1>7, <1>8

\* The next project finds its package standing, or has it staged in the place
\* as it opened.
LEMMA TakeStages == IInv /\ StageInv /\ Take => StageInv'
<1> SUFFICES ASSUME IInv, StageInv, Take PROVE StageInv'
  OBVIOUS
<1> DEFINE next == at + 1
           pkg == batch[next].pkg
           staging == Materialize(Torn(pkg), pkg)
<1>1. /\ batch \in Batches /\ at \in Nat /\ next \in DOMAIN batch /\ next \in 1..next
      /\ pkg # NoPackage /\ pc = "take" /\ at < next
  <2>1. Projects = 1..Len(batch) /\ Len(batch) \in Nat /\ batch \in Batches /\ at \in 0..Len(batch)
    BY Numbered DEF IInv, TypeOK
  <2>2. at < Len(batch) /\ pc = "take"
    BY DEF Take
  <2>3. at \in Nat /\ next \in DOMAIN batch /\ next \in 1..next /\ at < next
    BY <2>1, <2>2 DEF Projects
  <2> QED
    BY <2>1, <2>2, <2>3, BatchesAreShares
<1>2. verdict[next] = "none"
  BY <1>1 DEF IInv, Followed, Fresh, Projects
<1>3. /\ at' = next /\ UNCHANGED <<batch, prevPkg, verdict>>
      /\ pkg = prevPkg => live' = live /\ pc' = "staged"
      /\ pkg # prevPkg => /\ live' = staging.tree
                          /\ pc' = IF staging.ok THEN "staged" ELSE "refused"
  BY DEF Take
<1>4. HandedOn /\ live \in Trees
  BY <1>1 DEF StageInv
<1>5. \A d : Stands(d)' <=> /\ IsFirst(d, next)
                            /\ IF verdict[d] = "staging" THEN Clean(live') ELSE Staged(pkg, live')
  BY <1>3 DEF Stands, IsFirst
<1>6. IsFirst(at, at)' <=> IsFirst(next, next)
  BY <1>3 DEF IsFirst
<1>7. verdict'[at'] = "none" /\ batch'[at'].pkg = pkg /\ (1..at)' = 1..next
  BY <1>2, <1>3
<1>8. CASE pkg # prevPkg
  <2>1. Clean(Torn(pkg)) /\ Torn(pkg) \in Trees
    BY <1>4, <1>8, MaterializerAssumption DEF HandedOn, Torn
  <2>2. /\ staging.tree \in Trees /\ (staging.ok <=> CanStage(pkg))
        /\ IF CanStage(pkg) THEN Staged(pkg, staging.tree) ELSE Clean(staging.tree)
    BY <1>1, <2>1, MaterializerAssumption
  <2>3. IsFirst(next, next)
    BY <1>1, <1>4, <1>8 DEF HandedOn, IsFirst
  <2> HIDE DEF staging, pkg, next
  <2>4. CASE CanStage(pkg)
    <3>1. pc' = "staged" /\ live' \in Trees /\ Staged(pkg, live')
      BY <1>3, <1>8, <2>2, <2>4
    <3>2. \E d \in 1..next : Stands(d)'
      BY <1>1, <1>2, <1>5, <2>3, <3>1
    <3> QED
      BY <1>7, <2>4, <3>1, <3>2 DEF StageInv, Within
  <2>5. CASE ~CanStage(pkg)
    <3>1. pc' = "refused" /\ Clean(live') /\ live' \in Trees
      BY <1>3, <1>8, <2>2, <2>5
    <3> QED
      BY <1>6, <1>7, <2>3, <2>5, <3>1 DEF StageInv
  <2> QED
    BY <2>4, <2>5
<1>9. CASE pkg = prevPkg
  <2>1. at > 0 /\ pkg = batch[at].pkg /\ verdict[at] # "budget"
    BY <1>1, <1>4, <1>9 DEF HandedOn
  <2>2. PICK d \in 1..at : Stands(d)
    BY <1>1, <1>4, <1>9 DEF HandedOn
  <2>3. IsFirst(d, next)
    <3>1. IsFirst(d, at) /\ d \in 1..next
      BY <1>1, <2>2 DEF Stands
    <3>2. \A c \in d..next : c \in d..at \/ c = next
      BY <1>1
    <3>3. \A c \in d..at : c \in d..(at - 1) \/ c = at
      BY <1>1
    <3>4. next - 1 = at
      BY <1>1
    <3> QED
      BY <2>1, <3>1, <3>2, <3>3, <3>4 DEF IsFirst
  <2>4. ~IsFirst(next, next)
    BY <1>1, <2>1 DEF IsFirst
  <2>5. Stands(d)'
    BY <1>3, <1>5, <1>9, <2>1, <2>2, <2>3 DEF Stands
  <2>6. d \in 1..next
    BY <1>1, <2>2
  <2> HIDE DEF pkg, next
  <2> QED
    BY <1>3, <1>4, <1>6, <1>7, <1>9, <2>4, <2>5, <2>6 DEF StageInv
<1> QED
  BY <1>8, <1>9

\* An entry's report hands on a package that stands or was refused.
LEMMA ReportHandsOn ==
    ASSUME StageInv, batch \in Batches, at \in Projects,
           NEW answer \in {"staging", "noJest", "none", "failed", "passed", "warning"},
           verdict \in [Projects -> {"none", "staging", "noJest", "failed", "passed",
                                     "warning", "budget"}],
           Report(answer, Entry.pkg), UNCHANGED live,
           IF answer = "staging" THEN pc = "refused" ELSE pc \in {"staged", "woken"}
    PROVE  StageInv'
<1>1. Projects = 1..Len(batch) /\ Len(batch) \in Nat /\ Entry.pkg # NoPackage
  BY Numbered, BatchesAreShares DEF Projects, Entry
<1>2. /\ UNCHANGED <<batch, at, live>> /\ prevPkg' = batch[at].pkg /\ pc' \in {"take", "between"}
      /\ verdict'[at] = answer /\ \A c \in Projects \ {at} : verdict'[c] = verdict[c]
  BY DEF Report, Entry
<1>3. at \in Nat /\ at > 0 /\ at <= Len(batch) /\ verdict[at] = "none" /\ live \in Trees
  BY <1>1 DEF StageInv, Within
<1>4. ASSUME NEW d \in 1..at, IsFirst(d, at) PROVE IsFirst(d, at)'
  <2>1. \A c \in d..(at - 1) : c \in Projects \ {at}
    BY <1>1, <1>3
  <2>2. d = 1 \/ d - 1 \in Projects \ {at}
    BY <1>1, <1>3
  <2> QED
    BY <1>2, <1>4, <2>1, <2>2 DEF IsFirst
<1>5. \E d \in 1..at : Stands(d)'
  <2>1. CASE answer = "staging"
    <3>1. IsFirst(at, at) /\ Clean(live) /\ at \in 1..at
      BY <1>3, <2>1 DEF StageInv
    <3> QED
      BY <1>2, <1>4, <2>1, <3>1 DEF Stands
  <2>2. CASE answer # "staging"
    <3>1. PICK d \in 1..at : Stands(d)
      BY <2>2 DEF StageInv
    <3>2. verdict'[d] = "staging" <=> verdict[d] = "staging"
      <4>1. d \in Projects
        BY <1>1, <1>3
      <4> QED
        BY <1>2, <1>3, <2>2, <4>1
    <3> QED
      BY <1>2, <1>4, <3>1, <3>2 DEF Stands
  <2> QED
    BY <2>1, <2>2
<1>6. HandedOn'
  BY <1>1, <1>2, <1>3, <1>5 DEF HandedOn, Entry
<1> QED
  BY <1>2, <1>3, <1>6 DEF StageInv, Within

\* A run that ran out of time takes its stage with it; any other leaves it.
LEMMA SettleHandsOn == IInv /\ StageInv /\ Settle => StageInv'
<1> SUFFICES ASSUME IInv, StageInv, Settle PROVE StageInv'
  OBVIOUS
<1> DEFINE answer == IF Finished THEN result[at] ELSE cause[at]
<1>1. /\ pc = "woken" /\ Report(answer, StagedAfter)
      /\ live' = IF TimedOut THEN Reset(live) ELSE live
  BY DEF Settle
<1>2. at \in Projects /\ batch \in Batches
  BY <1>1 DEF IInv, TypeOK, Followed, Within
<1>3. verdict \in [Projects -> {"none", "staging", "noJest", "failed", "passed",
                                "warning", "budget"}]
  BY DEF IInv, TypeOK
<1>4. IF TimedOut THEN answer = "budget" ELSE answer \in {"none", "failed", "passed", "warning"}
  BY <1>2 DEF IInv, TypeOK, TimedOut, Finished
<1> HIDE DEF answer
<1>5. CASE TimedOut
  <2>1. /\ UNCHANGED <<batch, at>> /\ prevPkg' = NoPackage /\ pc' \in {"take", "between"}
        /\ verdict'[at] = "budget" /\ live' = Reset(live)
    BY <1>1, <1>2, <1>3, <1>4, <1>5 DEF Report, StagedAfter
  <2>2. live' \in Trees /\ Clean(live')
    BY <2>1, MaterializerAssumption DEF StageInv
  <2> QED
    BY <2>1, <2>2 DEF StageInv, HandedOn, Within
<1>6. CASE ~TimedOut
  BY <1>1, <1>2, <1>3, <1>4, <1>6, ReportHandsOn DEF StagedAfter
<1> QED
  BY <1>5, <1>6

\* The task takes with it what it staged.
LEMMA StopCleans == StageInv /\ Stop => StageInv'
BY MaterializerAssumption DEF StageInv, HandedOn, Stop, Within

\* In every share, and for every materializer that keeps its contract, a project
\* runs in the place plus its own package, whatever ran before it and however that
\* ended; the exception is a package that was refused, whose next project runs
\* with nothing staged (embedded-runner.luau's executeEntry and runEmbedded).
THEOREM StageStandsAlone == Spec => []StageIsOwn
<1>1. ASSUME IInv, StageInv, [Next]_vars PROVE StageInv'
  <2>1. CASE Caller
    <3>1. CASE FirstTurn \/ Read
      BY <1>1, <3>1, StageLeftAlone DEF FirstTurn, Read
    <3>2. CASE StageFails \/ JestMissing
      <4>1. at \in Projects /\ batch \in Batches
        BY <1>1, <3>2 DEF IInv, TypeOK, Followed, Within, StageFails, JestMissing
      <4>2. verdict \in [Projects -> {"none", "staging", "noJest", "failed", "passed",
                                      "warning", "budget"}]
        BY <1>1 DEF IInv, TypeOK
      <4> QED
        BY <1>1, <3>2, <4>1, <4>2, ReportHandsOn DEF StageFails, JestMissing
    <3> QED
      BY <1>1, <2>1, <3>1, <3>2, TakeStages, SettleHandsOn, StopCleans DEF Caller
  <2>2. CASE Threads
    <3>1. PICK e \in Projects : GoesOn(e) \/ TestStuck(e) \/ ChildAppears(e) \/ GivesWay(e)
                                \/ Resumes(e) \/ RunEnds(e) \/ StrayGoesOn(e)
      BY <2>2 DEF Threads
    <3>2. waiting[e] <=> e = at /\ pc = "parked"
      BY <1>1 DEF IInv, RunsKeepApart
    <3>3. UNCHANGED <<batch, at, verdict, stageVars>>
      BY <3>1 DEF GoesOn, TestStuck, ChildAppears, GivesWay, Resumes, RunEnds, StrayGoesOn
    <3>4. pc' = pc \/ (pc = "parked" /\ pc' = "woken")
      BY <3>1, <3>2
         DEF GoesOn, TestStuck, ChildAppears, GivesWay, Resumes, RunEnds, StrayGoesOn, Wake
    <3> QED
      BY <1>1, <3>3, <3>4, StageLeftAlone
  <2>3. CASE (\E e \in Projects : EngineWarns(e)) \/ DeadlineFires
    <3>1. UNCHANGED <<batch, at, verdict, stageVars>>
      BY <2>3 DEF EngineWarns, DeadlineFires
    <3>2. pc' = pc \/ (pc = "parked" /\ pc' = "woken")
      BY <2>3 DEF EngineWarns, DeadlineFires, Wake
    <3> QED
      BY <1>1, <3>1, <3>2, StageLeftAlone
  <2>4. CASE Deliver
    BY <1>1, <2>4, StageLeftAlone DEF Deliver
  <2>5. CASE UNCHANGED vars
    BY <1>1, <2>5, StageLeftAlone DEF vars
  <2> QED
    BY <1>1, <2>1, <2>2, <2>3, <2>4, <2>5 DEF Next
<1>2. ASSUME IInv, StageInv PROVE StageIsOwn
  <2>1. at \in Nat /\ (at = 0 \/ at \in 1..at)
    BY <1>2, Numbered DEF IInv, TypeOK
  <2>2. ASSUME pc \in {"staged", "parked", "woken"}
        PROVE  IF verdict[FirstOf(at)] = "staging" THEN Clean(live) ELSE Staged(Entry.pkg, live)
    <3>1. PICK d \in 1..at : Stands(d)
      BY <1>2, <2>2 DEF StageInv
    <3>2. FirstOf(at) = d
      BY <2>1, <3>1, FirstIsOne DEF Stands
    <3> QED
      BY <3>1, <3>2 DEF Stands, Entry
  <2>3. ASSUME pc = "staged", FirstOf(at) = at PROVE CanStage(Entry.pkg)
    <3>1. PICK d \in 1..at : Stands(d)
      BY <1>2, <2>3 DEF StageInv
    <3>2. d = at
      BY <2>1, <2>3, <3>1, FirstIsOne DEF Stands
    <3> QED
      BY <1>2, <2>3, <3>1, <3>2 DEF Stands, StageInv, Entry
  <2> QED
    BY <1>2, <2>2, <2>3 DEF StageInv, StageIsOwn, Entry
<1> QED
  BY <1>1, <1>2, InvariantHolds, InitInv, NothingStagedYet, PTL DEF Spec
=============================================================================
