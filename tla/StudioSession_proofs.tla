------------------------- MODULE StudioSession_proofs -------------------------
(***************************************************************************)
(* Proofs about StudioSession, for every set of installed copies, every    *)
(* number of runs and every length of the delays and of the grace window.  *)
(* Selection is inductive as it stands, with the types of what it reads:   *)
(* every change to the pool passes through CheckSelection or Settle.  The  *)
(* reconnect loop's invariant needs its own variables only.                *)
(* Answers have an invariant of their own, stated with them below, and so  *)
(* has the way of a run to the one copy that executes it.                  *)
(***************************************************************************)
EXTENDS StudioSession, FiniteSetTheorems, TLAPS

\* The types the pool's steps rely on.
PoolTypes ==
    /\ candidates \in Seq(Sockets)
    /\ hello \in [Sockets -> {"none", "fits", "differs"}]
    /\ selecting \in BOOLEAN /\ connect \in BOOLEAN
    /\ grace \in Off..Grace

Selection == PoolTypes /\ OneWindowAtATime /\ NoFittingCopyOverlooked

LoopTypes ==
    /\ started \in [Copies -> BOOLEAN]
    /\ dial \in [Copies -> Int] /\ \A c \in Copies : dial[c] >= Off
    /\ delay \in [Copies -> Nat]
    /\ socket \in [Copies -> Sockets \cup {NoSocket}]

LoopInv == LoopTypes /\ OneAttemptAtATime

-----------------------------------------------------------------------------
LEMMA LoopInit == Init => LoopInv
  BY CopiesAssumption, BoundsAssumption DEF Init, LoopInv, LoopTypes, OneAttemptAtATime, Off

LEMMA LoopFailed ==
    ASSUME LoopInv, NEW c \in Copies, started[c] = TRUE, Failed(c), UNCHANGED started
    PROVE  LoopInv'
  <1>1. /\ dial' = [dial EXCEPT ![c] = delay[c]]
        /\ socket' = [socket EXCEPT ![c] = NoSocket]
    BY DEF Failed
  <1>2. delay' \in [Copies -> Nat]
    BY BoundsAssumption DEF Failed, Least, LoopInv, LoopTypes
  <1>3. LoopTypes'
    <2>1. delay[c] \in Int /\ delay[c] >= Off
      BY DEF LoopInv, LoopTypes, Off
    <2>2. dial' \in [Copies -> Int] /\ \A d \in Copies : dial'[d] >= Off
      BY <1>1, <2>1 DEF LoopInv, LoopTypes
    <2>3. socket' \in [Copies -> Sockets \cup {NoSocket}]
      BY <1>1 DEF LoopInv, LoopTypes
    <2> QED
      BY <1>2, <2>2, <2>3 DEF LoopInv, LoopTypes
  <1>4. \A d \in Copies : d # c => dial'[d] = dial[d] /\ socket'[d] = socket[d]
    BY <1>1 DEF LoopInv, LoopTypes
  <1>5. dial'[c] # Off /\ socket'[c] = NoSocket
    BY <1>1 DEF LoopInv, LoopTypes, Off
  <1> QED
    BY <1>3, <1>4, <1>5 DEF LoopInv, LoopTypes, OneAttemptAtATime

LEMMA LoopStep == ASSUME LoopInv, [Next]_vars PROVE LoopInv'
  <1> USE DEF LoopInv
  <1>1. ASSUME NEW c \in Copies, Dial(c) PROVE LoopInv'
    BY <1>1, CopiesAssumption DEF Dial, LoopTypes, OneAttemptAtATime, Off
  <1>2. ASSUME NEW c \in Copies, DialFails(c) \/ SeesClose(c) PROVE LoopInv'
    <2>1. socket[c] # NoSocket /\ Failed(c) /\ UNCHANGED started
      BY <1>2 DEF DialFails, SeesClose
    <2>2. started[c] = TRUE
      BY <2>1 DEF OneAttemptAtATime, LoopTypes
    <2> QED
      BY <2>1, <2>2, LoopFailed
  <1>3. ASSUME NEW c \in Copies, Open(c) PROVE LoopInv'
    BY <1>3, BoundsAssumption DEF Open, LoopTypes, OneAttemptAtATime
  <1>4. ASSUME NEW c \in Copies, Stop(c) PROVE LoopInv'
    BY <1>4 DEF Stop, LoopTypes, OneAttemptAtATime, Off
  <1>5. ASSUME NEW c \in Copies, Start(c) PROVE LoopInv'
    BY <1>5, BoundsAssumption DEF Start, LoopTypes, OneAttemptAtATime, Off
  <1>6. CASE Tick
    <2>1. /\ dial' = [c \in Copies |-> Later(dial[c])]
          /\ UNCHANGED <<started, delay, socket>>
      BY <1>6 DEF Tick
    <2>2. \A c \in Copies : /\ dial'[c] \in Int /\ dial'[c] >= Off
                            /\ dial'[c] = Off <=> dial[c] = Off
      BY <2>1 DEF Later, LoopTypes, Off
    <2> QED
      BY <2>1, <2>2 DEF LoopTypes, OneAttemptAtATime
  <1>7. ASSUME UNCHANGED <<started, dial, delay, socket>> PROVE LoopInv'
    BY <1>7 DEF LoopTypes, OneAttemptAtATime
  <1>8. ASSUME NEW c \in Copies, Receive(c) \/ Finish(c)
        PROVE UNCHANGED <<started, dial, delay, socket>>
    BY <1>8 DEF Receive, Finish, loopVars
  <1>9. ASSUME NEW s \in Sockets, Arrives(s) \/ Drop(s)
        PROVE UNCHANGED <<started, dial, delay, socket>>
    BY <1>9 DEF Arrives, Accept, Announced, Answered, SeesDrop, Drop, loopVars
  <1>10. ASSUME ConnectEnds \/ GraceEnds \/ RunTimesOut \/ StartRun \/ ServerFails \/ Close
                \/ UNCHANGED vars
         PROVE UNCHANGED <<started, dial, delay, socket>>
    BY <1>10 DEF ConnectEnds, GraceEnds, RunTimesOut, StartRun, ServerFails, Close, vars, loopVars
  <1> QED
    BY <1>1, <1>2, <1>3, <1>4, <1>5, <1>6, <1>7, <1>8, <1>9, <1>10
    DEF Next, Plugin, Buttons, Timers

\* For every number of copies and every delay: a copy whose loop is on has exactly one
\* of a pending attempt and a socket, a stopped one neither (reconnect-loop.luau).
THEOREM OneAttempt == Spec => []OneAttemptAtATime
  <1>1. Init => LoopInv
    BY LoopInit
  <1>2. LoopInv /\ [Next]_vars => LoopInv'
    BY LoopStep
  <1>3. LoopInv => OneAttemptAtATime
    BY DEF LoopInv
  <1> QED
    BY <1>1, <1>2, <1>3, PTL DEF Spec

-----------------------------------------------------------------------------
(* The pool.                                                                 *)

LEMMA NoWindow ==
    ASSUME selecting = FALSE, connect = FALSE, grace = Off, candidates \in Seq(Sockets),
           hello \in [Sockets -> {"none", "fits", "differs"}]
    PROVE  Selection
  <1>1. Off \in Off..Grace
    BY BoundsAssumption DEF Off
  <1>2. PoolTypes
    BY <1>1, Zenon DEF PoolTypes
  <1>3. OneWindowAtATime /\ NoFittingCopyOverlooked
    BY DEF OneWindowAtATime, NoFittingCopyOverlooked
  <1> QED
    BY <1>2, <1>3 DEF Selection

LEMMA SelectionInit == Init => Selection
  <1> SUFFICES ASSUME Init PROVE Selection
    OBVIOUS
  <1>1. selecting = FALSE /\ connect = FALSE /\ grace = Off
    BY DEF Init
  <1>2. candidates \in Seq(Sockets) /\ hello \in [Sockets -> {"none", "fits", "differs"}]
    BY DEF Init
  <1> QED
    BY <1>1, <1>2, NoWindow

LEMMA Settled ==
    ASSUME Settle, candidates' \in Seq(Sockets),
           hello' \in [Sockets -> {"none", "fits", "differs"}]
    PROVE  Selection'
  <1>1. Off \in Off..Grace
    BY BoundsAssumption DEF Off
  <1>2. PoolTypes'
    BY <1>1, Zenon DEF Settle, PoolTypes
  <1>3. OneWindowAtATime' /\ NoFittingCopyOverlooked'
    BY DEF Settle, OneWindowAtATime, NoFittingCopyOverlooked
  <1> QED
    BY <1>2, <1>3 DEF Selection

\* Whatever the pool holds, the check leaves one window open over connections that do
\* not fit, or none.
LEMMA Checked ==
    ASSUME Selection, NEW r, NEW fresh \in BOOLEAN, fresh \/ selecting,
           candidates' \in Seq(Sockets), hello' \in [Sockets -> {"none", "fits", "differs"}],
           CheckSelection(candidates', hello', r, fresh)
    PROVE  Selection'
  <1>1. CASE Settle
    BY <1>1, Settled
  <1>2. CASE Matches(candidates', hello') = {} /\ selecting' = TRUE
    <2>1. NoFittingCopyOverlooked'
      <3>1. \A i \in 1..Len(candidates') : hello'[candidates'[i]] # "fits"
        BY <1>2 DEF Matches
      <3> QED
        BY <3>1 DEF NoFittingCopyOverlooked, Candidates
    <2>2. CASE ~fresh /\ connect' = connect /\ grace' = grace
               /\ (candidates' = <<>> \/ grace # Off)
      BY <1>2, <2>1, <2>2 DEF Selection, PoolTypes, OneWindowAtATime
    <2>3. CASE candidates' = <<>> /\ connect' = TRUE /\ grace' = Off
      BY <1>2, <2>1, <2>3, BoundsAssumption DEF Selection, PoolTypes, OneWindowAtATime, Off
    <2>4. CASE connect' = FALSE /\ grace' = Grace
      <3>1. Grace \in Off..Grace /\ Grace # Off
        BY BoundsAssumption DEF Off
      <3>2. PoolTypes'
        BY <1>2, <2>4, <3>1, Zenon DEF PoolTypes
      <3>3. grace' # Off /\ connect' = FALSE /\ selecting' = TRUE
        BY <1>2, <2>4, <3>1
      <3>4. OneWindowAtATime'
        BY <3>3 DEF OneWindowAtATime
      <3> QED
        BY <2>1, <3>2, <3>4 DEF Selection
    <2> QED
      BY <1>1, <2>2, <2>3, <2>4 DEF CheckSelection
  <1> QED
    BY <1>1, <1>2 DEF CheckSelection

\* Fewer connections, or none, never break a selection.
LEMMA Shrunk ==
    ASSUME Selection, UNCHANGED <<selectVars, hello>>, candidates' \in Seq(Sockets),
           candidates = <<>> => candidates' = <<>>,
           \A i \in 1..Len(candidates') :
              \E j \in 1..Len(candidates) : candidates'[i] = candidates[j]
    PROVE  Selection'
  BY DEF selectVars, Selection, PoolTypes, OneWindowAtATime, NoFittingCopyOverlooked, Candidates

LEMMA SelectionStep == ASSUME Selection, [Next]_vars PROVE Selection'
  <1>1. ASSUME NEW s \in Sockets, Accept(s) PROVE Selection'
    <2>1. /\ candidates' = Append(candidates, s)
          /\ hello' = [hello EXCEPT ![s] = "none"]
          /\ Notify(candidates', hello')
      BY <1>1 DEF Accept
    <2>2. /\ candidates' \in Seq(Sockets)
          /\ hello' \in [Sockets -> {"none", "fits", "differs"}]
      BY <2>1 DEF Selection, PoolTypes
    <2>3. CASE selecting
      BY <2>1, <2>2, <2>3, Checked DEF Notify
    <2>4. CASE ~selecting
      BY <2>1, <2>2, <2>4
      DEF Notify, selectVars, Selection, PoolTypes, OneWindowAtATime, NoFittingCopyOverlooked
    <2> QED
      BY <2>3, <2>4
  <1>2. ASSUME NEW s \in Sockets, Announced(s) PROVE Selection'
    <2>1. /\ UNCHANGED candidates
          /\ hello' = IF hello[s] # "none" THEN hello
                      ELSE [hello EXCEPT ![s] = IF Head(up[s]).fits THEN "fits" ELSE "differs"]
          /\ Notify(candidates, hello')
      BY <1>2 DEF Announced
    <2>2. /\ candidates' \in Seq(Sockets)
          /\ hello' \in [Sockets -> {"none", "fits", "differs"}]
      BY <2>1 DEF Selection, PoolTypes
    <2>3. Notify(candidates', hello')
      BY <2>1
    <2>4. CASE selecting
      BY <2>2, <2>3, <2>4, Checked DEF Notify
    <2>5. CASE ~selecting
      BY <2>2, <2>3, <2>5
      DEF Notify, selectVars, Selection, PoolTypes, OneWindowAtATime, NoFittingCopyOverlooked
    <2> QED
      BY <2>4, <2>5
  <1>3. CASE StartRun
    <2>1. UNCHANGED <<candidates, hello>> /\ CheckSelection(candidates, hello, run', TRUE)
      BY <1>3 DEF StartRun
    <2>2. /\ candidates' \in Seq(Sockets)
          /\ hello' \in [Sockets -> {"none", "fits", "differs"}]
          /\ CheckSelection(candidates', hello', run', TRUE)
      BY <2>1 DEF Selection, PoolTypes
    <2> QED
      BY <2>2, Checked
  <1>4. CASE ConnectEnds \/ GraceEnds \/ Close
    <2>1. Settle /\ UNCHANGED hello /\ (UNCHANGED candidates \/ candidates' = <<>>)
      BY <1>4 DEF ConnectEnds, GraceEnds, Close, poolVars
    <2>2. candidates' \in Seq(Sockets)
      <3>1. CASE UNCHANGED candidates
        BY <3>1 DEF Selection, PoolTypes
      <3>2. CASE candidates' = <<>>
        BY <3>2
      <3> QED
        BY <2>1, <3>1, <3>2
    <2>3. hello' \in [Sockets -> {"none", "fits", "differs"}]
      BY <2>1 DEF Selection, PoolTypes
    <2> QED
      BY <2>1, <2>2, <2>3, Settled
  <1>5. ASSUME NEW s \in Sockets, SeesDrop(s) PROVE Selection'
    <2>1. UNCHANGED <<selectVars, hello>>
      BY <1>5 DEF SeesDrop
    <2>2. CASE UNCHANGED candidates
      BY <2>1, <2>2, Shrunk DEF Selection, PoolTypes
    <2>3. ASSUME NEW k \in 1..Len(candidates),
                 candidates' = [i \in 1..(Len(candidates) - 1) |->
                                 candidates[IF i < k THEN i ELSE i + 1]]
          PROVE  Selection'
      <3>1. /\ candidates \in Seq(Sockets) /\ Len(candidates) \in Nat
            /\ \A i \in 1..(Len(candidates) - 1) :
                 (IF i < k THEN i ELSE i + 1) \in 1..Len(candidates)
        BY DEF Selection, PoolTypes
      <3>2. /\ candidates' \in Seq(Sockets) /\ Len(candidates') = Len(candidates) - 1
        BY <2>3, <3>1
      <3>3. \A i \in 1..Len(candidates') :
              \E j \in 1..Len(candidates) : candidates'[i] = candidates[j]
        BY <2>3, <3>1, <3>2
      <3>4. candidates = <<>> => candidates' = <<>>
        BY <2>3
      <3> QED
        BY <2>1, <3>2, <3>3, <3>4, Shrunk
    <2> QED
      BY <1>5, <2>2, <2>3 DEF SeesDrop
  <1>6. CASE Tick
    <2>1. UNCHANGED <<candidates, hello, selecting, connect>> /\ grace' = Later(grace) /\ grace # 0
      BY <1>6 DEF Tick, poolVars
    <2>2. grace' \in Off..Grace /\ (grace' = Off <=> grace = Off)
      BY <2>1, BoundsAssumption DEF Later, Off, Selection, PoolTypes
    <2> QED
      BY <2>1, <2>2
      DEF Selection, PoolTypes, OneWindowAtATime, NoFittingCopyOverlooked, Candidates
  <1>7. ASSUME UNCHANGED <<candidates, hello, selectVars>> PROVE Selection'
    BY <1>7 DEF selectVars, Selection, PoolTypes, OneWindowAtATime, NoFittingCopyOverlooked,
                Candidates
  <1>8. ASSUME NEW c \in Copies, Plugin(c) \/ Buttons(c)
        PROVE  UNCHANGED <<candidates, hello, selectVars>>
    BY <1>8 DEF Plugin, Buttons, Dial, DialFails, Open, SeesClose, Receive, Finish, Stop, Start,
                poolVars
  <1>9. ASSUME NEW s \in Sockets, Answered(s) \/ Drop(s)
        PROVE  UNCHANGED <<candidates, hello, selectVars>>
    BY <1>9 DEF Answered, Drop, poolVars
  <1>10. ASSUME RunTimesOut \/ ServerFails \/ UNCHANGED vars
         PROVE  UNCHANGED <<candidates, hello, selectVars>>
    BY <1>10 DEF RunTimesOut, ServerFails, vars, poolVars
  <1> QED
    BY <1>1, <1>2, <1>3, <1>4, <1>5, <1>6, <1>7, <1>8, <1>9, <1>10 DEF Next, Arrives, Timers

\* Of the two windows of a selection one is open, the grace window exactly from the first
\* connection on, and none outlives its selection (plugin-connections.ts).
THEOREM WindowsFollowEachOther == Spec => []OneWindowAtATime
  <1>1. Init => Selection
    BY SelectionInit
  <1>2. Selection /\ [Next]_vars => Selection'
    BY SelectionStep
  <1>3. Selection => OneWindowAtATime
    BY DEF Selection
  <1> QED
    BY <1>1, <1>2, <1>3, PTL DEF Spec

\* No selection goes on beside a connection that announced this protocol
\* (plugin-connections.ts).
THEOREM FittingCopyIsTaken == Spec => []NoFittingCopyOverlooked
  <1>1. Init => Selection
    BY SelectionInit
  <1>2. Selection /\ [Next]_vars => Selection'
    BY SelectionStep
  <1>3. Selection => NoFittingCopyOverlooked
    BY DEF Selection
  <1> QED
    BY <1>1, <1>2, <1>3, PTL DEF Spec

-----------------------------------------------------------------------------
(* Answers. The invariant says of every frame under way what AnswersItsRun   *)
(* says of an outcome: a frame that reports success speaks of a run a copy   *)
(* completed. It holds because a copy sends such a frame only as it          *)
(* finishes, and `completed` never shrinks.                                  *)

Frame == [type : {"hello"}, fits : BOOLEAN] \cup [type : {"results"}, run : Nat, ok : BOOLEAN]

TrueFrames == {f \in Frame : f.type = "results" => (f.ok => f.run \in completed)}

AnswerInv ==
    /\ up \in [Sockets -> Seq(TrueFrames)]
    /\ executing \in [Copies -> SUBSET Nat]
    /\ down \in [Sockets -> SUBSET Nat]
    /\ outcome \in [Runs -> {"none", "results", "failed", "incompatible"}]
    /\ run \in Nat
    /\ AnswersItsRun

LEMMA Widened ==
    ASSUME NEW S, NEW T, S \subseteq T, NEW f \in [Sockets -> Seq(S)]
    PROVE  f \in [Sockets -> Seq(T)]
  <1>1. \A q \in Seq(S) : q \in Seq(T)
    OBVIOUS
  <1> QED
    BY <1>1

LEMMA MoreTrue ==
    ASSUME completed \subseteq completed' PROVE TrueFrames \subseteq TrueFrames'
  BY DEF TrueFrames, Frame, Runs

LEMMA Sent ==
    ASSUME up \in [Sockets -> Seq(TrueFrames)], NEW c \in Copies, NEW f \in TrueFrames', Send(c, f),
           completed \subseteq completed'
    PROVE  up' \in [Sockets -> Seq(TrueFrames')]
  <1>1. up \in [Sockets -> Seq(TrueFrames')]
    BY MoreTrue, Widened
  <1>2. CASE UNCHANGED up
    BY <1>1, <1>2
  <1>3. CASE up' = [up EXCEPT ![socket[c]] = Append(@, f)]
    <2>1. \A q \in Seq(TrueFrames') : Append(q, f) \in Seq(TrueFrames')
      OBVIOUS
    <2> QED
      BY <1>1, <1>3, <2>1
  <1> QED
    BY <1>2, <1>3 DEF Send

LEMMA Taken ==
    ASSUME up \in [Sockets -> Seq(TrueFrames)], NEW s \in Sockets, up[s] # <<>>,
           up' = [up EXCEPT ![s] = Tail(@)], UNCHANGED completed
    PROVE  up' \in [Sockets -> Seq(TrueFrames')] /\ Head(up[s]) \in TrueFrames
  <1>1. TrueFrames \subseteq TrueFrames'
    BY MoreTrue
  <1>2. Tail(up[s]) \in Seq(TrueFrames) /\ Head(up[s]) \in TrueFrames
    OBVIOUS
  <1>3. up' \in [Sockets -> Seq(TrueFrames)]
    BY <1>2
  <1> QED
    BY <1>1, <1>2, <1>3, Widened

\* A run that settles with anything but results leaves the answers as they are.
LEMMA SettledWithout ==
    ASSUME AnswerInv, NEW result \in {"failed", "incompatible"}, SettleRun(result),
           UNCHANGED completed
    PROVE  outcome' \in [Runs -> {"none", "results", "failed", "incompatible"}] /\ AnswersItsRun'
  BY DEF SettleRun, AnswerInv, AnswersItsRun

LEMMA AnswerInit == Init => AnswerInv
  <1> SUFFICES ASSUME Init PROVE AnswerInv
    OBVIOUS
  <1>1. up = [s \in Sockets |-> <<>>] /\ executing = [c \in Copies |-> {}]
        /\ down = [s \in Sockets |-> {}] /\ outcome = [r \in Runs |-> "none"] /\ run = 0
    BY DEF Init
  <1>2. up \in [Sockets -> Seq(TrueFrames)]
    BY <1>1
  <1> QED
    BY <1>1, <1>2, BoundsAssumption DEF AnswerInv, AnswersItsRun

LEMMA Undisturbed ==
    ASSUME AnswerInv, UNCHANGED <<up, outcome, completed>>,
           executing' \in [Copies -> SUBSET Nat], down' \in [Sockets -> SUBSET Nat], run' \in Nat
    PROVE  AnswerInv'
  <1>1. up' \in [Sockets -> Seq(TrueFrames')]
    BY MoreTrue, Widened DEF AnswerInv
  <1> QED
    BY <1>1 DEF AnswerInv, AnswersItsRun

LEMMA Dispatched ==
    ASSUME down \in [Sockets -> SUBSET Nat], NEW s, NEW r \in Nat, Dispatch(s, r)
    PROVE  down' \in [Sockets -> SUBSET Nat]
  BY DEF Dispatch

LEMMA CheckedDown ==
    ASSUME down \in [Sockets -> SUBSET Nat], NEW cs, NEW h, NEW r \in Nat, NEW fresh,
           CheckSelection(cs, h, r, fresh)
    PROVE  down' \in [Sockets -> SUBSET Nat]
  <1>1. CASE Dispatch(FindMatch(cs, h), r)
    BY <1>1, Dispatched
  <1>2. CASE UNCHANGED down
    BY <1>2
  <1> QED
    BY <1>1, <1>2 DEF CheckSelection

LEMMA NotifiedDown ==
    ASSUME down \in [Sockets -> SUBSET Nat], run \in Nat, NEW cs, NEW h, Notify(cs, h)
    PROVE  down' \in [Sockets -> SUBSET Nat]
  BY CheckedDown DEF Notify

LEMMA AnswerPlugin ==
    ASSUME AnswerInv, LoopInv, NEW c \in Copies, Plugin(c) \/ Buttons(c) PROVE AnswerInv'
  <1>1. CASE Dial(c) \/ DialFails(c) \/ Start(c)
    <2>1. UNCHANGED <<up, down, executing, run, outcome, completed>>
      BY <1>1 DEF Dial, DialFails, Start, runVars, history, netVars
    <2> QED
      BY <2>1, Undisturbed DEF AnswerInv
  <1>2. CASE SeesClose(c) \/ Stop(c)
    <2>1. /\ UNCHANGED <<up, executing, run, outcome, completed>>
          /\ UNCHANGED down \/ down' = [down EXCEPT ![socket[c]] = {}]
      BY <1>2 DEF SeesClose, Stop, runVars, history, netVars
    <2>2. down' \in [Sockets -> SUBSET Nat]
      BY <2>1 DEF AnswerInv
    <2> QED
      BY <2>1, <2>2, Undisturbed DEF AnswerInv
  <1>3. CASE Open(c)
    <2> DEFINE f == [type |-> "hello", fits |-> c \in Working]
    <2>1. /\ up' = [up EXCEPT ![socket[c]] = Append(@, f)]
          /\ UNCHANGED <<down, executing, run, outcome, completed>>
      BY <1>3 DEF Open, runVars, history
    <2>2. f \in TrueFrames'
      BY DEF TrueFrames, Frame
    <2>3. up \in [Sockets -> Seq(TrueFrames')]
      BY <2>1, MoreTrue, Widened DEF AnswerInv
    <2>4. \A q \in Seq(TrueFrames') : Append(q, f) \in Seq(TrueFrames')
      BY <2>2
    <2> HIDE DEF f
    <2>5. up' \in [Sockets -> Seq(TrueFrames')]
      BY <2>1, <2>3, <2>4
    <2> QED
      BY <2>1, <2>5 DEF AnswerInv, AnswersItsRun
  <1>4. CASE Receive(c)
    <2>1. socket[c] \in Sockets
      BY <1>4 DEF Receive, LoopInv, LoopTypes
    <2>2. PICK r \in down[socket[c]] :
            /\ down' = [down EXCEPT ![socket[c]] = @ \ {r}]
            /\ \/ executing' = [executing EXCEPT ![c] = {r}] /\ UNCHANGED up
               \/ Send(c, Results(r, FALSE)) /\ UNCHANGED executing
      BY <1>4 DEF Receive, history
    <2>3. UNCHANGED <<run, outcome, completed>>
      BY <1>4 DEF Receive, runVars, history
    <2>4. r \in Nat
      BY <2>1, <2>2 DEF AnswerInv
    <2>5. down' \in [Sockets -> SUBSET Nat]
      BY <2>1, <2>2 DEF AnswerInv
    <2>6. executing' \in [Copies -> SUBSET Nat]
      BY <2>2, <2>4 DEF AnswerInv
    <2>7. Results(r, FALSE) \in TrueFrames'
      BY <2>4 DEF Results, TrueFrames, Frame
    <2>8. CASE UNCHANGED up
      BY <2>3, <2>5, <2>6, <2>8, Undisturbed DEF AnswerInv
    <2>9. CASE Send(c, Results(r, FALSE))
      <3>1. up' \in [Sockets -> Seq(TrueFrames')]
        BY <2>3, <2>7, <2>9, Sent DEF AnswerInv
      <3> QED
        BY <2>3, <2>5, <2>6, <3>1 DEF AnswerInv, AnswersItsRun
    <2> QED
      BY <2>2, <2>8, <2>9
  <1>5. CASE Finish(c)
    <2>1. PICK r \in executing[c], ok \in BOOLEAN :
            /\ Send(c, Results(r, ok))
            /\ completed' = IF ok THEN completed \cup {r} ELSE completed
      BY <1>5 DEF Finish
    <2>2. /\ executing' = [executing EXCEPT ![c] = {}]
          /\ UNCHANGED <<down, run, outcome>>
      BY <1>5 DEF Finish, runVars
    <2>3. r \in Nat
      BY <2>1 DEF AnswerInv
    <2>4. completed \subseteq completed' /\ (ok => r \in completed')
      BY <2>1
    <2>5. Results(r, ok) \in TrueFrames'
      BY <2>3, <2>4 DEF Results, TrueFrames, Frame
    <2>6. up' \in [Sockets -> Seq(TrueFrames')]
      BY <2>1, <2>4, <2>5, Sent DEF AnswerInv
    <2>7. executing' \in [Copies -> SUBSET Nat]
      BY <2>2 DEF AnswerInv
    <2> QED
      BY <2>2, <2>4, <2>6, <2>7 DEF AnswerInv, AnswersItsRun
  <1> QED
    BY <1>1, <1>2, <1>3, <1>4, <1>5 DEF Plugin, Buttons

LEMMA AnswerArrives ==
    ASSUME AnswerInv, NEW s \in Sockets, Arrives(s) \/ Drop(s) PROVE AnswerInv'
  <1>1. CASE Accept(s)
    <2>1. UNCHANGED <<up, executing, run, outcome, completed>> /\ Notify(candidates', hello')
      BY <1>1 DEF Accept, history
    <2> QED
      BY <2>1, NotifiedDown, Undisturbed DEF AnswerInv
  <1>2. CASE Announced(s)
    <2>1. /\ UNCHANGED <<executing, run, outcome, completed>>
          /\ up[s] # <<>> /\ up' = [up EXCEPT ![s] = Tail(@)]
          /\ Notify(candidates, hello')
      BY <1>2 DEF Announced, history
    <2>2. down' \in [Sockets -> SUBSET Nat]
      BY <2>1, NotifiedDown DEF AnswerInv
    <2>3. up' \in [Sockets -> Seq(TrueFrames')]
      BY <2>1, Taken DEF AnswerInv
    <2> QED
      BY <2>1, <2>2, <2>3 DEF AnswerInv, AnswersItsRun
  <1>3. CASE Answered(s)
    <2>1. /\ UNCHANGED <<down, executing, run, completed>>
          /\ up[s] # <<>> /\ up' = [up EXCEPT ![s] = Tail(@)]
          /\ Head(up[s]).type = "results"
      BY <1>3 DEF Answered, history
    <2>2. up' \in [Sockets -> Seq(TrueFrames')] /\ Head(up[s]) \in TrueFrames
      BY <2>1, Taken DEF AnswerInv
    <2>3. Head(up[s]).ok => Head(up[s]).run \in completed
      BY <2>1, <2>2 DEF TrueFrames
    <2>4. CASE UNCHANGED outcome
      BY <2>1, <2>2, <2>4 DEF AnswerInv, AnswersItsRun
    <2>5. CASE /\ Head(up[s]).run = run
               /\ SettleRun(IF Head(up[s]).ok THEN "results" ELSE "failed")
      <3>1. CASE Head(up[s]).ok
        BY <2>1, <2>2, <2>3, <2>5, <3>1 DEF SettleRun, AnswerInv, AnswersItsRun
      <3>2. CASE ~Head(up[s]).ok
        BY <2>1, <2>2, <2>5, <3>2, SettledWithout DEF AnswerInv
      <3> QED
        BY <3>1, <3>2
    <2> QED
      BY <1>3, <2>4, <2>5 DEF Answered
  <1>4. CASE SeesDrop(s)
    <2>1. /\ UNCHANGED <<down, executing, run, completed>>
          /\ up' = [up EXCEPT ![s] = <<>>]
          /\ SettleRun("failed") \/ UNCHANGED outcome
      BY <1>4 DEF SeesDrop, history
    <2>2. up \in [Sockets -> Seq(TrueFrames')]
      BY <2>1, MoreTrue, Widened DEF AnswerInv
    <2>3. up' \in [Sockets -> Seq(TrueFrames')]
      BY <2>1, <2>2
    <2>4. outcome' \in [Runs -> {"none", "results", "failed", "incompatible"}] /\ AnswersItsRun'
      BY <2>1, SettledWithout DEF AnswerInv, AnswersItsRun
    <2> QED
      BY <2>1, <2>3, <2>4 DEF AnswerInv
  <1>5. CASE Drop(s)
    <2>1. UNCHANGED <<up, down, executing, run, outcome, completed>>
      BY <1>5 DEF Drop, runVars, history
    <2> QED
      BY <2>1, Undisturbed DEF AnswerInv
  <1> QED
    BY <1>1, <1>2, <1>3, <1>4, <1>5 DEF Arrives

\* A window or a timer that ends a run, or a failure before it was sent.
LEMMA Ended ==
    ASSUME AnswerInv, UNCHANGED <<up, down, executing, run, completed>>,
           \/ UNCHANGED outcome
           \/ \E result \in {"failed", "incompatible"} : SettleRun(result)
    PROVE  AnswerInv'
  <1>1. up' \in [Sockets -> Seq(TrueFrames')]
    BY MoreTrue, Widened DEF AnswerInv
  <1>2. outcome' \in [Runs -> {"none", "results", "failed", "incompatible"}] /\ AnswersItsRun'
    BY SettledWithout DEF AnswerInv, AnswersItsRun
  <1> QED
    BY <1>1, <1>2 DEF AnswerInv

LEMMA AnswerStep == ASSUME AnswerInv, LoopInv, [Next]_vars PROVE AnswerInv'
  <1>1. CASE ConnectEnds \/ GraceEnds \/ RunTimesOut \/ ServerFails \/ Tick
    <2>1. UNCHANGED <<up, down, executing, run, completed>>
      BY <1>1 DEF ConnectEnds, GraceEnds, RunTimesOut, ServerFails, Tick, netVars, history, runVars
    <2>2. \/ UNCHANGED outcome
          \/ SettleRun("failed") \/ SettleRun("incompatible")
      BY <1>1 DEF ConnectEnds, GraceEnds, RunTimesOut, ServerFails, Tick, runVars
    <2> QED
      BY <2>1, <2>2, Ended
  <1>2. CASE StartRun
    <2>1. /\ UNCHANGED <<up, executing, outcome, completed>> /\ run' = run + 1
          /\ CheckSelection(candidates, hello, run', TRUE)
      BY <1>2 DEF StartRun, history
    <2>2. run' \in Nat
      BY <2>1 DEF AnswerInv
    <2>3. down' \in [Sockets -> SUBSET Nat]
      BY <2>1, <2>2, CheckedDown DEF AnswerInv
    <2> QED
      BY <2>1, <2>2, <2>3, Undisturbed DEF AnswerInv
  <1>3. CASE Close
    <2>1. /\ up' = [s \in Sockets |-> <<>>] /\ down' = [s \in Sockets |-> {}]
          /\ UNCHANGED <<executing, run, completed>>
          /\ SettleRun("failed") \/ UNCHANGED outcome
      BY <1>3 DEF Close, history
    <2>2. up' \in [Sockets -> Seq(TrueFrames')] /\ down' \in [Sockets -> SUBSET Nat]
      BY <2>1
    <2>3. outcome' \in [Runs -> {"none", "results", "failed", "incompatible"}] /\ AnswersItsRun'
      BY <2>1, SettledWithout DEF AnswerInv, AnswersItsRun
    <2> QED
      BY <2>1, <2>2, <2>3 DEF AnswerInv
  <1>4. CASE UNCHANGED vars
    <2>1. UNCHANGED <<up, down, executing, run, outcome, completed>>
      BY <1>4 DEF vars, netVars, runVars, history
    <2> QED
      BY <2>1, Ended
  <1> QED
    BY <1>1, <1>2, <1>3, <1>4, AnswerPlugin, AnswerArrives DEF Next, Timers

\* However connections drop and are selected again, and for any number of runs, a run is
\* answered with results only if a copy executed that very run to the end
\* (studio.ts, awaitPluginMessage).
THEOREM OnlyOwnAnswers == Spec => []AnswersItsRun
  <1>1. Init => AnswerInv
    BY AnswerInit
  <1>2. AnswerInv /\ LoopInv /\ [Next]_vars => AnswerInv'
    BY AnswerStep
  <1>3. Init => LoopInv
    BY LoopInit
  <1>4. LoopInv /\ [Next]_vars => LoopInv'
    BY LoopStep
  <1>5. AnswerInv => AnswersItsRun
    BY DEF AnswerInv
  <1> QED
    BY <1>1, <1>2, <1>3, <1>4, <1>5, PTL DEF Spec

\* One window guards a selection, and one attempt or one socket serves a copy
\* (plugin-connections.ts, reconnect-loop.luau).
THEOREM OneOfEach == Spec => []OneAtATime
  BY WindowsFollowEachOther, OneAttempt, PTL DEF OneAtATime

\* One window guards a selection, one attempt or socket serves a copy, and no
\* selection goes on beside a copy that fits.
THEOREM SelectionsAreSound == Spec => []SelectionIsSound
  BY OneOfEach, FittingCopyIsTaken, PTL DEF SelectionIsSound

-----------------------------------------------------------------------------
(* One copy per run. Wired says who holds which connection, Fitting that a   *)
(* copy of another protocol is behind none that announced itself as fitting  *)
(* or was sent a run, and Once that a run is sent once.                      *)

\* A connection is in the pool once.
Distinct == \A i, j \in 1..Len(candidates) : candidates[i] = candidates[j] => i = j

\* A free connection carries nothing, one that is up is in the pool, and one copy
\* holds what is dialing, up or still has a run to deliver.
Wired ==
    /\ link \in [Sockets -> {"free", "dialing", "up", "down"}]
    /\ Distinct
    /\ \A s \in Sockets :
         /\ link[s] \in {"free", "dialing"} =>
              up[s] = <<>> /\ down[s] = {} /\ s \notin Candidates /\ selected # s
         /\ link[s] = "up" \/ up[s] # <<>> => s \in Candidates
         /\ link[s] \in {"dialing", "up"} \/ down[s] # {} => \E c \in Copies : socket[c] = s
    /\ \A c \in Copies : socket[c] # NoSocket => link[socket[c]] # "free"
    /\ \A c, d \in Copies : socket[c] = socket[d] /\ socket[c] # NoSocket => c = d

\* It announced itself as fitting, or was sent a run.
Trusted(s) ==
    \/ \E i \in 1..Len(up[s]) : up[s][i].type = "hello" /\ up[s][i].fits
    \/ s \in Candidates /\ hello[s] = "fits"
    \/ down[s] # {}

Fitting ==
    \A s \in Sockets, c \in Copies : Trusted(s) /\ socket[c] = s => c \in Working

Once ==
    /\ \A r \in Runs : ranOn[r] \subseteq Working /\ \A c, d \in ranOn[r] : c = d
    /\ \A r \in Runs : ranOn[r] # {} => r <= run
    /\ \A s \in Sockets : \A r \in down[s] :
          r <= run /\ ranOn[r] = {} /\ \A x \in Sockets : r \in down[x] => x = s
    /\ selecting => run >= 1 /\ ranOn[run] = {} /\ \A s \in Sockets : run \notin down[s]

\* Of the connections that fit there is an oldest one.
LEMMA OldestMatch ==
    ASSUME NEW cs \in Seq(Sockets), NEW h, Matches(cs, h) # {}
    PROVE  \E i \in 1..Len(cs) : FindMatch(cs, h) = cs[i] /\ h[cs[i]] = "fits"
  <1> DEFINE M == Matches(cs, h)
  <1>1. M \subseteq Nat \ {0} /\ M # {}
    BY DEF Matches
  <1>2. \E k \in M : \A m \in M : k <= m
    <2> DEFINE T == {1..i : i \in M}
    <2>1. T \subseteq FiniteSubsetsOf(Nat) /\ T # {}
      <3>1. \A i \in M : IsFiniteSet(1..i) /\ 1..i \subseteq Nat
        BY <1>1, FS_Interval
      <3> QED
        BY <1>1, <3>1 DEF FiniteSubsetsOf
    <2>2. \E x \in T : \A y \in T : ~(<<y, x>> \in StrictSubsetOrdering(Nat))
      <3> HIDE DEF T
      <3> QED
        BY <2>1, FS_StrictSubsetOrderingWellFounded, WFMin
    <2>3. PICK k \in M : \A m \in M : ~(<<1..m, 1..k>> \in StrictSubsetOrdering(Nat))
      BY <2>2
    <2>4. ASSUME NEW m \in M, m < k PROVE FALSE
      <3>1. k \in Nat /\ m \in Nat /\ k >= 1
        BY <1>1 DEF Matches
      <3>2. 1..m \subseteq 1..k /\ k \in 1..k /\ k \notin 1..m /\ 1..k \subseteq Nat
        BY <2>4, <3>1
      <3>3. <<1..m, 1..k>> \in StrictSubsetOrdering(Nat)
        BY <3>2 DEF StrictSubsetOrdering
      <3> QED
        BY <2>3, <3>3
    <2> QED
      BY <1>1, <2>3, <2>4
  <1>3. (CHOOSE i \in M : \A j \in M : i <= j) \in M
    BY <1>2
  <1> QED
    BY <1>3 DEF FindMatch, Matches

\* The check sends the run to a connection of the pool that fits, or goes on.
LEMMA CheckedSends ==
    ASSUME NEW cs \in Seq(Sockets), NEW h, NEW r, NEW fresh, CheckSelection(cs, h, r, fresh)
    PROVE  \/ /\ selecting' = FALSE
              /\ \E i \in 1..Len(cs) : h[cs[i]] = "fits" /\ Dispatch(cs[i], r)
           \/ Matches(cs, h) = {} /\ selecting' = TRUE /\ UNCHANGED <<selected, down>>
  <1>1. CASE Matches(cs, h) # {}
    <2>1. Settle /\ Dispatch(FindMatch(cs, h), r)
      BY <1>1 DEF CheckSelection
    <2> QED
      BY <1>1, <2>1, OldestMatch DEF Settle
  <1>2. CASE Matches(cs, h) = {}
    BY <1>2 DEF CheckSelection
  <1> QED
    BY <1>1, <1>2

\* So does a notification, of the run that is under way.
LEMMA NotifiedSends ==
    ASSUME NEW cs \in Seq(Sockets), NEW h, Notify(cs, h)
    PROVE  \/ /\ selecting /\ selecting' = FALSE
              /\ \E i \in 1..Len(cs) : h[cs[i]] = "fits" /\ Dispatch(cs[i], run)
           \/ UNCHANGED <<selecting, phase, selected, down>>
           \/ selecting /\ selecting' = TRUE /\ UNCHANGED <<phase, selected, down>>
  <1>1. CASE selecting
    <2>1. /\ CheckSelection(cs, h, run, FALSE)
          /\ Matches(cs, h) = {} => UNCHANGED phase
      BY <1>1 DEF Notify
    <2> QED
      BY <1>1, <2>1, CheckedSends
  <1>2. CASE ~selecting
    BY <1>2 DEF Notify, selectVars
  <1> QED
    BY <1>1, <1>2

\* Who connects joins the pool once, and who drops leaves it.
LEMMA Joined ==
    ASSUME candidates \in Seq(Sockets), Distinct, NEW s \in Sockets, s \notin Candidates,
           candidates' = Append(candidates, s)
    PROVE  Distinct' /\ Candidates' = Candidates \cup {s}
  <1>1. /\ Len(candidates) \in Nat /\ Len(candidates') = Len(candidates) + 1
        /\ \A i \in 1..Len(candidates) : candidates'[i] = candidates[i]
        /\ candidates'[Len(candidates) + 1] = s
    OBVIOUS
  <1>2. \A i \in 1..Len(candidates') : i \in 1..Len(candidates) \/ i = Len(candidates) + 1
    BY <1>1
  <1>3. Candidates' = Candidates \cup {s}
    BY <1>1, <1>2 DEF Candidates
  <1>4. \A i \in 1..Len(candidates) : candidates[i] # s
    BY DEF Candidates
  <1> QED
    BY <1>1, <1>2, <1>3, <1>4 DEF Distinct

LEMMA Left ==
    ASSUME candidates \in Seq(Sockets), Distinct, NEW k \in 1..Len(candidates),
           candidates' = [i \in 1..(Len(candidates) - 1) |->
                            candidates[IF i < k THEN i ELSE i + 1]]
    PROVE  Distinct' /\ Candidates' = Candidates \ {candidates[k]}
  <1>1. /\ Len(candidates) \in Nat /\ candidates' \in Seq(Sockets)
        /\ Len(candidates') = Len(candidates) - 1
    <2>1. \A i \in 1..(Len(candidates) - 1) :
            (IF i < k THEN i ELSE i + 1) \in 1..Len(candidates)
      OBVIOUS
    <2> QED
      BY <2>1
  <1>2. \A i \in 1..(Len(candidates) - 1) :
          candidates'[i] = candidates[IF i < k THEN i ELSE i + 1]
    OBVIOUS
  <1>3. Distinct'
    BY <1>1, <1>2 DEF Distinct
  <1>4. \A i \in 1..Len(candidates) : i # k =>
          \E j \in 1..(Len(candidates) - 1) : candidates'[j] = candidates[i]
    <2> SUFFICES ASSUME NEW i \in 1..Len(candidates), i # k
                 PROVE  \E j \in 1..(Len(candidates) - 1) : candidates'[j] = candidates[i]
      OBVIOUS
    <2>1. CASE i < k
      BY <1>1, <1>2, <2>1
    <2>2. CASE i > k
      <3>1. i - 1 \in 1..(Len(candidates) - 1) /\ ~(i - 1 < k) /\ (i - 1) + 1 = i
        BY <1>1, <2>2
      <3> QED
        BY <1>2, <3>1
    <2> QED
      BY <2>1, <2>2
  <1>5. \A i \in 1..(Len(candidates) - 1) : candidates'[i] \in Candidates \ {candidates[k]}
    BY <1>1, <1>2 DEF Distinct, Candidates
  <1>6. Candidates' \subseteq Candidates \ {candidates[k]}
    BY <1>1, <1>5 DEF Candidates
  <1>7. ASSUME NEW x \in Candidates, x # candidates[k] PROVE x \in Candidates'
    <2>1. PICK i \in 1..Len(candidates) : candidates[i] = x
      BY <1>7 DEF Candidates
    <2> QED
      BY <1>1, <1>4, <1>7, <2>1 DEF Candidates
  <1> QED
    BY <1>3, <1>6, <1>7

\* Frames move only on connections that are up.
LEMMA WiredFrames ==
    ASSUME Wired, UNCHANGED <<candidates, socket, link>>,
           \A s \in Sockets : /\ up'[s] # <<>> => up[s] # <<>> \/ link[s] = "up"
                              /\ down'[s] # {} => down[s] # {} \/ link[s] = "up",
           selected' = selected \/ selected' \in Candidates \/ selected' \notin Sockets
    PROVE  Wired'
  BY DEF Wired, Distinct, Candidates

\* A copy sends only on a connection that is up.
LEMMA SentUp ==
    ASSUME AnswerInv, NEW c \in Copies, NEW f, Send(c, f)
    PROVE  \A s \in Sockets : up'[s] # <<>> => up[s] # <<>> \/ link[s] = "up"
  BY DEF AnswerInv, Send

\* A run is sent to the selected connection alone.
LEMMA DispatchedDown ==
    ASSUME down \in [Sockets -> SUBSET Nat], NEW s \in Sockets, NEW r, Dispatch(s, r)
    PROVE  /\ selected' = s
           /\ \A x \in Sockets : /\ down'[x] # {} => down[x] # {} \/ link[x] = "up"
                                 /\ x # s => down'[x] = down[x]
                                 /\ down'[x] \subseteq down[x] \cup {r}
  BY DEF Dispatch

\* The copies' steps keep the connections as they should be.
LEMMA WiredPlugin ==
    ASSUME Wired, LoopInv, AnswerInv, Selection, NEW c \in Copies, Plugin(c) \/ Buttons(c)
    PROVE  Wired'
  <1> USE CopiesAssumption
  <1>1. CASE Dial(c)
    <2>1. PICK s \in Sockets : /\ link[s] = "free" /\ link' = [link EXCEPT ![s] = "dialing"]
                               /\ socket' = [socket EXCEPT ![c] = s]
      BY <1>1 DEF Dial
    <2>2. UNCHANGED <<up, down, candidates, selected>>
      BY <1>1 DEF Dial, poolVars, runVars
    <2>3. socket[c] = NoSocket
      BY <1>1 DEF Dial, LoopInv, LoopTypes, OneAttemptAtATime, Off
    <2>4. \A x \in Copies : socket[x] # s
      BY <2>1 DEF Wired
    <2>5. /\ socket'[c] = s /\ \A x \in Copies \ {c} : socket'[x] = socket[x]
          /\ link'[s] = "dialing" /\ \A x \in Sockets \ {s} : link'[x] = link[x]
      BY <2>1 DEF Wired, LoopInv, LoopTypes
    <2>6. link' \in [Sockets -> {"free", "dialing", "up", "down"}]
      BY <2>1 DEF Wired
    <2> QED
      BY <2>1, <2>2, <2>3, <2>4, <2>5, <2>6 DEF Wired, Distinct, Candidates, LoopInv, LoopTypes
  <1>2. CASE DialFails(c) \/ SeesClose(c) \/ (Stop(c) /\ socket[c] # NoSocket)
    <2> DEFINE s == socket[c]
    <2>1. s \in Sockets
      BY <1>2 DEF DialFails, SeesClose, LoopInv, LoopTypes
    <2>2. socket' = [socket EXCEPT ![c] = NoSocket] /\ UNCHANGED <<up, candidates, selected>>
      BY <1>2 DEF DialFails, SeesClose, Stop, Failed, poolVars, runVars
    <2>3. /\ link' \in [Sockets -> {"free", "dialing", "up", "down"}]
          /\ \A x \in Sockets \ {s} : link'[x] = link[x] /\ down'[x] = down[x]
          /\ down'[s] = {} /\ link'[s] \in {"free", "down"}
          /\ link'[s] = "free" => link[s] = "dialing" \/ (s \notin Candidates /\ selected # s)
      <3>1. CASE DialFails(c)
        BY <2>1, <3>1 DEF DialFails, Wired
      <3>2. CASE SeesClose(c)
        BY <2>1, <3>2 DEF SeesClose, Release, Candidates, Wired, AnswerInv
      <3>3. CASE Stop(c) /\ s # NoSocket
        BY <2>1, <3>3 DEF Stop, Release, Candidates, Wired, AnswerInv
      <3> QED
        BY <1>2, <3>1, <3>2, <3>3
    <2>4. socket'[c] = NoSocket /\ \A x \in Copies \ {c} : socket'[x] = socket[x]
      BY <2>2 DEF LoopInv, LoopTypes
    <2>5. \A x \in Copies \ {c} : socket[x] # s
      BY <2>1 DEF Wired
    <2> HIDE DEF s
    <2>6. Distinct' /\ Candidates' = Candidates
      BY <2>2 DEF Wired, Distinct, Candidates
    <2>7. \A x \in Sockets :
            /\ link'[x] \in {"free", "dialing"} =>
                 up'[x] = <<>> /\ down'[x] = {} /\ x \notin Candidates' /\ selected' # x
            /\ link'[x] = "up" \/ up'[x] # <<>> => x \in Candidates'
      BY <2>1, <2>2, <2>3, <2>6 DEF Wired
    <2>8. \A x \in Sockets :
            link'[x] \in {"dialing", "up"} \/ down'[x] # {} => \E d \in Copies : socket'[d] = x
      <3> SUFFICES ASSUME NEW x \in Sockets \ {s}, link[x] \in {"dialing", "up"} \/ down[x] # {}
                   PROVE  \E d \in Copies : socket'[d] = x
        BY <2>3
      <3>1. PICK d \in Copies : socket[d] = x
        BY DEF Wired
      <3> QED
        BY <2>4, <3>1 DEF s
    <2>9. \A x \in Copies : socket'[x] # NoSocket => link'[socket'[x]] # "free"
      BY <2>3, <2>4, <2>5 DEF Wired, LoopInv, LoopTypes
    <2>10. \A x, y \in Copies : socket'[x] = socket'[y] /\ socket'[x] # NoSocket => x = y
      BY <2>4 DEF Wired
    <2> QED
      BY <2>3, <2>6, <2>7, <2>8, <2>9, <2>10 DEF Wired
  <1>3. CASE Stop(c) /\ socket[c] = NoSocket
    <2>1. UNCHANGED <<link, up, down, candidates, selected>> /\ socket' = [socket EXCEPT ![c] = NoSocket]
      BY <1>3 DEF Stop, netVars, poolVars, runVars
    <2>2. socket' = socket
      BY <1>3, <2>1 DEF LoopInv, LoopTypes
    <2> QED
      BY <2>1, <2>2, WiredFrames
  <1>4. CASE Open(c)
    <2>1. /\ UNCHANGED <<socket, link, down, candidates, selected>> /\ link[socket[c]] = "up"
          /\ \E f : up' = [up EXCEPT ![socket[c]] = Append(@, f)]
      BY <1>4 DEF Open, poolVars, runVars
    <2>2. \A s \in Sockets : up'[s] # <<>> => up[s] # <<>> \/ link[s] = "up"
      BY <2>1 DEF AnswerInv
    <2> QED
      BY <2>1, <2>2, WiredFrames
  <1>5. CASE Receive(c) \/ Finish(c)
    <2>1. UNCHANGED <<socket, link, candidates, selected>>
      BY <1>5 DEF Receive, Finish, loopVars, poolVars, runVars
    <2>2. UNCHANGED up \/ \E f : Send(c, f)
      BY <1>5 DEF Receive, Finish
    <2>3. \A s \in Sockets : down'[s] # {} => down[s] # {}
      BY <1>5 DEF Receive, Finish, AnswerInv
    <2> QED
      BY <2>1, <2>2, <2>3, SentUp, WiredFrames
  <1>6. CASE Start(c)
    BY <1>6, WiredFrames DEF Start, netVars, poolVars, runVars
  <1> QED
    BY <1>1, <1>2, <1>3, <1>4, <1>5, <1>6 DEF Plugin, Buttons

\* What a selection does to the connections.
LEMMA WiredSelects ==
    ASSUME AnswerInv, NEW cs \in Seq(Sockets), NEW h,
           \/ Notify(cs, h)
           \/ \E r : CheckSelection(cs, h, r, TRUE)
    PROVE  /\ \A x \in Sockets : down'[x] # {} => down[x] # {} \/ link[x] = "up"
           /\ selected' = selected \/ \E i \in 1..Len(cs) : selected' = cs[i]
  <1>1. ASSUME NEW i \in 1..Len(cs), NEW r, Dispatch(cs[i], r)
        PROVE  /\ \A x \in Sockets : down'[x] # {} => down[x] # {} \/ link[x] = "up"
               /\ selected' = cs[i]
    <2>1. cs[i] \in Sockets
      OBVIOUS
    <2> QED
      BY <1>1, <2>1, DispatchedDown DEF AnswerInv
  <1>2. CASE Notify(cs, h)
    BY <1>1, <1>2, NotifiedSends
  <1>3. ASSUME NEW r, CheckSelection(cs, h, r, TRUE)
        PROVE  \/ UNCHANGED <<selected, down>>
               \/ \E i \in 1..Len(cs) : Dispatch(cs[i], r)
    BY <1>3, CheckedSends
  <1> QED
    BY <1>1, <1>2, <1>3

\* And so does every other step.
LEMMA WiredStep == ASSUME Wired, LoopInv, AnswerInv, Selection, [Next]_vars PROVE Wired'
  <1>0. candidates \in Seq(Sockets)
    BY DEF Selection, PoolTypes
  <1>1. ASSUME NEW s \in Sockets, Accept(s) PROVE Wired'
    <2>1. /\ link[s] = "dialing" /\ link' = [link EXCEPT ![s] = "up"]
          /\ candidates' = Append(candidates, s)
          /\ UNCHANGED <<up, socket>> /\ Notify(candidates', hello')
      BY <1>1 DEF Accept, loopVars
    <2>2. s \notin Candidates
      BY <2>1 DEF Wired
    <2>3. Distinct' /\ Candidates' = Candidates \cup {s} /\ candidates' \in Seq(Sockets)
      BY <1>0, <2>1, <2>2, Joined DEF Wired
    <2>4. /\ \A x \in Sockets : down'[x] # {} => down[x] # {} \/ link[x] = "up"
          /\ selected' = selected \/ selected' \in Candidates'
      BY <2>1, <2>3, WiredSelects DEF Candidates
    <2>5. /\ link'[s] = "up" /\ \A x \in Sockets \ {s} : link'[x] = link[x]
          /\ link' \in [Sockets -> {"free", "dialing", "up", "down"}]
      BY <2>1 DEF Wired
    <2>6. \A x \in Copies : socket'[x] # NoSocket => socket'[x] \in Sockets
      BY <2>1 DEF LoopInv, LoopTypes
    <2> QED
      BY <2>1, <2>3, <2>4, <2>5, <2>6 DEF Wired
  <1>2. ASSUME NEW s \in Sockets, Announced(s) \/ Answered(s) PROVE Wired'
    <2>1. /\ UNCHANGED <<link, socket, candidates>>
          /\ up[s] # <<>> /\ up' = [up EXCEPT ![s] = Tail(@)]
          /\ UNCHANGED <<selected, down>> \/ Notify(candidates, hello')
      BY <1>2 DEF Announced, Answered, loopVars, poolVars
    <2>2. \A x \in Sockets : up'[x] # <<>> => up[x] # <<>>
      BY <2>1 DEF AnswerInv
    <2>3. /\ \A x \in Sockets : down'[x] # {} => down[x] # {} \/ link[x] = "up"
          /\ selected' = selected \/ selected' \in Candidates
      BY <1>0, <2>1, WiredSelects DEF Candidates
    <2> QED
      BY <2>1, <2>2, <2>3, WiredFrames
  <1>3. ASSUME NEW s \in Sockets, SeesDrop(s) PROVE Wired'
    <2>1. /\ link[s] = "down" /\ UNCHANGED <<socket, down>>
          /\ up' = [up EXCEPT ![s] = <<>>]
          /\ selected' = IF selected = s THEN NoSocket ELSE selected
          /\ link' = IF \E c \in Copies : socket[c] = s THEN link ELSE [link EXCEPT ![s] = "free"]
      BY <1>3 DEF SeesDrop, loopVars
    <2>2. Distinct' /\ Candidates' = Candidates \ {s}
      <3>1. CASE s \notin Candidates /\ UNCHANGED candidates
        BY <3>1 DEF Wired, Distinct, Candidates
      <3>2. ASSUME NEW k \in 1..Len(candidates), candidates[k] = s,
                   candidates' = [i \in 1..(Len(candidates) - 1) |->
                                    candidates[IF i < k THEN i ELSE i + 1]]
            PROVE  Distinct' /\ Candidates' = Candidates \ {s}
        BY <1>0, <3>2, Left DEF Wired
      <3> QED
        BY <1>3, <3>1, <3>2 DEF SeesDrop
    <2>3. /\ up'[s] = <<>> /\ \A x \in Sockets \ {s} : up'[x] = up[x] /\ link'[x] = link[x]
          /\ link' \in [Sockets -> {"free", "dialing", "up", "down"}]
          /\ link'[s] \in {"free", "down"}
          /\ link'[s] = "free" => \A c \in Copies : socket[c] # s
      BY <2>1 DEF Wired, AnswerInv
    <2>4. selected' # s
      BY <2>1, CopiesAssumption
    <2>5. \A x \in Copies : socket'[x] # NoSocket => socket'[x] \in Sockets
      BY <2>1 DEF LoopInv, LoopTypes
    <2>6. link'[s] = "free" => down[s] = {}
      BY <2>3 DEF Wired
    <2> QED
      BY <2>1, <2>2, <2>3, <2>4, <2>5, <2>6, CopiesAssumption DEF Wired
  <1>4. ASSUME NEW s \in Sockets, Drop(s) PROVE Wired'
    <2>1. /\ link[s] = "up" /\ link' = [link EXCEPT ![s] = "down"]
          /\ UNCHANGED <<up, down, socket, candidates, selected>>
      BY <1>4 DEF Drop, loopVars, poolVars, runVars
    <2>2. Distinct' /\ Candidates' = Candidates
      BY <2>1 DEF Wired, Distinct, Candidates
    <2>3. /\ link'[s] = "down" /\ \A x \in Sockets \ {s} : link'[x] = link[x]
          /\ link' \in [Sockets -> {"free", "dialing", "up", "down"}]
      BY <2>1 DEF Wired
    <2>4. \A x \in Copies : socket'[x] # NoSocket => socket'[x] \in Sockets
      BY <2>1 DEF LoopInv, LoopTypes
    <2> QED
      BY <2>1, <2>2, <2>3, <2>4 DEF Wired
  <1>5. CASE StartRun
    <2>1. /\ UNCHANGED <<link, socket, up, candidates>>
          /\ CheckSelection(candidates, hello, run', TRUE)
      BY <1>5 DEF StartRun, loopVars
    <2>2. /\ \A x \in Sockets : down'[x] # {} => down[x] # {} \/ link[x] = "up"
          /\ selected' = selected \/ selected' \in Candidates
      BY <1>0, <2>1, WiredSelects DEF Candidates
    <2> QED
      BY <2>1, <2>2, WiredFrames
  <1>6. CASE Close
    <2>1. /\ candidates' = <<>> /\ UNCHANGED <<socket, selected>>
          /\ link' = [x \in Sockets |->
                        IF link[x] = "up"
                        THEN "down"
                        ELSE IF link[x] = "down" /\ x # selected /\ \A c \in Copies : socket[c] # x
                             THEN "free" ELSE link[x]]
          /\ \A x \in Sockets : up'[x] = <<>> /\ down'[x] = {}
      BY <1>6 DEF Close, loopVars
    <2>2. Distinct' /\ Candidates' = {}
      BY <2>1 DEF Distinct, Candidates
    <2>3. \A x \in Sockets : link'[x] \in {"free", "dialing"} => selected # x
      BY <2>1 DEF Wired
    <2>4. \A x \in Sockets : link'[x] # "up" /\ (link'[x] = "dialing" => link[x] = "dialing")
                             /\ (link'[x] = "free" => link[x] = "free" \/ \A c \in Copies : socket[c] # x)
      BY <2>1 DEF Wired
    <2>5. link' \in [Sockets -> {"free", "dialing", "up", "down"}]
      BY <2>1 DEF Wired
    <2>6. \A x \in Copies : socket'[x] # NoSocket => socket'[x] \in Sockets
      BY <2>1 DEF LoopInv, LoopTypes
    <2> QED
      BY <2>1, <2>2, <2>3, <2>4, <2>5, <2>6 DEF Wired
  <1>7. CASE Timers \/ ServerFails \/ UNCHANGED vars
    <2>1. UNCHANGED <<link, socket, up, down, candidates>>
      BY <1>7 DEF Timers, ConnectEnds, GraceEnds, RunTimesOut, Tick, ServerFails, vars, loopVars,
                  netVars, poolVars
    <2>2. UNCHANGED selected
      BY <1>7 DEF Timers, ConnectEnds, GraceEnds, RunTimesOut, Tick, ServerFails, vars, runVars
    <2> QED
      BY <2>1, <2>2, WiredFrames
  <1> QED
    BY <1>1, <1>2, <1>3, <1>4, <1>5, <1>6, <1>7, WiredPlugin DEF Next, Arrives, Timers


\* Whom a selection sends a run to announced itself as fitting.
LEMMA SelectsTrusted ==
    ASSUME down \in [Sockets -> SUBSET Nat], NEW cs \in Seq(Sockets), NEW h,
           \/ Notify(cs, h)
           \/ \E r : CheckSelection(cs, h, r, TRUE)
    PROVE  \A x \in Sockets : down'[x] # {} =>
              down[x] # {} \/ (h[x] = "fits" /\ \E i \in 1..Len(cs) : cs[i] = x)
  <1>1. ASSUME NEW i \in 1..Len(cs), NEW r, Dispatch(cs[i], r), h[cs[i]] = "fits"
        PROVE  \A x \in Sockets : down'[x] # {} => down[x] # {} \/ x = cs[i]
    <2>1. cs[i] \in Sockets
      OBVIOUS
    <2> QED
      BY <1>1, <2>1, DispatchedDown
  <1>2. CASE Notify(cs, h)
    BY <1>1, <1>2, NotifiedSends
  <1>3. ASSUME NEW r, CheckSelection(cs, h, r, TRUE)
        PROVE  \/ UNCHANGED down
               \/ \E i \in 1..Len(cs) : h[cs[i]] = "fits" /\ Dispatch(cs[i], r)
    BY <1>3, CheckedSends
  <1> QED
    BY <1>1, <1>2, <1>3

\* A results frame announces nothing.
LEMMA SentFits ==
    ASSUME AnswerInv, NEW c \in Copies, NEW r, NEW ok, Send(c, Results(r, ok)),
           NEW s \in Sockets, NEW i \in 1..Len(up'[s]), up'[s][i].type = "hello"
    PROVE  i \in 1..Len(up[s]) /\ up'[s][i] = up[s][i]
  <1> DEFINE f == Results(r, ok)
  <1>1. f.type = "results"
    BY DEF Results
  <1>2. up[s] \in Seq(TrueFrames)
    BY DEF AnswerInv
  <1>5. up' = up \/ up' = [up EXCEPT ![socket[c]] = Append(@, f)]
    BY DEF Send
  <1> HIDE DEF f
  <1>6. up'[s] = up[s] \/ up'[s] = Append(up[s], f)
    BY <1>5 DEF AnswerInv
  <1>3. CASE up'[s] = up[s]
    BY <1>3
  <1>4. CASE up'[s] = Append(up[s], f)
    BY <1>1, <1>2, <1>4
  <1> QED
    BY <1>3, <1>4, <1>6

\* A copy of another protocol is never behind a connection that is trusted.
LEMMA FittingStep ==
    ASSUME Fitting, Wired, LoopInv, AnswerInv, Selection, [Next]_vars
    PROVE  Fitting'
  <1>0. candidates \in Seq(Sockets)
    BY DEF Selection, PoolTypes
  <1>0a. down \in [Sockets -> SUBSET Nat]
    BY DEF AnswerInv
  <1> SUFFICES ASSUME NEW s \in Sockets, NEW c \in Copies, Trusted(s)', socket'[c] = s,
                      c \notin Working
               PROVE  FALSE
    BY DEF Fitting
  <1>1. ASSUME Trusted(s), socket[c] = s PROVE FALSE
    BY <1>1 DEF Fitting
  <1>2. ASSUME NEW d \in Copies, Dial(d) PROVE FALSE
    <2>1. PICK x \in Sockets : link[x] = "free" /\ socket' = [socket EXCEPT ![d] = x]
      BY <1>2 DEF Dial
    <2>2. UNCHANGED <<up, down, candidates, hello>>
      BY <1>2 DEF Dial, poolVars
    <2>3. Trusted(s)
      BY <2>2 DEF Trusted, Candidates
    <2>4. s # x
      BY <2>1, <2>3 DEF Trusted, Wired
    <2>5. socket[c] = s
      BY <2>1, <2>4 DEF LoopInv, LoopTypes
    <2> QED
      BY <1>1, <2>3, <2>5
  <1>3. ASSUME NEW d \in Copies, DialFails(d) \/ SeesClose(d) \/ Stop(d) \/ Start(d) PROVE FALSE
    <2>1. /\ UNCHANGED socket \/ socket' = [socket EXCEPT ![d] = NoSocket]
          /\ UNCHANGED <<up, candidates, hello>>
      BY <1>3 DEF DialFails, SeesClose, Stop, Start, Failed, poolVars, netVars
    <2>2. UNCHANGED down \/ \E x \in Sockets \cup {NoSocket} : down' = [down EXCEPT ![x] = {}]
      BY <1>3 DEF DialFails, SeesClose, Stop, Start, LoopInv, LoopTypes, netVars
    <2>3. down'[s] # {} => down[s] # {}
      BY <2>2 DEF AnswerInv
    <2>4. Trusted(s)
      BY <2>1, <2>3 DEF Trusted, Candidates
    <2>5. socket[c] = s
      BY <2>1, CopiesAssumption DEF LoopInv, LoopTypes
    <2> QED
      BY <1>1, <2>4, <2>5
  <1>4. ASSUME NEW d \in Copies, Open(d) PROVE FALSE
    <2> DEFINE f == [type |-> "hello", fits |-> d \in Working]
    <2>1. /\ socket[d] # NoSocket /\ UNCHANGED <<socket, down, candidates, hello>>
          /\ up' = [up EXCEPT ![socket[d]] = Append(@, f)]
      BY <1>4 DEF Open, poolVars
    <2>2. CASE socket[d] = s
      <3>1. d = c
        BY <2>1, <2>2 DEF Wired
      <3>2. ~f.fits
        BY <3>1
      <3>3. up[s] \in Seq(TrueFrames) /\ up'[s] = Append(up[s], f)
        BY <2>1, <2>2 DEF AnswerInv
      <3> HIDE DEF f
      <3>4. \A i \in 1..Len(up'[s]) : up'[s][i].fits => i \in 1..Len(up[s]) /\ up'[s][i] = up[s][i]
        BY <3>2, <3>3
      <3>5. Trusted(s)
        BY <2>1, <3>4 DEF Trusted, Candidates
      <3> QED
        BY <1>1, <2>1, <3>5
    <2>3. CASE socket[d] # s
      <3>1. up'[s] = up[s]
        BY <2>1, <2>3 DEF AnswerInv
      <3> QED
        BY <1>1, <2>1, <3>1 DEF Trusted, Candidates
    <2> QED
      BY <2>2, <2>3
  <1>5. ASSUME NEW d \in Copies, Receive(d) \/ Finish(d) PROVE FALSE
    <2>1. /\ UNCHANGED <<socket, candidates, hello>>
          /\ UNCHANGED up \/ \E r, ok : Send(d, Results(r, ok))
      BY <1>5 DEF Receive, Finish, loopVars, poolVars
    <2>2. down'[s] # {} => down[s] # {}
      BY <1>5 DEF Receive, Finish, AnswerInv
    <2>3. Trusted(s)
      BY <2>1, <2>2, SentFits DEF Trusted, Candidates
    <2> QED
      BY <1>1, <2>1, <2>3
  <1>6. ASSUME NEW x \in Sockets, Accept(x) PROVE FALSE
    <2>1. /\ candidates' = Append(candidates, x) /\ hello' = [hello EXCEPT ![x] = "none"]
          /\ link[x] = "dialing" /\ UNCHANGED <<up, socket>> /\ Notify(candidates', hello')
      BY <1>6 DEF Accept, loopVars
    <2>2. candidates' \in Seq(Sockets) /\ Candidates' = Candidates \cup {x}
      BY <1>0, <2>1, Joined DEF Wired
    <2>3. down'[s] # {} => down[s] # {} \/ (hello'[s] = "fits" /\ s \in Candidates')
      <3>1. down'[s] # {} =>
              down[s] # {} \/ (hello'[s] = "fits" /\ \E i \in 1..Len(candidates') : candidates'[i] = s)
        <4> DEFINE cs == candidates'
        <4> DEFINE h == hello'
        <4>1. cs \in Seq(Sockets) /\ Notify(cs, h)
          BY <2>1, <2>2
        <4> HIDE DEF cs, h
        <4>2. \A y \in Sockets : down'[y] # {} =>
                down[y] # {} \/ (h[y] = "fits" /\ \E i \in 1..Len(cs) : cs[i] = y)
          BY <1>0a, <4>1, SelectsTrusted
        <4> QED
          BY <4>2 DEF cs, h
      <3> QED
        BY <3>1 DEF Candidates
    <2>4. s \in Candidates' /\ hello'[s] = "fits" => s \in Candidates /\ hello[s] = "fits"
      BY <2>1, <2>2 DEF Selection, PoolTypes
    <2>5. Trusted(s)
      BY <2>1, <2>3, <2>4 DEF Trusted
    <2> QED
      BY <1>1, <2>1, <2>5
  <1>7. ASSUME NEW x \in Sockets, Announced(x) \/ Answered(x) PROVE FALSE
    <2>1. /\ up[x] # <<>> /\ up' = [up EXCEPT ![x] = Tail(@)]
          /\ UNCHANGED <<candidates, socket>>
      BY <1>7 DEF Announced, Answered, loopVars, poolVars
    <2>2. up[s] \in Seq(TrueFrames) /\ up[x] \in Seq(TrueFrames)
      BY DEF AnswerInv
    <2>3. \A i \in 1..Len(up'[s]) : \E j \in 1..Len(up[s]) : up'[s][i] = up[s][j]
      <3>1. CASE s = x
        <4>1. up'[s] = Tail(up[s]) /\ up[s] # <<>>
          BY <2>1, <3>1 DEF AnswerInv
        <4> QED
          BY <2>2, <4>1
      <3>2. CASE s # x
        BY <2>1, <3>2 DEF AnswerInv
      <3> QED
        BY <3>1, <3>2
    <2>4. hello'[s] = "fits" =>
            hello[s] = "fits" \/ \E j \in 1..Len(up[s]) : up[s][j].type = "hello" /\ up[s][j].fits
      <3>1. CASE Answered(x)
        BY <3>1 DEF Answered, poolVars
      <3>2. CASE Announced(x)
        <4>1. /\ Head(up[x]).type = "hello"
              /\ hello' = IF hello[x] # "none" THEN hello
                          ELSE [hello EXCEPT ![x] = IF Head(up[x]).fits THEN "fits" ELSE "differs"]
          BY <3>2 DEF Announced
        <4>2. Head(up[x]) = up[x][1] /\ 1 \in 1..Len(up[x])
          BY <2>1, <2>2
        <4>3. hello'[s] = hello[s] \/ (s = x /\ (Head(up[x]).fits \/ hello'[s] = "differs"))
          <5>1. CASE hello[x] # "none" \/ s # x
            BY <4>1, <5>1 DEF Selection, PoolTypes
          <5>2. CASE hello[x] = "none" /\ s = x
            BY <4>1, <5>2 DEF Selection, PoolTypes
          <5> QED
            BY <5>1, <5>2
        <4> QED
          BY <4>1, <4>2, <4>3
      <3> QED
        BY <1>7, <3>1, <3>2
    <2>5. down'[s] # {} => down[s] # {} \/ (hello'[s] = "fits" /\ s \in Candidates)
      <3>1. CASE Answered(x)
        BY <3>1 DEF Answered
      <3>2. CASE Announced(x)
        <4>1. Notify(candidates, hello')
          BY <3>2 DEF Announced
        <4>2. down'[s] # {} =>
                down[s] # {} \/ (hello'[s] = "fits" /\ \E i \in 1..Len(candidates) : candidates[i] = s)
          BY <1>0, <1>0a, <4>1, SelectsTrusted
        <4> QED
          BY <4>2 DEF Candidates
      <3> QED
        BY <1>7, <3>1, <3>2
    <2>6. Trusted(s)
      BY <2>1, <2>3, <2>4, <2>5 DEF Trusted, Candidates
    <2> QED
      BY <1>1, <2>1, <2>6
  <1>8. ASSUME NEW x \in Sockets, SeesDrop(x) PROVE FALSE
    <2>1. UNCHANGED <<socket, hello, down>> /\ up' = [up EXCEPT ![x] = <<>>]
      BY <1>8 DEF SeesDrop, loopVars
    <2>2. Candidates' \subseteq Candidates
      <3>1. ASSUME NEW k \in 1..Len(candidates),
                   candidates' = [i \in 1..(Len(candidates) - 1) |->
                                    candidates[IF i < k THEN i ELSE i + 1]]
            PROVE  Candidates' \subseteq Candidates
        BY <1>0, <3>1, Left DEF Wired
      <3>2. CASE UNCHANGED candidates
        BY <3>2 DEF Candidates
      <3> QED
        BY <1>8, <3>1, <3>2 DEF SeesDrop
    <2>3. up'[s] = up[s] \/ up'[s] = <<>>
      BY <2>1 DEF AnswerInv
    <2>4. Trusted(s)
      BY <2>1, <2>2, <2>3 DEF Trusted
    <2> QED
      BY <1>1, <2>1, <2>4
  <1>9. CASE StartRun
    <2>1. /\ UNCHANGED <<socket, up, candidates, hello>>
          /\ CheckSelection(candidates, hello, run', TRUE)
      BY <1>9 DEF StartRun, loopVars
    <2>2. down'[s] # {} => down[s] # {} \/ (hello[s] = "fits" /\ s \in Candidates)
      <3>1. down'[s] # {} =>
              down[s] # {} \/ (hello[s] = "fits" /\ \E i \in 1..Len(candidates) : candidates[i] = s)
        BY <1>0, <1>0a, <2>1, SelectsTrusted
      <3> QED
        BY <3>1 DEF Candidates
    <2>3. Trusted(s)
      BY <2>1, <2>2 DEF Trusted, Candidates
    <2> QED
      BY <1>1, <2>1, <2>3
  <1>10. CASE Close
    BY <1>10 DEF Close, Trusted, Candidates
  <1>11. ASSUME UNCHANGED <<socket, up, down, candidates, hello>> PROVE FALSE
    BY <1>1, <1>11 DEF Trusted, Candidates
  <1>12. ASSUME NEW x \in Sockets, Drop(x) PROVE UNCHANGED <<socket, up, down, candidates, hello>>
    BY <1>12 DEF Drop, loopVars, poolVars
  <1>13. ASSUME Timers \/ ServerFails \/ UNCHANGED vars
         PROVE  UNCHANGED <<socket, up, down, candidates, hello>>
    BY <1>13 DEF Timers, ConnectEnds, GraceEnds, RunTimesOut, Tick, ServerFails, vars, loopVars,
                 netVars, poolVars
  <1> QED
    BY <1>2, <1>3, <1>4, <1>5, <1>6, <1>7, <1>8, <1>9, <1>10, <1>11, <1>12, <1>13
    DEF Next, Plugin, Buttons, Arrives, Timers

-----------------------------------------------------------------------------
(* The types, by the variables that change together. *)

RunFrames == [type : {"hello"}, fits : BOOLEAN] \cup [type : {"results"}, run : Runs, ok : BOOLEAN]

LoopTyped ==
    /\ started \in [Copies -> BOOLEAN] /\ opened \in [Copies -> BOOLEAN]
    /\ dial \in [Copies -> Off..MaxDelay] /\ delay \in [Copies -> InitialDelay..MaxDelay]
    /\ socket \in [Copies -> Sockets \cup {NoSocket}]

UpTyped == up \in [Sockets -> Seq(RunFrames)]

CopiesTyped ==
    /\ executing \in [Copies -> SUBSET Runs] /\ down \in [Sockets -> SUBSET Runs]
    /\ ranOn \in [Runs -> SUBSET Copies] /\ completed \in SUBSET Runs

RunTyped ==
    /\ server \in {"closed", "listening", "failed"}
    /\ phase \in {"idle", "waiting", "running"} /\ run \in 0..MaxRuns
    /\ selected \in Sockets \cup {NoSocket}
    /\ outcome \in [Runs -> {"none", "results", "failed", "incompatible"}]
    /\ faults \in 0..MaxFaults

Typed == LoopTyped /\ UpTyped /\ CopiesTyped /\ RunTyped

LEMMA TypesTogether == ASSUME Typed, Wired, Selection PROVE TypeOK
  BY DEF Typed, LoopTyped, UpTyped, CopiesTyped, RunTyped, RunFrames, Wired, Selection, PoolTypes, TypeOK

LEMMA LoopTypedStep == ASSUME LoopTyped, [Next]_vars PROVE LoopTyped'
  <1> USE DEF LoopTyped
  <1>0. InitialDelay \in Nat \ {0} /\ MaxDelay \in Nat /\ InitialDelay <= MaxDelay
    BY BoundsAssumption
  <1>1. ASSUME NEW c \in Copies, DialFails(c) \/ SeesClose(c) PROVE LoopTyped'
    <2>1. Failed(c) /\ UNCHANGED started
      BY <1>1 DEF DialFails, SeesClose
    <2>2. delay[c] \in InitialDelay..MaxDelay /\ delay[c] \in Off..MaxDelay
      BY <1>0 DEF Off
    <2>3. Least(2 * delay[c], MaxDelay) \in InitialDelay..MaxDelay
      BY <1>0, <2>2 DEF Least
    <2> QED
      BY <2>1, <2>2, <2>3 DEF Failed
  <1>2. ASSUME NEW c \in Copies, Dial(c) \/ Open(c) \/ Stop(c) \/ Start(c) PROVE LoopTyped'
    <2>1. Off \in Off..MaxDelay /\ 0 \in Off..MaxDelay /\ InitialDelay \in InitialDelay..MaxDelay
      BY <1>0 DEF Off
    <2> QED
      BY <1>2, <2>1 DEF Dial, Open, Stop, Start
  <1>3. CASE Tick
    <2>1. \A c \in Copies : Later(dial[c]) \in Off..MaxDelay
      BY <1>0 DEF Later, Off
    <2> QED
      BY <1>3, <2>1 DEF Tick
  <1>4. ASSUME UNCHANGED loopVars PROVE LoopTyped'
    BY <1>4 DEF loopVars
  <1>5. ASSUME NEW c \in Copies, Receive(c) \/ Finish(c) PROVE UNCHANGED loopVars
    BY <1>5 DEF Receive, Finish
  <1>6. ASSUME NEW s \in Sockets, Arrives(s) \/ Drop(s) PROVE UNCHANGED loopVars
    BY <1>6 DEF Arrives, Accept, Announced, Answered, SeesDrop, Drop
  <1>7. ASSUME ConnectEnds \/ GraceEnds \/ RunTimesOut \/ StartRun \/ ServerFails \/ Close
               \/ UNCHANGED vars
        PROVE  UNCHANGED loopVars
    BY <1>7 DEF ConnectEnds, GraceEnds, RunTimesOut, StartRun, ServerFails, Close, vars
  <1> QED
    BY <1>1, <1>2, <1>3, <1>4, <1>5, <1>6, <1>7 DEF Next, Plugin, Buttons, Timers

\* A frame more, one less, or none left.
LEMMA UpKept ==
    ASSUME UpTyped,
           \/ UNCHANGED up
           \/ \E s, f : f \in RunFrames /\ up' = [up EXCEPT ![s] = Append(@, f)]
           \/ \E s \in Sockets : up[s] # <<>> /\ up' = [up EXCEPT ![s] = Tail(@)]
           \/ \E s : up' = [up EXCEPT ![s] = <<>>]
           \/ up' = [s \in Sockets |-> <<>>]
    PROVE  UpTyped'
  <1> USE DEF UpTyped
  <1>1. ASSUME NEW s, NEW f \in RunFrames, up' = [up EXCEPT ![s] = Append(@, f)] PROVE UpTyped'
    <2>1. \A q \in Seq(RunFrames) : Append(q, f) \in Seq(RunFrames)
      OBVIOUS
    <2> QED
      BY <1>1, <2>1
  <1>2. ASSUME NEW s \in Sockets, up[s] # <<>>, up' = [up EXCEPT ![s] = Tail(@)] PROVE UpTyped'
    <2>1. Tail(up[s]) \in Seq(RunFrames)
      BY <1>2
    <2> QED
      BY <1>2, <2>1
  <1>3. <<>> \in Seq(RunFrames)
    OBVIOUS
  <1> QED
    BY <1>1, <1>2, <1>3

LEMMA UpTypedStep == ASSUME UpTyped, CopiesTyped, LoopTyped, [Next]_vars PROVE UpTyped'
  <1>1. ASSUME NEW c \in Copies, NEW r \in Runs, NEW ok \in BOOLEAN, Send(c, Results(r, ok))
        PROVE  UpTyped'
    <2>1. Results(r, ok) \in RunFrames
      BY DEF Results, RunFrames
    <2>2. UNCHANGED up \/ up' = [up EXCEPT ![socket[c]] = Append(@, Results(r, ok))]
      BY <1>1 DEF Send
    <2> QED
      BY <2>1, <2>2, UpKept
  <1>2. ASSUME NEW c \in Copies, Open(c) PROVE UpTyped'
    <2>1. [type |-> "hello", fits |-> c \in Working] \in RunFrames
      BY DEF RunFrames
    <2> QED
      BY <1>2, <2>1, UpKept DEF Open
  <1>3. ASSUME NEW c \in Copies, Receive(c) PROVE UpTyped'
    <2>1. socket[c] \in Sockets
      BY <1>3 DEF Receive, LoopTyped
    <2>2. PICK r \in down[socket[c]] : UNCHANGED up \/ Send(c, Results(r, FALSE))
      BY <1>3 DEF Receive
    <2>3. r \in Runs
      BY <2>1, <2>2 DEF CopiesTyped
    <2> QED
      BY <1>1, <2>2, <2>3, UpKept
  <1>4. ASSUME NEW c \in Copies, Finish(c) PROVE UpTyped'
    <2>1. PICK r \in executing[c], ok \in BOOLEAN : Send(c, Results(r, ok))
      BY <1>4 DEF Finish
    <2>2. r \in Runs
      BY <2>1 DEF CopiesTyped
    <2> QED
      BY <1>1, <2>1, <2>2
  <1>5. ASSUME NEW s \in Sockets, Announced(s) \/ Answered(s) PROVE UpTyped'
    <2>1. up[s] # <<>> /\ up' = [up EXCEPT ![s] = Tail(@)]
      BY <1>5 DEF Announced, Answered
    <2> QED
      BY <2>1, UpKept
  <1>6. ASSUME NEW s \in Sockets, SeesDrop(s) PROVE UpTyped'
    BY <1>6, UpKept DEF SeesDrop
  <1>7. CASE Close
    BY <1>7, UpKept DEF Close
  <1>8. ASSUME NEW c \in Copies, Dial(c) \/ DialFails(c) \/ SeesClose(c) \/ Buttons(c)
        PROVE  UNCHANGED up
    BY <1>8 DEF Dial, DialFails, SeesClose, Buttons, Stop, Start, netVars
  <1>9. ASSUME NEW s \in Sockets, Accept(s) \/ Drop(s) PROVE UNCHANGED up
    BY <1>9 DEF Accept, Drop
  <1>10. ASSUME Timers \/ StartRun \/ ServerFails \/ UNCHANGED vars PROVE UNCHANGED up
    BY <1>10 DEF Timers, ConnectEnds, GraceEnds, RunTimesOut, Tick, StartRun, ServerFails, vars,
                 netVars
  <1> QED
    BY <1>2, <1>3, <1>4, <1>5, <1>6, <1>7, <1>8, <1>9, <1>10, UpKept DEF Next, Plugin, Arrives

LEMMA SentTo ==
    ASSUME CopiesTyped, NEW s \in Sockets, NEW r \in Runs, Dispatch(s, r)
    PROVE  /\ selected' = s /\ phase' = "running" /\ down' \in [Sockets -> SUBSET Runs]
           /\ \A x \in Sockets : /\ down'[x] \subseteq down[x] \cup {r}
                                 /\ x # s => down'[x] = down[x]
  BY DEF CopiesTyped, Dispatch

\* What a selection may do for run r.
Chosen(r) ==
    /\ selecting' = FALSE /\ phase' = "running" /\ down' \in [Sockets -> SUBSET Runs]
    /\ \E s \in Sockets :
         /\ selected' = s
         /\ \A x \in Sockets : /\ down'[x] \subseteq down[x] \cup {r}
                               /\ x # s => down'[x] = down[x]

LEMMA ChosenByNotify ==
    ASSUME CopiesTyped, NEW cs \in Seq(Sockets), NEW h, Notify(cs, h), selecting => run \in Runs
    PROVE  \/ selecting /\ Chosen(run)
           \/ UNCHANGED <<phase, selected, down>> /\ (selecting' => selecting)
  <1>1. \A i \in 1..Len(cs) : cs[i] \in Sockets
    OBVIOUS
  <1>2. ASSUME NEW i \in 1..Len(cs), Dispatch(cs[i], run), selecting, selecting' = FALSE
        PROVE  Chosen(run)
    BY <1>1, <1>2, SentTo DEF Chosen
  <1> QED
    BY <1>2, NotifiedSends

LEMMA ChosenByCheck ==
    ASSUME CopiesTyped, NEW cs \in Seq(Sockets), NEW h, NEW r \in Runs, CheckSelection(cs, h, r, TRUE)
    PROVE  \/ Chosen(r)
           \/ UNCHANGED <<selected, down>> /\ selecting' = TRUE /\ Matches(cs, h) = {}
  <1>1. \A i \in 1..Len(cs) : cs[i] \in Sockets
    OBVIOUS
  <1>2. ASSUME NEW i \in 1..Len(cs), Dispatch(cs[i], r), selecting' = FALSE
        PROVE  Chosen(r)
    BY <1>1, <1>2, SentTo DEF Chosen
  <1> QED
    BY <1>2, CheckedSends

LEMMA ToldTyped ==
    ASSUME CopiesTyped, RunTyped, Once, Selection,
           (\E s \in Sockets : Accept(s) \/ Announced(s)) \/ StartRun
    PROVE  /\ down' \in [Sockets -> SUBSET Runs] /\ phase' \in {"idle", "waiting", "running"}
           /\ selected' \in Sockets \cup {NoSocket}
  <1>0. candidates \in Seq(Sockets) /\ (selecting => run \in Runs)
    BY BoundsAssumption DEF Selection, PoolTypes, Once, RunTyped, Runs
  <1>1. ASSUME NEW cs \in Seq(Sockets), NEW h, Notify(cs, h)
        PROVE  /\ down' \in [Sockets -> SUBSET Runs] /\ phase' \in {"idle", "waiting", "running"}
               /\ selected' \in Sockets \cup {NoSocket}
    <2>1. \/ Chosen(run)
          \/ UNCHANGED <<phase, selected, down>>
      BY <1>0, <1>1, ChosenByNotify
    <2> QED
      BY <2>1 DEF Chosen, CopiesTyped, RunTyped
  <1>2. ASSUME NEW s \in Sockets, Accept(s)
        PROVE  candidates' \in Seq(Sockets) /\ Notify(candidates', hello')
    BY <1>0, <1>2 DEF Accept
  <1>3. ASSUME NEW s \in Sockets, Announced(s) PROVE Notify(candidates, hello')
    BY <1>3 DEF Announced
  <1>4. ASSUME StartRun
        PROVE  /\ down' \in [Sockets -> SUBSET Runs] /\ phase' \in {"idle", "waiting", "running"}
               /\ selected' \in Sockets \cup {NoSocket}
    <2>1. /\ run' = run + 1 /\ run < MaxRuns
          /\ CheckSelection(candidates, hello, run', TRUE)
          /\ Matches(candidates, hello) = {} => phase' = "waiting"
      BY <1>4 DEF StartRun
    <2>2. run' \in Runs
      BY <2>1, BoundsAssumption DEF RunTyped, Runs
    <2>3. \/ Chosen(run')
          \/ UNCHANGED <<selected, down>> /\ Matches(candidates, hello) = {}
      BY <1>0, <2>1, <2>2, ChosenByCheck
    <2> QED
      BY <2>1, <2>3 DEF Chosen, CopiesTyped, RunTyped
  <1> QED
    BY <1>0, <1>1, <1>2, <1>3, <1>4

LEMMA CopiesTypedStep ==
    ASSUME CopiesTyped, RunTyped, Once, Selection, LoopTyped, [Next]_vars
    PROVE  CopiesTyped'
  <1>1. ASSUME NEW c \in Copies, Receive(c) PROVE CopiesTyped'
    <2>1. socket[c] \in Sockets
      BY <1>1 DEF Receive, LoopTyped
    <2>2. PICK r \in down[socket[c]] :
            /\ down' = [down EXCEPT ![socket[c]] = @ \ {r}]
            /\ \/ /\ executing' = [executing EXCEPT ![c] = {r}]
                  /\ ranOn' = [ranOn EXCEPT ![r] = @ \cup {c}]
                  /\ UNCHANGED completed
               \/ UNCHANGED history
      BY <1>1 DEF Receive
    <2>3. r \in Runs
      BY <2>1, <2>2 DEF CopiesTyped
    <2> QED
      BY <2>1, <2>2, <2>3 DEF CopiesTyped, history
  <1>2. ASSUME NEW c \in Copies, Finish(c) PROVE CopiesTyped'
    BY <1>2 DEF Finish, CopiesTyped
  <1>3. ASSUME UNCHANGED history, down' \in [Sockets -> SUBSET Runs] PROVE CopiesTyped'
    BY <1>3 DEF CopiesTyped, history
  <1>4. ASSUME NEW c \in Copies, SeesClose(c) \/ Stop(c) PROVE CopiesTyped'
    <2>1. UNCHANGED down \/ down' = [down EXCEPT ![socket[c]] = {}]
      BY <1>4 DEF SeesClose, Stop, netVars
    <2>2. UNCHANGED history
      BY <1>4 DEF SeesClose, Stop
    <2> QED
      BY <1>3, <2>1, <2>2 DEF CopiesTyped
  <1>5. ASSUME (\E s \in Sockets : Accept(s) \/ Announced(s)) \/ StartRun PROVE CopiesTyped'
    <2>1. UNCHANGED history
      BY <1>5 DEF Accept, Announced, StartRun
    <2> QED
      BY <1>3, <1>5, <2>1, ToldTyped
  <1>6. CASE Close
    BY <1>3, <1>6 DEF Close
  <1>7. ASSUME UNCHANGED <<down, history>> PROVE CopiesTyped'
    BY <1>7 DEF CopiesTyped, history
  <1>8. ASSUME NEW c \in Copies, Dial(c) \/ DialFails(c) \/ Open(c) \/ Start(c)
        PROVE  UNCHANGED <<down, history>>
    BY <1>8 DEF Dial, DialFails, Open, Start, netVars
  <1>9. ASSUME NEW s \in Sockets, Answered(s) \/ SeesDrop(s) \/ Drop(s)
        PROVE  UNCHANGED <<down, history>>
    BY <1>9 DEF Answered, SeesDrop, Drop
  <1>10. ASSUME Timers \/ ServerFails \/ UNCHANGED vars PROVE UNCHANGED <<down, history>>
    BY <1>10 DEF Timers, ConnectEnds, GraceEnds, RunTimesOut, Tick, ServerFails, vars, netVars
  <1> QED
    BY <1>1, <1>2, <1>4, <1>5, <1>6, <1>7, <1>8, <1>9, <1>10 DEF Next, Plugin, Buttons, Arrives

LEMMA RunTypedStep ==
    ASSUME RunTyped, CopiesTyped, Once, Selection, [Next]_vars
    PROVE  RunTyped'
  <1> USE DEF RunTyped
  <1>1. ASSUME NEW result \in {"results", "failed", "incompatible"}, SettleRun(result)
        PROVE  /\ outcome' \in [Runs -> {"none", "results", "failed", "incompatible"}]
               /\ phase' \in {"idle", "waiting", "running"}
    BY <1>1 DEF SettleRun
  <1>2. ASSUME NEW s \in Sockets, Accept(s) \/ Announced(s) PROVE RunTyped'
    <2>1. UNCHANGED <<server, run, outcome, faults>>
      BY <1>2 DEF Accept, Announced
    <2> QED
      BY <1>2, <2>1, ToldTyped
  <1>3. CASE StartRun
    <2>1. /\ UNCHANGED <<outcome, faults>> /\ server' = "listening"
          /\ run' = run + 1 /\ run < MaxRuns
      BY <1>3 DEF StartRun
    <2>2. run' \in 0..MaxRuns
      BY <2>1, BoundsAssumption
    <2> QED
      BY <1>3, <2>1, <2>2, ToldTyped
  <1>4. ASSUME NEW s \in Sockets, Answered(s) PROVE RunTyped'
    <2>1. /\ UNCHANGED <<server, run, selected, faults>>
          /\ UNCHANGED <<phase, outcome>> \/ SettleRun("results") \/ SettleRun("failed")
      BY <1>4 DEF Answered, poolVars
    <2> QED
      BY <1>1, <2>1
  <1>5. ASSUME NEW s \in Sockets, SeesDrop(s) PROVE RunTyped'
    <2>1. /\ UNCHANGED <<server, run, faults>> /\ selected' \in {selected, NoSocket}
          /\ UNCHANGED <<phase, outcome>> \/ SettleRun("failed")
      BY <1>5 DEF SeesDrop
    <2> QED
      BY <1>1, <2>1
  <1>6. CASE ConnectEnds \/ GraceEnds \/ RunTimesOut
    <2>1. /\ UNCHANGED <<server, run, selected, faults>>
          /\ UNCHANGED <<phase, outcome>> \/ SettleRun("incompatible") \/ SettleRun("failed")
      BY <1>6 DEF ConnectEnds, GraceEnds, RunTimesOut, poolVars
    <2> QED
      BY <1>1, <2>1
  <1>7. CASE ServerFails \/ Close
    <2>1. /\ UNCHANGED <<run, selected>> /\ server' \in {"failed", "closed"}
          /\ UNCHANGED <<phase, outcome>> \/ SettleRun("failed")
      BY <1>7 DEF ServerFails, Close
    <2>2. faults' = faults \/ (faults < MaxFaults /\ faults' = faults + 1)
      BY <1>7 DEF ServerFails, Close
    <2>3. faults' \in 0..MaxFaults
      BY <2>2, BoundsAssumption
    <2> QED
      BY <1>1, <2>1, <2>3
  <1>8. ASSUME UNCHANGED <<server, runVars>>,
               faults' = faults \/ (faults < MaxFaults /\ faults' = faults + 1)
        PROVE  RunTyped'
    BY <1>8, BoundsAssumption DEF runVars
  <1>9. ASSUME NEW c \in Copies, Plugin(c) \/ Buttons(c)
        PROVE  /\ UNCHANGED <<server, runVars>>
               /\ faults' = faults \/ (faults < MaxFaults /\ faults' = faults + 1)
    BY <1>9 DEF Plugin, Buttons, Dial, DialFails, Open, SeesClose, Receive, Finish, Stop, Start, poolVars
  <1>10. ASSUME (\E s \in Sockets : Drop(s)) \/ Tick \/ UNCHANGED vars
         PROVE  /\ UNCHANGED <<server, runVars>>
                /\ faults' = faults \/ (faults < MaxFaults /\ faults' = faults + 1)
    BY <1>10 DEF Drop, Tick, vars, poolVars
  <1> QED
    BY <1>2, <1>3, <1>4, <1>5, <1>6, <1>7, <1>8, <1>9, <1>10 DEF Next, Arrives, Timers

-----------------------------------------------------------------------------
(* A run is sent once, and executed once.                                    *)

LEMMA OnceKept ==
    ASSUME Once, UNCHANGED <<ranOn, run>>, selecting' => selecting,
           \A s \in Sockets : down'[s] \subseteq down[s]
    PROVE  Once'
  BY DEF Once

LEMMA OnceChosen ==
    ASSUME Once, RunTyped, UNCHANGED ranOn, run' \in Runs, run <= run', Chosen(run'),
           ranOn[run'] = {}, \A s \in Sockets : run' \notin down[s]
    PROVE  Once'
  <1>1. PICK t \in Sockets :
          \A x \in Sockets : /\ down'[x] \subseteq down[x] \cup {run'}
                             /\ x # t => down'[x] = down[x]
    BY DEF Chosen
  <1>2. run' \in Nat /\ run \in Nat
    BY BoundsAssumption DEF Runs, RunTyped
  <1>3. ASSUME NEW s \in Sockets, NEW r \in down'[s]
        PROVE  r <= run' /\ ranOn[r] = {} /\ \A x \in Sockets : r \in down'[x] => x = s
    <2>1. CASE r = run'
      BY <1>1, <1>2, <1>3, <2>1
    <2>2. CASE r # run'
      <3>1. r \in down[s] /\ \A x \in Sockets : r \in down'[x] => r \in down[x]
        BY <1>1, <1>3, <2>2
      <3>2. r <= run /\ ranOn[r] = {} /\ \A x \in Sockets : r \in down[x] => x = s
        BY <3>1 DEF Once
      <3>3. r \in Nat
        BY <1>3 DEF Chosen, Runs
      <3> QED
        BY <1>2, <3>1, <3>2, <3>3
    <2> QED
      BY <2>1, <2>2
  <1>4. \A r \in Runs : ranOn[r] # {} => r <= run'
    BY <1>2 DEF Once, Runs
  <1> QED
    BY <1>3, <1>4 DEF Once, Chosen

LEMMA OnceStep ==
    ASSUME Once, Fitting, CopiesTyped, RunTyped, LoopTyped, Selection, [Next]_vars
    PROVE  Once'
  <1>0. candidates \in Seq(Sockets) /\ (selecting => run \in Runs)
    BY BoundsAssumption DEF Selection, PoolTypes, Once, RunTyped, Runs
  <1>1. ASSUME NEW c \in Copies, Receive(c) PROVE Once'
    <2> DEFINE s == socket[c]
    <2>1. s \in Sockets
      BY <1>1 DEF Receive, LoopTyped
    <2>2. PICK r \in down[s] :
            /\ down' = [down EXCEPT ![s] = @ \ {r}]
            /\ \/ ranOn' = [ranOn EXCEPT ![r] = @ \cup {c}]
               \/ UNCHANGED ranOn
      BY <1>1 DEF Receive, history
    <2>3. UNCHANGED <<run, selecting>>
      BY <1>1 DEF Receive, runVars, selectVars
    <2>4. c \in Working
      BY <2>1, <2>2 DEF Fitting, Trusted
    <2> HIDE DEF s
    <2>5. r \in Runs /\ r <= run /\ ranOn[r] = {} /\ \A x \in Sockets : r \in down[x] => x = s
      BY <2>1, <2>2 DEF Once, CopiesTyped
    <2>6. \A x \in Sockets : down'[x] \subseteq down[x] /\ r \notin down'[x]
      BY <2>1, <2>2, <2>5 DEF CopiesTyped
    <2>7. CASE UNCHANGED ranOn
      BY <2>3, <2>6, <2>7, OnceKept
    <2>8. CASE ranOn' = [ranOn EXCEPT ![r] = @ \cup {c}]
      <3>1. ranOn'[r] = {c} /\ \A q \in Runs \ {r} : ranOn'[q] = ranOn[q]
        BY <2>5, <2>8 DEF CopiesTyped
      <3>2. \A q \in Runs : ranOn'[q] \subseteq Working /\ \A d, e \in ranOn'[q] : d = e
        BY <2>4, <3>1 DEF Once
      <3>3. \A q \in Runs : ranOn'[q] # {} => q <= run'
        BY <2>3, <2>5, <3>1 DEF Once
      <3>4. \A x \in Sockets : \A q \in down'[x] : ranOn'[q] = {}
        <4>1. \A x \in Sockets : \A q \in down'[x] : q \in Runs /\ q # r /\ ranOn[q] = {}
          BY <2>6 DEF Once, CopiesTyped
        <4> QED
          BY <3>1, <4>1
      <3>5. selecting' => run # r
        BY <2>1, <2>2, <2>3 DEF Once
      <3>6. selecting' => run' >= 1 /\ ranOn'[run'] = {} /\ \A x \in Sockets : run' \notin down'[x]
        BY <1>0, <2>3, <2>6, <3>1, <3>5 DEF Once
      <3>7. \A x \in Sockets : \A q \in down'[x] :
              q <= run' /\ \A y \in Sockets : q \in down'[y] => y = x
        BY <2>3, <2>6 DEF Once
      <3> QED
        BY <3>2, <3>3, <3>4, <3>6, <3>7 DEF Once
    <2> QED
      BY <2>2, <2>7, <2>8
  <1>2. ASSUME NEW cs \in Seq(Sockets), NEW h, Notify(cs, h), UNCHANGED <<run, ranOn>>
        PROVE  Once'
    <2>1. CASE selecting /\ Chosen(run)
      <3>1. run' \in Runs /\ run <= run' /\ Chosen(run') /\ ranOn[run'] = {}
            /\ \A s \in Sockets : run' \notin down[s]
        <4>1. run' = run
          BY <1>2
        <4>2. run \in Runs /\ run <= run /\ ranOn[run] = {} /\ \A s \in Sockets : run \notin down[s]
          BY <1>0, <2>1 DEF Once, Runs
        <4> QED
          BY <2>1, <4>1, <4>2 DEF Chosen
      <3> QED
        BY <1>2, <3>1, OnceChosen
    <2>2. CASE UNCHANGED down /\ (selecting' => selecting)
      BY <1>2, <2>2, OnceKept
    <2> QED
      BY <1>0, <1>2, <2>1, <2>2, ChosenByNotify
  <1>3. ASSUME NEW s \in Sockets, Accept(s) PROVE Once'
    <2>1. candidates' \in Seq(Sockets) /\ Notify(candidates', hello') /\ UNCHANGED <<run, ranOn>>
      BY <1>0, <1>3 DEF Accept, history
    <2> QED
      BY <1>2, <2>1
  <1>4. ASSUME NEW s \in Sockets, Announced(s) PROVE Once'
    <2>1. Notify(candidates, hello') /\ UNCHANGED <<run, ranOn>>
      BY <1>4 DEF Announced, history
    <2> QED
      BY <1>0, <1>2, <2>1
  <1>5. CASE StartRun
    <2>1. /\ run' = run + 1 /\ run < MaxRuns /\ UNCHANGED ranOn
          /\ CheckSelection(candidates, hello, run', TRUE)
      BY <1>5 DEF StartRun, history
    <2>2. run \in Nat /\ run' \in Runs /\ run <= run' /\ ~(run' <= run)
      BY <2>1, BoundsAssumption DEF RunTyped, Runs
    <2>3. ranOn[run'] = {} /\ \A s \in Sockets : run' \notin down[s]
      BY <2>2 DEF Once
    <2>4. CASE Chosen(run')
      BY <2>1, <2>2, <2>3, <2>4, OnceChosen
    <2>5. CASE UNCHANGED down
      <3>1. \A r \in Runs : r <= run => r <= run'
        BY <2>1, <2>2 DEF Runs
      <3>2. \A s \in Sockets : \A r \in down[s] : r \in Runs
        BY DEF CopiesTyped
      <3>3. run' >= 1
        BY <2>2 DEF Runs
      <3> QED
        BY <2>1, <2>3, <2>5, <3>1, <3>2, <3>3 DEF Once
    <2> QED
      BY <1>0, <2>1, <2>2, <2>4, <2>5, ChosenByCheck
  <1>6. ASSUME NEW c \in Copies, Dial(c) \/ DialFails(c) \/ Open(c) \/ Start(c) \/ Finish(c) PROVE Once'
    <2>1. UNCHANGED <<down, ranOn, run, selecting>>
      BY <1>6 DEF Dial, DialFails, Open, Start, Finish, netVars, history, runVars, selectVars
    <2> QED
      BY <2>1, OnceKept
  <1>7. ASSUME NEW c \in Copies, SeesClose(c) \/ Stop(c) PROVE Once'
    <2>1. /\ UNCHANGED <<ranOn, run, selecting>>
          /\ UNCHANGED down \/ down' = [down EXCEPT ![socket[c]] = {}]
      BY <1>7 DEF SeesClose, Stop, netVars, history, runVars, selectVars
    <2>2. \A s \in Sockets : down'[s] \subseteq down[s]
      BY <2>1 DEF CopiesTyped
    <2> QED
      BY <2>1, <2>2, OnceKept
  <1>8. ASSUME NEW s \in Sockets, Answered(s) \/ SeesDrop(s) \/ Drop(s) PROVE Once'
    <2>1. UNCHANGED <<down, ranOn, run, selecting>>
      BY <1>8 DEF Answered, SeesDrop, Drop, history, runVars, selectVars
    <2> QED
      BY <2>1, OnceKept
  <1>9. CASE Timers \/ ServerFails \/ UNCHANGED vars
    <2>1. UNCHANGED <<down, ranOn, run>>
      BY <1>9 DEF Timers, ConnectEnds, GraceEnds, RunTimesOut, Tick, ServerFails, vars, netVars,
                  history, runVars
    <2>2. selecting' => selecting
      BY <1>9 DEF Timers, ConnectEnds, GraceEnds, RunTimesOut, Tick, ServerFails, Settle, vars, selectVars
    <2> QED
      BY <2>1, <2>2, OnceKept
  <1>10. CASE Close
    BY <1>10, OnceKept DEF Close, Settle, history
  <1> QED
    BY <1>1, <1>3, <1>4, <1>5, <1>6, <1>7, <1>8, <1>9, <1>10 DEF Next, Plugin, Buttons, Arrives

\* However copies drop, dial again and are selected again, for any number of copies, runs
\* and connections, a run is executed by one copy at most, one that speaks its protocol,
\* and every state is well typed (studio.ts, plugin-connections.ts).
THEOREM OneCopyRuns == Spec => []CopiesInv
  <1> DEFINE Inv == /\ LoopInv /\ AnswerInv /\ Selection
                    /\ Typed /\ Wired /\ Fitting /\ Once
  <1>1. Init => Inv
    <2> SUFFICES ASSUME Init PROVE Inv
      OBVIOUS
    <2>1. LoopInv /\ AnswerInv /\ Selection
      BY LoopInit, AnswerInit, SelectionInit
    <2>2. LoopTyped
      BY BoundsAssumption DEF Init, LoopTyped, Off
    <2>3. UpTyped /\ CopiesTyped /\ RunTyped
      BY BoundsAssumption DEF Init, UpTyped, CopiesTyped, RunTyped
    <2>4. Candidates = {}
      BY DEF Init, Candidates
    <2>5. Wired
      BY <2>4, CopiesAssumption DEF Init, Wired, Distinct
    <2>6. Fitting
      BY <2>4, CopiesAssumption DEF Init, Fitting
    <2>7. Once
      BY DEF Init, Once
    <2> QED
      BY <2>1, <2>2, <2>3, <2>5, <2>6, <2>7 DEF Typed
  <1>2. Inv /\ [Next]_vars => Inv'
    BY LoopStep, AnswerStep, SelectionStep, WiredStep, FittingStep, OnceStep,
       LoopTypedStep, UpTypedStep, CopiesTypedStep, RunTypedStep DEF Typed
  <1>3. Inv => CopiesInv
    <2> SUFFICES ASSUME Inv PROVE CopiesInv
      OBVIOUS
    <2>1. ASSUME NEW r \in Runs PROVE Cardinality(ranOn[r]) <= 1
      <3>1. CASE ranOn[r] = {}
        BY <3>1, FS_EmptySet
      <3>2. ASSUME NEW c \in ranOn[r] PROVE Cardinality(ranOn[r]) <= 1
        <4>1. ranOn[r] = {c}
          BY <3>2 DEF Once
        <4>2. Cardinality({c}) = 1
          BY FS_Singleton
        <4> QED
          BY <4>1, <4>2
      <3> QED
        BY <3>1, <3>2
    <2> QED
      BY <2>1, TypesTogether DEF CopiesInv, OneCopyPerRun, Once
  <1> HIDE DEF Inv
  <1> QED
    BY <1>1, <1>2, <1>3, PTL DEF Spec
=============================================================================
