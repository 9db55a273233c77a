----------------------------- MODULE StudioSession -----------------------------
(* A run on the `studio` backend: the command line listens on a port, every      *)
(* installed copy of the Studio plugin dials it (src/plugin/src), the connection *)
(* pool picks the one copy that announces this protocol                          *)
(* (src/src/backends/plugin-connections.ts), and the backend sends it the run    *)
(* and waits (src/src/backends/studio.ts).                                       *)
EXTENDS Integers, Sequences, FiniteSets

CONSTANTS
    Copies,         \* installed copies of the plugin
    Working,        \* those that announce the protocol the command line speaks
    Sockets,        \* identities a connection can have
    NoSocket,
    MaxRuns,        \* bound: runs started
    MaxFaults,      \* bound: connections lost, ports not bound, buttons pressed
    InitialDelay,   \* RECONNECT_DELAY, in ticks
    MaxDelay,       \* MAX_RECONNECT_DELAY
    Grace           \* PLUGIN_HELLO_GRACE_MS

ASSUME CopiesAssumption == IsFiniteSet(Copies) /\ Working \subseteq Copies /\ NoSocket \notin Sockets
ASSUME BoundsAssumption ==
    /\ MaxRuns \in Nat /\ MaxFaults \in Nat
    /\ InitialDelay \in Nat \ {0} /\ MaxDelay \in Nat /\ InitialDelay <= MaxDelay
    /\ Grace \in Nat \ {0}

Off == -1                                  \* a timer that is not armed
Runs == 1..MaxRuns

VARIABLES
    started,    \* [Copies -> BOOLEAN]: the reconnect loop is on
    dial,       \* [Copies -> timer]: the pending attempt of the loop
    delay,      \* [Copies -> nextDelay]
    socket,     \* [Copies -> socket the copy holds]
    opened,     \* [Copies -> BOOLEAN]: Opened was seen on that socket
    executing,  \* [Copies -> runs inside ExecuteRunModeAsync]
    link,       \* [Sockets -> "free" | "dialing" | "up" | "down"]
    up,         \* [Sockets -> frames on their way to the command line]
    down,       \* [Sockets -> runs on their way to the copy]
    server,     \* "closed" | "listening" | "failed"
    candidates, \* the pool's connections, oldest first
    hello,      \* [Sockets -> "none" | "fits" | "differs"]
    selecting,  \* a selection is in progress
    connect,    \* connectTimer is armed
    grace,      \* graceTimer
    phase,      \* the run: "idle" | "waiting" | "running"
    run,        \* requestId of the latest run
    selected,   \* socket it was dispatched to
    outcome,    \* [Runs -> "none" | "results" | "failed" | "incompatible"]
    ranOn,      \* history: [Runs -> copies that executed it]
    completed,   \* history: runs a copy executed to the end
    faults

loopVars == <<started, dial, delay, socket, opened>>
netVars == <<link, up, down>>
poolVars == <<server, candidates, hello>>
selectVars == <<selecting, connect, grace>>
runVars == <<phase, run, selected, outcome>>
history == <<executing, ranOn, completed>>
vars == <<loopVars, netVars, poolVars, selectVars, runVars, history, faults>>

-----------------------------------------------------------------------------
(* The plugin's reconnect loop.                                                 *)

Least(a, b) == IF a < b THEN a ELSE b

\* attempt.failed(): one new attempt after the delay, which doubles up to a cap.
Failed(c) ==
    /\ dial' = [dial EXCEPT ![c] = delay[c]]
    /\ delay' = [delay EXCEPT ![c] = Least(2 * @, MaxDelay)]
    /\ socket' = [socket EXCEPT ![c] = NoSocket]
    /\ opened' = [opened EXCEPT ![c] = FALSE]

\* A connection nobody holds any more is free to stand for another.
Release(s, l) ==
    IF l[s] = "down" /\ s \notin {candidates[i] : i \in 1..Len(candidates)} /\ selected # s
    THEN [l EXCEPT ![s] = "free"]
    ELSE l

Dial(c) ==
    /\ dial[c] = 0
    /\ \E s \in Sockets :
        /\ link[s] = "free"
        /\ link' = [link EXCEPT ![s] = "dialing"]
        /\ socket' = [socket EXCEPT ![c] = s]
    /\ dial' = [dial EXCEPT ![c] = Off]
    /\ UNCHANGED <<started, delay, opened, up, down, poolVars, selectVars, runVars, history, faults>>

\* Nothing listens on the port.
DialFails(c) ==
    /\ socket[c] # NoSocket
    /\ link[socket[c]] = "dialing" /\ server # "listening"
    /\ link' = [link EXCEPT ![socket[c]] = "free"]
    /\ Failed(c)
    /\ UNCHANGED <<started, up, down, poolVars, selectVars, runVars, history, faults>>

\* Opened: the delay starts over and the copy announces itself.
Open(c) ==
    /\ socket[c] # NoSocket /\ ~opened[c]
    /\ link[socket[c]] = "up"
    /\ opened' = [opened EXCEPT ![c] = TRUE]
    /\ delay' = [delay EXCEPT ![c] = InitialDelay]
    /\ up' = [up EXCEPT ![socket[c]] =
                Append(@, [type |-> "hello", fits |-> c \in Working])]
    /\ UNCHANGED <<started, dial, socket, link, down, poolVars, selectVars, runVars, history, faults>>

\* Closed or Error, whichever comes first: its handler takes the listener of the
\* other away, and the loop hears of an attempt once.
SeesClose(c) ==
    /\ socket[c] # NoSocket
    /\ link[socket[c]] = "down"
    /\ link' = Release(socket[c], link)
    /\ down' = [down EXCEPT ![socket[c]] = {}]
    /\ Failed(c)
    /\ UNCHANGED <<started, up, poolVars, selectVars, runVars, history, faults>>

\* Mutant: the pending attempt is not cancelled.
Stop_Pending(c) ==
    /\ started[c] /\ faults < MaxFaults
    /\ faults' = faults + 1
    /\ started' = [started EXCEPT ![c] = FALSE]
    /\ socket' = [socket EXCEPT ![c] = NoSocket]
    /\ opened' = [opened EXCEPT ![c] = FALSE]
    /\ LET s == socket[c]
       IN  IF s = NoSocket THEN UNCHANGED netVars
           ELSE /\ link' = IF link[s] = "dialing" THEN [link EXCEPT ![s] = "free"]
                           ELSE Release(s, [link EXCEPT ![s] = "down"])
                /\ down' = [down EXCEPT ![s] = {}]
                /\ UNCHANGED up
    /\ UNCHANGED <<dial, delay, poolVars, selectVars, runVars, history>>

\* The Stop button, or the plugin unloading: the loop and its socket end.
Stop(c) ==
    /\ started[c] /\ faults < MaxFaults
    /\ faults' = faults + 1
    /\ started' = [started EXCEPT ![c] = FALSE]
    /\ dial' = [dial EXCEPT ![c] = Off]
    /\ socket' = [socket EXCEPT ![c] = NoSocket]
    /\ opened' = [opened EXCEPT ![c] = FALSE]
    /\ LET s == socket[c]
       IN  IF s = NoSocket THEN UNCHANGED netVars
           ELSE /\ link' = IF link[s] = "dialing" THEN [link EXCEPT ![s] = "free"]
                           ELSE Release(s, [link EXCEPT ![s] = "down"])
                /\ down' = [down EXCEPT ![s] = {}]
                /\ UNCHANGED up
    /\ UNCHANGED <<delay, poolVars, selectVars, runVars, history>>

\* The Start button.
Start(c) ==
    /\ ~started[c]
    /\ started' = [started EXCEPT ![c] = TRUE]
    /\ delay' = [delay EXCEPT ![c] = InitialDelay]
    /\ dial' = [dial EXCEPT ![c] = 0]
    /\ UNCHANGED <<socket, opened, netVars, poolVars, selectVars, runVars, history, faults>>

-----------------------------------------------------------------------------
(* The plugin's run: completed on whichever socket the copy holds by then.       *)

Send(c, frame) ==
    IF socket[c] # NoSocket /\ opened[c] /\ link[socket[c]] = "up"
    THEN up' = [up EXCEPT ![socket[c]] = Append(@, frame)]
    ELSE UNCHANGED up

Results(r, ok) == [type |-> "results", run |-> r, ok |-> ok]

\* run_tests: Studio runs one session at a time and refuses a second.
Receive(c) ==
    /\ socket[c] # NoSocket /\ opened[c]
    /\ \E r \in down[socket[c]] :
        /\ down' = [down EXCEPT ![socket[c]] = @ \ {r}]
        /\ \/ /\ executing[c] = {}
              /\ executing' = [executing EXCEPT ![c] = {r}]
              /\ ranOn' = [ranOn EXCEPT ![r] = @ \cup {c}]
              /\ UNCHANGED <<up, completed>>
           \/ /\ executing[c] # {}
              /\ Send(c, Results(r, FALSE))
              /\ UNCHANGED history
    /\ UNCHANGED <<loopVars, link, poolVars, selectVars, runVars, faults>>

Finish(c) ==
    /\ \E r \in executing[c], ok \in BOOLEAN :
        /\ Send(c, Results(r, ok))
        /\ completed' = IF ok THEN completed \cup {r} ELSE completed
    /\ executing' = [executing EXCEPT ![c] = {}]
    /\ UNCHANGED <<loopVars, link, down, ranOn, poolVars, selectVars, runVars, faults>>

-----------------------------------------------------------------------------
(* The connection pool.                                                         *)

Candidates == {candidates[i] : i \in 1..Len(candidates)}

\* The oldest connection that announced this protocol.
Matches(cs, h) == {i \in 1..Len(cs) : h[cs[i]] = "fits"}
FindMatch(cs, h) == cs[CHOOSE i \in Matches(cs, h) : \A j \in Matches(cs, h) : i <= j]

\* settle(): both windows close and nothing is notified any more.
Settle ==
    /\ selecting' = FALSE /\ connect' = FALSE /\ grace' = Off

\* Mutant: the run is sent to every connection.
Dispatch_ToAll(s, r) ==
    /\ selected' = s
    /\ phase' = "running"
    /\ down' = [x \in Sockets |-> IF link[x] = "up" THEN down[x] \cup {r} ELSE down[x]]

\* awaitPluginMessage: the run goes to the selected socket alone.
Dispatch(s, r) ==
    /\ selected' = s
    /\ phase' = "running"
    /\ down' = IF link[s] = "up" THEN [down EXCEPT ![s] = @ \cup {r}] ELSE down

\* Mutant: the connect timer is left armed when the grace window opens.
CheckSelection_BothWindows(cs, h, r, fresh) ==
    \/ /\ Matches(cs, h) # {}
       /\ Settle
       /\ Dispatch(FindMatch(cs, h), r)
    \/ /\ Matches(cs, h) = {}
       /\ selecting' = TRUE
       /\ connect' = (fresh \/ connect)
       /\ grace' = IF cs # <<>> /\ (fresh \/ grace = Off) THEN Grace
                   ELSE IF fresh THEN Off ELSE grace
       /\ UNCHANGED <<selected, down>>

\* checkSelection: the first connection ends the connect window and opens the
\* grace window, once.
CheckSelection(cs, h, r, fresh) ==
    \/ /\ Matches(cs, h) # {}
       /\ Settle
       /\ Dispatch(FindMatch(cs, h), r)
    \/ /\ Matches(cs, h) = {}
       /\ cs = <<>> \/ (~fresh /\ grace # Off)
       /\ selecting' = TRUE
       /\ connect' = (IF fresh THEN TRUE ELSE connect)
       /\ grace' = (IF fresh THEN Off ELSE grace)
       /\ UNCHANGED <<selected, down>>
    \/ /\ Matches(cs, h) = {}
       /\ cs # <<>> /\ (fresh \/ grace = Off)
       /\ selecting' = TRUE /\ connect' = FALSE /\ grace' = Grace
       /\ UNCHANGED <<selected, down>>

Notify(cs, h) ==
    IF selecting
    THEN /\ CheckSelection(cs, h, run, FALSE)
         /\ Matches(cs, h) = {} => UNCHANGED phase
    ELSE UNCHANGED <<selectVars, phase, selected, down>>

\* track(): a plugin connects.
Accept(s) ==
    /\ link[s] = "dialing" /\ server = "listening"
    /\ link' = [link EXCEPT ![s] = "up"]
    /\ candidates' = Append(candidates, s)
    /\ hello' = [hello EXCEPT ![s] = "none"]
    /\ Notify(candidates', hello')
    /\ UNCHANGED <<loopVars, up, server, run, outcome, history, faults>>

\* Mutant: an announcement is recorded and nobody is notified.
Announced_Unnoticed(s) ==
    /\ s \in Candidates /\ up[s] # <<>> /\ Head(up[s]).type = "hello"
    /\ up' = [up EXCEPT ![s] = Tail(@)]
    /\ hello' = IF hello[s] # "none" THEN hello
                ELSE [hello EXCEPT ![s] = IF Head(up[s]).fits THEN "fits" ELSE "differs"]
    /\ UNCHANGED <<loopVars, link, down, server, candidates, selectVars, runVars, history, faults>>

\* record(): the first announcement of a connection counts.
Announced(s) ==
    /\ s \in Candidates /\ up[s] # <<>> /\ Head(up[s]).type = "hello"
    /\ up' = [up EXCEPT ![s] = Tail(@)]
    /\ hello' = IF hello[s] # "none" THEN hello
                ELSE [hello EXCEPT ![s] = IF Head(up[s]).fits THEN "fits" ELSE "differs"]
    /\ Notify(candidates, hello')
    /\ UNCHANGED <<loopVars, link, server, candidates, run, outcome, history, faults>>

-----------------------------------------------------------------------------
(* The backend.                                                                 *)

\* The promise of the run settles; a run settles once.
SettleRun(result) ==
    /\ outcome' = [outcome EXCEPT ![run] = result]
    /\ phase' = "idle"

\* runTestsAsync: the server opens once, and the selection starts at once.
StartRun ==
    /\ phase = "idle" /\ run < MaxRuns /\ server # "failed"
    /\ run' = run + 1
    /\ server' = "listening"
    /\ CheckSelection(candidates, hello, run', TRUE)
    /\ Matches(candidates, hello) = {} => phase' = "waiting"
    /\ UNCHANGED <<loopVars, link, up, candidates, hello, outcome, history, faults>>

\* The connect window closes: nothing ever connected.
ConnectEnds ==
    /\ connect
    /\ Settle
    /\ IF phase = "waiting" THEN SettleRun("failed") ELSE UNCHANGED <<phase, outcome>>
    /\ UNCHANGED <<loopVars, netVars, poolVars, run, selected, history, faults>>

\* Mutant: the grace window is ignored when every connection has dropped again.
GraceEnds_OverConnections ==
    /\ grace = 0 /\ candidates # <<>>
    /\ Settle
    /\ SettleRun("incompatible")
    /\ UNCHANGED <<loopVars, netVars, poolVars, run, selected, history, faults>>

\* The grace window closes over connections that do not fit, or over none.
GraceEnds ==
    /\ grace = 0
    /\ Settle
    /\ SettleRun(IF candidates = <<>> THEN "failed" ELSE "incompatible")
    /\ UNCHANGED <<loopVars, netVars, poolVars, run, selected, history, faults>>

\* Mutant: any request's results are taken for the run's.
Answered_AnyRequest(s) ==
    /\ up[s] # <<>> /\ Head(up[s]).type = "results"
    /\ up' = [up EXCEPT ![s] = Tail(@)]
    /\ IF phase = "running" /\ selected = s
       THEN SettleRun(IF Head(up[s]).ok THEN "results" ELSE "failed")
       ELSE UNCHANGED <<phase, outcome>>
    /\ UNCHANGED <<loopVars, link, down, poolVars, selectVars, run, selected, history, faults>>

\* A results frame: only the selected socket is listened to, and only this
\* request is answered.
Answered(s) ==
    /\ up[s] # <<>> /\ Head(up[s]).type = "results"
    /\ up' = [up EXCEPT ![s] = Tail(@)]
    /\ IF phase = "running" /\ selected = s /\ Head(up[s]).run = run
       THEN SettleRun(IF Head(up[s]).ok THEN "results" ELSE "failed")
       ELSE UNCHANGED <<phase, outcome>>
    /\ UNCHANGED <<loopVars, link, down, poolVars, selectVars, run, selected, history, faults>>

RunTimesOut ==
    /\ phase = "running"
    /\ SettleRun("failed")
    /\ UNCHANGED <<loopVars, netVars, poolVars, selectVars, run, selected, history, faults>>

\* The socket's close event: the pool forgets it and a run on it fails.
SeesDrop(s) ==
    /\ link[s] = "down" /\ s \in Candidates \cup {selected}
    /\ \/ s \notin Candidates /\ UNCHANGED candidates
       \/ \E k \in 1..Len(candidates) :
            /\ candidates[k] = s
            /\ candidates' = [i \in 1..(Len(candidates) - 1) |->
                                candidates[IF i < k THEN i ELSE i + 1]]
    /\ selected' = IF selected = s THEN NoSocket ELSE selected
    /\ up' = [up EXCEPT ![s] = <<>>]
    /\ link' = IF \E c \in Copies : socket[c] = s THEN link ELSE [link EXCEPT ![s] = "free"]
    /\ IF phase = "running" /\ selected = s THEN SettleRun("failed")
       ELSE UNCHANGED <<phase, outcome>>
    /\ UNCHANGED <<loopVars, down, server, hello, selectVars, run, history, faults>>

\* The server reports an error, such as a port that is taken. The run is rejected;
\* the selection is not ended.
ServerFails ==
    /\ server = "listening" /\ phase = "waiting" /\ connect
    /\ faults < MaxFaults /\ faults' = faults + 1
    /\ server' = "failed"
    /\ SettleRun("failed")
    /\ UNCHANGED <<loopVars, netVars, candidates, hello, selectVars, run, selected, history>>

\* closeAsync: the selection is aborted and every socket terminated. A run that was
\* dispatched fails on its socket's close event.
Close ==
    /\ server # "closed"
    /\ Settle
    /\ server' = "closed"
    /\ candidates' = <<>>
    /\ link' = [s \in Sockets |->
                  IF link[s] = "up"
                  THEN "down"
                  ELSE IF link[s] = "down" /\ s # selected /\ \A c \in Copies : socket[c] # s
                       THEN "free" ELSE link[s]]
    /\ up' = [s \in Sockets |-> <<>>]
    /\ down' = [s \in Sockets |-> {}]
    /\ IF phase = "waiting" THEN SettleRun("failed") ELSE UNCHANGED <<phase, outcome>>
    /\ UNCHANGED <<loopVars, hello, run, selected, history, faults>>

-----------------------------------------------------------------------------
(* The network and the clock.                                                   *)

Drop(s) ==
    /\ link[s] = "up" /\ faults < MaxFaults
    /\ faults' = faults + 1
    /\ link' = [link EXCEPT ![s] = "down"]
    /\ UNCHANGED <<loopVars, up, down, poolVars, selectVars, runVars, history>>

Later(t) == IF t > 0 THEN t - 1 ELSE t

\* Time passes; an expired timer fires first.
Tick ==
    /\ grace # 0 /\ \A c \in Copies : dial[c] # 0
    /\ grace > 0 \/ \E c \in Copies : dial[c] > 0
    /\ grace' = Later(grace)
    /\ dial' = [c \in Copies |-> Later(dial[c])]
    /\ UNCHANGED <<started, delay, socket, opened, netVars, poolVars, selecting, connect,
                   runVars, history, faults>>

Init ==
    /\ started = [c \in Copies |-> TRUE]
    /\ dial = [c \in Copies |-> 0]
    /\ delay = [c \in Copies |-> InitialDelay]
    /\ socket = [c \in Copies |-> NoSocket]
    /\ opened = [c \in Copies |-> FALSE]
    /\ executing = [c \in Copies |-> {}]
    /\ link = [s \in Sockets |-> "free"]
    /\ up = [s \in Sockets |-> <<>>]
    /\ down = [s \in Sockets |-> {}]
    /\ server = "closed" /\ candidates = <<>>
    /\ hello = [s \in Sockets |-> "none"]
    /\ selecting = FALSE /\ connect = FALSE /\ grace = Off
    /\ phase = "idle" /\ run = 0 /\ selected = NoSocket
    /\ outcome = [r \in Runs |-> "none"]
    /\ ranOn = [r \in Runs |-> {}]
    /\ completed = {} /\ faults = 0

Plugin(c) == Dial(c) \/ DialFails(c) \/ Open(c) \/ SeesClose(c) \/ Receive(c) \/ Finish(c)
Arrives(s) == Accept(s) \/ Announced(s) \/ Answered(s) \/ SeesDrop(s)
Timers == ConnectEnds \/ GraceEnds \/ RunTimesOut \/ Tick
Buttons(c) == Stop(c) \/ Start(c)

Next ==
    \/ \E c \in Copies : Plugin(c) \/ Buttons(c)
    \/ \E s \in Sockets : Arrives(s) \/ Drop(s)
    \/ Timers \/ StartRun \/ ServerFails \/ Close

Spec == Init /\ [][Next]_vars

(* Properties.                                                                  *)

TypeOK ==
    /\ started \in [Copies -> BOOLEAN] /\ opened \in [Copies -> BOOLEAN]
    /\ dial \in [Copies -> Off..MaxDelay] /\ delay \in [Copies -> InitialDelay..MaxDelay]
    /\ socket \in [Copies -> Sockets \cup {NoSocket}]
    /\ executing \in [Copies -> SUBSET Runs]
    /\ link \in [Sockets -> {"free", "dialing", "up", "down"}]
    /\ up \in [Sockets -> Seq([type : {"hello"}, fits : BOOLEAN]
                              \cup [type : {"results"}, run : Runs, ok : BOOLEAN])]
    /\ down \in [Sockets -> SUBSET Runs]
    /\ server \in {"closed", "listening", "failed"}
    /\ candidates \in Seq(Sockets) /\ hello \in [Sockets -> {"none", "fits", "differs"}]
    /\ selecting \in BOOLEAN /\ connect \in BOOLEAN /\ grace \in Off..Grace
    /\ phase \in {"idle", "waiting", "running"} /\ run \in 0..MaxRuns
    /\ selected \in Sockets \cup {NoSocket}
    /\ outcome \in [Runs -> {"none", "results", "failed", "incompatible"}]
    /\ ranOn \in [Runs -> SUBSET Copies] /\ completed \in SUBSET Runs
    /\ faults \in 0..MaxFaults

\* The two windows of a selection follow each other: the connect window is open while
\* nothing has connected, the grace window from the first connection on, and no window
\* is left open behind a selection that has ended (plugin-connections.ts:138-165, 197-210).
OneWindowAtATime ==
    IF selecting
    THEN (connect <=> grace = Off) /\ (connect => candidates = <<>>)
    ELSE ~connect /\ grace = Off

\* A selection never goes on beside a connection that announced this protocol, also one
\* that announced itself before the selection began (plugin-connections.ts:162, 191-195).
NoFittingCopyOverlooked ==
    selecting => \A s \in Candidates : hello[s] # "fits"

\* A run answered with results was executed to the end by a copy: a late answer to an
\* earlier run, arriving on the same or on a new socket, is never taken for it
\* (studio.ts:327-330).
AnswersItsRun ==
    \A r \in Runs : outcome[r] = "results" => r \in completed

\* However copies drop, redial and are selected again, one copy at most executes a run,
\* and it is one that speaks its protocol (studio.ts:349-352).
OneCopyPerRun ==
    \A r \in Runs : Cardinality(ranOn[r]) <= 1 /\ ranOn[r] \subseteq Working

\* A copy whose loop is on has exactly one of a pending attempt and a socket; one that
\* was stopped has neither, whatever events of its old socket are still to come
\* (reconnect-loop.luau:30-68).
OneAttemptAtATime ==
    \A c \in Copies :
        IF started[c] THEN (dial[c] = Off) # (socket[c] = NoSocket)
        ELSE dial[c] = Off /\ socket[c] = NoSocket

\* One window guards a selection, one attempt or socket serves a copy.
OneAtATime == OneWindowAtATime /\ OneAttemptAtATime

\* A selection has its one window, and none while a copy that fits is there.
SelectionIsSound == OneAtATime /\ NoFittingCopyOverlooked

\* What holds of the copies and their sockets at every step.
CopiesInv == TypeOK /\ OneCopyPerRun

\* Every run settles: whatever is connected, drops or never answers, one window, the run
\* timer or a close event ends it.
EveryRunSettles == phase # "idle" ~> phase = "idle"

\* Timers fire, what was sent arrives and the plugin's loop runs; nobody has to press a
\* button, start a run or finish a session.
FairSpec ==
    /\ Spec
    /\ WF_vars(ConnectEnds \/ GraceEnds \/ RunTimesOut) /\ WF_vars(Tick)
    /\ WF_vars(\E c \in Copies : Dial(c) \/ DialFails(c) \/ SeesClose(c))
    /\ WF_vars(\E s \in Sockets : Accept(s) \/ SeesDrop(s))

=============================================================================
