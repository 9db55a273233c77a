------------------------------ MODULE StudioCliRun ------------------------------
(* A run on the `studio-cli` backend: the command line launches Studio with a      *)
(* bootstrap script (src/src/backends/studio-cli-bootstrap.ts) that starts a play   *)
(* session, where every installed copy of the plugin wakes up                       *)
(* (plugin/src/test-in-run-mode.server.luau); one serves the run and the others     *)
(* stand down or refuse. The command line bounds every stage with a deadline        *)
(* (studio-cli-deadlines.ts). The serving copy runs the packages on its VM hosts.   *)
EXTENDS HostFanOut

CONSTANTS
    Copies,        \* installed copies of the plugin
    Fitting,       \* the copy that fits the run, when one does
    NoCopy,
    MaxFaults,     \* bound: sockets refused or lost, frames lost, failed launches
    BootTimeout,   \* DEFAULT_BOOT_WATCH_MS, in ticks
    RunTimeout,    \* the run's timeout
    NilWait,       \* NIL_RETURN_PLUGIN_WAIT_MS
    RelayWait,     \* NIL_RELAY_WAIT_SECONDS
    ArgsWait,      \* ARGS_WAIT_SECONDS
    RunningWait,   \* RUNNING_WAIT_SECONDS
    Defer,         \* MISMATCH_DEFER_SECONDS
    Skew           \* bound: ticks by which one copy lags behind another

ASSUME CopiesAssumption == IsFiniteSet(Copies) /\ Fitting \in Copies /\ NoCopy \notin Copies
ASSUME WaitsAssumption ==
    /\ {BootTimeout, RunTimeout, NilWait, RelayWait, ArgsWait, RunningWait, Defer}
         \subseteq Nat \ {0}
    /\ MaxFaults \in Nat /\ Skew \in Nat
\* The comments on the waits: no copy is so late that another one's wait is over by then, and
\* a copy that waits for the session to run stops before the command line stops waiting.
ASSUME NestAssumption ==
    Skew < RelayWait /\ Skew < Defer /\ RunningWait + Skew < NilWait

VARIABLES
    server,       \* Fitting, or NoCopy
    keyed,        \* the run asks for its plugin by key
    boot,         \* "off" | "running": ExecuteRunModeAsync waits | "returned"
    nil,          \* ExecuteRunModeAsync returns nil and GetTestArgs stays nil
    running,      \* RunService:IsRunning in the play session
    age,          \* ticks since the bootstrap ran, up to Skew
    sideChannel,  \* the side channel's attribute is set
    claim,        \* RUN_CLAIM_ATTRIBUTE
    endTest,      \* first answer given to EndTest, or "none"
    copy,         \* [Copies -> "off" | "waiting" | "args" | "deferring" | "serving" | "done"]
    timer,        \* [Copies -> the wait the copy is in]
    sock,         \* [Copies -> "none" | "opening" | "open" | "lost"]
    relayed,      \* copies that were told to relay
    toCli,        \* frames on their way to the command line
    toCopy,       \* copies a nilRelay frame is on its way to
    outcome,      \* "none" | an answer | a deadline
    bootTimer, runTimer, nilTimer,
    nilAsked,     \* the nil return's timer was created
    ready,        \* sockets that reported pluginReady
    faults

setup == <<server, keyed>>
studioVars == <<boot, nil, running, sideChannel, claim, endTest>>
copyVars == <<copy, timer, sock, relayed>>
wire == <<toCli, toCopy>>
cliVars == <<outcome, bootTimer, runTimer, nilTimer, nilAsked, ready>>
vars == <<setup, studioVars, age, copyVars, wire, cliVars, faults, fanVars>>

-----------------------------------------------------------------------------
(* The bootstrap script.                                                        *)

Frame(type, from) == [type |-> type, from |-> from]

Fault == faults < MaxFaults /\ faults' = faults + 1
NoFault == UNCHANGED faults

\* A frame is sent on a socket of its own, which Studio may refuse.
SendFrame(f) ==
    \/ toCli' = toCli \cup {f} /\ NoFault
    \/ UNCHANGED toCli /\ Fault

\* The side channel and the start report go out before the session starts.
Bootstrap ==
    /\ boot = "off"
    /\ boot' = "running"
    /\ nil' \in BOOLEAN
    /\ sideChannel' = TRUE
    /\ SendFrame(Frame("started", NoCopy))
    /\ UNCHANGED <<setup, running, claim, endTest, age, copyVars, toCopy, cliVars, fanVars>>

\* ExecuteRunModeAsync returns nil although the session goes on.
NilReturns ==
    /\ boot = "running" /\ nil
    /\ boot' = "returned"
    /\ SendFrame(Frame("nilReturn", NoCopy))
    /\ UNCHANGED <<setup, nil, running, sideChannel, claim, endTest, age, copyVars, toCopy,
                   cliVars, fanVars>>

\* ExecuteRunModeAsync returns what EndTest was given, or throws.
RunReturns ==
    /\ boot = "running" /\ ~nil
    /\ boot' = "returned"
    /\ \/ endTest # "none" /\ SendFrame(Frame(endTest, NoCopy))
       \/ endTest = "none" /\ Fault /\ toCli' = toCli \cup {Frame("error", NoCopy)}
    /\ UNCHANGED <<setup, nil, running, sideChannel, claim, endTest, age, copyVars, toCopy,
                   cliVars, fanVars>>

PlayRuns ==
    /\ boot # "off" /\ ~running
    /\ running' = TRUE
    /\ UNCHANGED <<setup, boot, nil, sideChannel, claim, endTest, age, copyVars, wire, cliVars,
                   faults, fanVars>>

-----------------------------------------------------------------------------
(* A copy of the run-mode plugin.                                               *)

Enter(c, state, t) ==
    /\ copy' = [copy EXCEPT ![c] = state]
    /\ timer' = [timer EXCEPT ![c] = t]

\* The side channel is read once; only the copy a keyed run asks for opens a socket.
OpensSocket(c) == sideChannel /\ (keyed => c = server)

\* Mutant: a copy with a socket waits no longer for its arguments than one without.
Begin_ShortWait(c) ==
    /\ Enter(c, "args", ArgsWait)
    /\ \/ OpensSocket(c) /\ sock' = [sock EXCEPT ![c] = "opening"] /\ NoFault
       \/ ~OpensSocket(c) /\ UNCHANGED sock /\ NoFault
       \/ OpensSocket(c) /\ UNCHANGED sock /\ Fault

Begin(c) ==
    \/ OpensSocket(c) /\ sock' = [sock EXCEPT ![c] = "opening"]
       /\ Enter(c, "args", RelayWait) /\ NoFault
    \/ ~OpensSocket(c) /\ UNCHANGED sock /\ Enter(c, "args", ArgsWait) /\ NoFault
    \/ OpensSocket(c) /\ UNCHANGED sock /\ Enter(c, "args", ArgsWait) /\ Fault

Starts(c) ==
    /\ copy[c] = "off" /\ boot # "off"
    /\ \/ running /\ Begin(c)
       \/ ~running /\ Enter(c, "waiting", RunningWait) /\ UNCHANGED sock /\ NoFault
    /\ UNCHANGED <<setup, studioVars, age, relayed, wire, cliVars, fanVars>>

\* waitUntilRunning.
WaitEnds(c) ==
    /\ copy[c] = "waiting"
    /\ \/ running /\ Begin(c)
       \/ ~running /\ timer[c] = 0 /\ Enter(c, "done", Off) /\ UNCHANGED sock /\ NoFault
    /\ UNCHANGED <<setup, studioVars, age, relayed, wire, cliVars, fanVars>>

Opened(c) ==
    /\ sock[c] = "opening"
    /\ sock' = [sock EXCEPT ![c] = "open"]
    /\ toCli' = toCli \cup {Frame("pluginReady", c)}
    /\ UNCHANGED <<setup, studioVars, age, copy, timer, relayed, toCopy, cliVars, faults, fanVars>>

HearsRelay(c) ==
    /\ c \in toCopy
    /\ toCopy' = toCopy \ {c}
    /\ relayed' = IF sock[c] = "open" THEN relayed \cup {c} ELSE relayed
    /\ UNCHANGED <<setup, studioVars, age, copy, timer, sock, toCli, cliVars, faults, fanVars>>

HasArgs(c) == IF nil THEN c \in relayed ELSE boot = "running"

\* The handshake: the copy that fits claims the run, the others wait for a claim.
TakesArgs(c) ==
    /\ copy[c] = "args" /\ HasArgs(c)
    /\ IF c = server
       THEN Enter(c, "serving", Off) /\ claim' = TRUE /\ sideChannel' = FALSE
       ELSE Enter(c, "deferring", Defer) /\ UNCHANGED <<claim, sideChannel>>
    /\ UNCHANGED <<setup, boot, nil, running, endTest, age, sock, relayed, wire, cliVars, faults,
                   fanVars>>

GivesUp(c) ==
    /\ copy[c] = "args" /\ timer[c] = 0 /\ ~HasArgs(c)
    /\ Enter(c, "done", Off)
    /\ UNCHANGED <<setup, studioVars, age, sock, relayed, wire, cliVars, faults, fanVars>>

\* endTest: through the socket after a nil return, through EndTest otherwise, which
\* takes the first answer.
EndTest(c, answer) ==
    IF nil
    THEN /\ toCli' = IF sock[c] = "open" THEN toCli \cup {Frame(answer, c)} ELSE toCli
         /\ UNCHANGED endTest
    ELSE /\ endTest' = IF endTest = "none" /\ boot = "running" THEN answer ELSE endTest
         /\ UNCHANGED toCli

Yields(c) ==
    /\ copy[c] = "deferring" /\ claim
    /\ Enter(c, "done", Off)
    /\ UNCHANGED <<setup, studioVars, age, sock, relayed, wire, cliVars, faults, fanVars>>

\* The claim was last read just before the deadline.
Refuses(c) ==
    /\ copy[c] = "deferring" /\ timer[c] = 0
    /\ Enter(c, "done", Off)
    /\ EndTest(c, "refused")
    /\ UNCHANGED <<setup, boot, nil, running, sideChannel, claim, age, sock, relayed, toCopy,
                   cliVars, faults, fanVars>>

\* The packages run, on the hosts or one after another, and the answer is sent; or
\* something the run needs is missing.
Serving == server # NoCopy /\ copy[server] = "serving"

Serve ==
    /\ Serving
    /\ FanOutNext
    /\ UNCHANGED <<setup, studioVars, age, copyVars, wire, cliVars, faults>>

ServeEnds ==
    /\ Serving
    /\ \/ stage \in {"sequential", "done"} /\ EndTest(server, "entries") /\ NoFault
       \/ stage = "off" /\ EndTest(server, "error") /\ Fault
    /\ Enter(server, "done", Off)
    /\ UNCHANGED <<setup, boot, nil, running, sideChannel, claim, age, sock, relayed, toCopy,
                   cliVars, fanVars>>

-----------------------------------------------------------------------------
(* The command line.                                                            *)

\* One source settles the wait; the deadlines stop and Studio is torn down.
Settle(o) ==
    /\ outcome' = o
    /\ bootTimer' = Off /\ runTimer' = Off /\ nilTimer' = Off
    /\ UNCHANGED <<nilAsked, ready>>

MarkStarted ==
    /\ bootTimer' = Off
    /\ runTimer' = IF bootTimer = Off THEN runTimer ELSE RunTimeout

HearsStarted ==
    /\ Frame("started", NoCopy) \in toCli
    /\ toCli' = toCli \ {Frame("started", NoCopy)}
    /\ MarkStarted
    /\ UNCHANGED <<setup, studioVars, age, copyVars, toCopy, outcome, nilTimer, nilAsked, ready,
                   faults, fanVars>>

\* Mutant: a run whose start report was lost keeps its boot deadline only.
HearsNil_Unmarked ==
    /\ Frame("nilReturn", NoCopy) \in toCli
    /\ toCli' = toCli \ {Frame("nilReturn", NoCopy)}
    /\ bootTimer' = Off /\ UNCHANGED runTimer
    /\ nilAsked' = TRUE
    /\ nilTimer' = IF ready = {} THEN NilWait ELSE Off
    /\ toCopy' = toCopy \cup ready
    /\ UNCHANGED <<setup, studioVars, age, copyVars, outcome, ready, faults, fanVars>>

\* onNilReturn: sockets that are ready are told to relay, which stops the timer.
HearsNil ==
    /\ Frame("nilReturn", NoCopy) \in toCli
    /\ toCli' = toCli \ {Frame("nilReturn", NoCopy)}
    /\ MarkStarted
    /\ nilAsked' = TRUE
    /\ nilTimer' = IF ready = {} THEN NilWait ELSE Off
    /\ toCopy' = toCopy \cup ready
    /\ UNCHANGED <<setup, studioVars, age, copyVars, outcome, ready, faults, fanVars>>

\* onPluginReady.
HearsReady(c) ==
    /\ Frame("pluginReady", c) \in toCli
    /\ toCli' = toCli \ {Frame("pluginReady", c)}
    /\ ready' = ready \cup {c}
    /\ IF nilAsked
       THEN toCopy' = toCopy \cup {c} /\ nilTimer' = Off
       ELSE UNCHANGED <<toCopy, nilTimer>>
    /\ UNCHANGED <<setup, studioVars, age, copyVars, outcome, bootTimer, runTimer, nilAsked,
                   faults, fanVars>>

HearsResults ==
    /\ \E f \in toCli :
        /\ f.type \in {"entries", "refused", "error"}
        /\ toCli' = toCli \ {f}
        /\ Settle(f.type)
    /\ UNCHANGED <<setup, studioVars, age, copyVars, toCopy, faults, fanVars>>

Expires ==
    /\ \/ bootTimer = 0 /\ Settle("bootTimeout")
       \/ runTimer = 0 /\ Settle("runTimeout")
       \/ nilTimer = 0 /\ Settle("nilExpired")
    /\ UNCHANGED <<setup, studioVars, age, copyVars, wire, faults, fanVars>>

\* Studio fails to launch, or the server reports an error.
LaunchFails ==
    /\ Fault
    /\ Settle("failed")
    /\ UNCHANGED <<setup, studioVars, age, copyVars, wire, fanVars>>

-----------------------------------------------------------------------------
(* Sockets and the clock.                                                       *)

Drop(c) ==
    /\ sock[c] = "open" /\ Fault
    /\ sock' = [sock EXCEPT ![c] = "lost"]
    /\ UNCHANGED <<setup, studioVars, age, copy, timer, relayed, wire, cliVars, fanVars>>

\* What a copy does at its next poll.
Due(c) ==
    \/ copy[c] = "off" /\ boot # "off"
    \/ copy[c] = "waiting" /\ running
    \/ sock[c] = "opening"
    \/ copy[c] = "args" /\ HasArgs(c)

\* Frames arrive within a tick, copies keep up within Skew of the bootstrap, and the
\* coordinator's own steps take no time.
Prompt ==
    /\ wire = <<{}, {}>>
    /\ ~(Serving /\ stage \in {"off", "between", "done"})
    /\ ~(boot = "running" /\ endTest # "none")
    /\ \A c \in Copies : ~(copy[c] = "deferring" /\ claim)
    /\ boot # "off" /\ age >= Skew =>
          ~(nil /\ boot = "running") /\ \A c \in Copies : ~Due(c)

Later(t) == IF t > 0 THEN t - 1 ELSE t

\* An expired wait ends before time goes on.
Tick ==
    /\ Prompt
    /\ 0 \notin {bootTimer, runTimer, nilTimer, wait} \cup {timer[c] : c \in Copies}
    /\ bootTimer' = Later(bootTimer) /\ runTimer' = Later(runTimer) /\ nilTimer' = Later(nilTimer)
    /\ wait' = Later(wait)
    /\ timer' = [c \in Copies |-> Later(timer[c])]
    /\ age' = IF boot # "off" /\ age < Skew THEN age + 1 ELSE age
    /\ UNCHANGED <<setup, studioVars, copy, sock, relayed, wire, outcome, nilAsked, ready, faults,
                   stage, pkg, staged, live, batch, threads, fired, received, kept>>

Init ==
    /\ server \in {Fitting, NoCopy} /\ keyed \in BOOLEAN
    /\ boot = "off" /\ nil = FALSE /\ running = FALSE /\ age = 0
    /\ sideChannel = FALSE /\ claim = FALSE /\ endTest = "none"
    /\ copy = [c \in Copies |-> "off"] /\ timer = [c \in Copies |-> Off]
    /\ sock = [c \in Copies |-> "none"] /\ relayed = {}
    /\ toCli = {} /\ toCopy = {}
    /\ outcome = "none" /\ bootTimer = BootTimeout /\ runTimer = Off /\ nilTimer = Off
    /\ nilAsked = FALSE /\ ready = {} /\ faults = 0
    /\ FanOutInit

Copy(c) ==
    \/ Starts(c) \/ WaitEnds(c) \/ Opened(c) \/ HearsRelay(c) \/ TakesArgs(c) \/ GivesUp(c)
    \/ Yields(c) \/ Refuses(c)
Hears == HearsStarted \/ HearsNil \/ HearsResults \/ \E c \in Copies : HearsReady(c)

Unsettled == outcome = "none"

\* Once the wait has settled Studio is killed, and nothing else happens.
Next ==
    /\ Unsettled
    /\ \/ Bootstrap \/ NilReturns \/ RunReturns \/ PlayRuns
       \/ \E c \in Copies : Copy(c) \/ Drop(c)
       \/ Serve \/ ServeEnds
       \/ Hears \/ Expires \/ LaunchFails \/ Tick

Spec == Init /\ [][Next]_vars

\* What the coordinator does without waiting for a host.
ServeDue ==
    /\ Serving
    /\ CollectHosts \/ StartPackage \/ ExchangeEnds \/ FanOutEnds
    /\ UNCHANGED <<setup, studioVars, age, copyVars, wire, cliVars, faults>>

\* Timers fire, frames arrive, scripts poll; nobody has to boot Studio, start the play
\* session or finish a test.
FairSpec ==
    /\ Spec
    /\ WF_vars(Unsettled /\ (NilReturns \/ RunReturns))
    /\ WF_vars(Unsettled /\ \E c \in Copies : Copy(c))
    /\ WF_vars(Unsettled /\ (Hears \/ Expires))
    /\ WF_vars(Unsettled /\ Tick)
    /\ WF_vars(Unsettled /\ ServeDue)
    /\ WF_vars(Unsettled /\ stage = "done" /\ ServeEnds)

\* A session whose play server runs, and whose copies start, within Skew.
Punctual == age >= Skew => running
PunctualSpec == Init /\ [][Next /\ Punctual']_vars

-----------------------------------------------------------------------------
(* Properties.                                                                  *)

FrameTypes == {"started", "nilReturn", "pluginReady", "entries", "refused", "error"}

TypeOK ==
    /\ server \in {Fitting, NoCopy} /\ keyed \in BOOLEAN
    /\ boot \in {"off", "running", "returned"} /\ nil \in BOOLEAN /\ running \in BOOLEAN
    /\ age \in 0..Skew /\ sideChannel \in BOOLEAN /\ claim \in BOOLEAN
    /\ endTest \in {"none", "entries", "refused", "error"}
    /\ copy \in [Copies -> {"off", "waiting", "args", "deferring", "serving", "done"}]
    /\ timer \in [Copies -> Nat \cup {Off}]
    /\ sock \in [Copies -> {"none", "opening", "open", "lost"}] /\ relayed \subseteq Copies
    /\ toCli \subseteq [type : FrameTypes, from : Copies \cup {NoCopy}] /\ toCopy \subseteq Copies
    /\ outcome \in {"none", "entries", "refused", "error", "bootTimeout", "runTimeout",
                    "nilExpired", "failed"}
    /\ bootTimer \in Off..BootTimeout /\ runTimer \in Off..RunTimeout /\ nilTimer \in Off..NilWait
    /\ nilAsked \in BOOLEAN /\ ready \subseteq Copies /\ faults \in 0..MaxFaults
    /\ FanOutTypeOK

\* A copy that does not fit never takes the run from one that does: while the fitting copy
\* serves, another copy's refusal is not the run's answer
\* (test-in-run-mode.server.luau:78-89).
NoRefusalWhileServed == outcome = "refused" => ~Serving

\* A copy that is told to relay is still there to hear it: it waits longer for its
\* arguments than the command line waits for a copy (test-in-run-mode.server.luau:101-103).
RelayFindsCopy ==
    \A c \in toCopy : copy[c] \in {"args", "deferring", "serving"}

\* The command line gives up on a nil return only once no copy can still report ready: the
\* play server's wait to run ends before its own (studio-cli-deadlines.ts:18-20).
ExpiresAfterCopies ==
    outcome = "nilExpired" =>
        /\ ready = {}
        /\ \A c \in Copies : /\ copy[c] \notin {"off", "waiting"} /\ sock[c] # "opening"
                             /\ Frame("pluginReady", c) \notin toCli

\* The waits of the three machines nest, whoever is late and whoever refuses.
WaitsInv == TypeOK /\ RelayFindsCopy /\ ExpiresAfterCopies /\ NoRefusalWhileServed

\* Whatever boots, answers, refuses, hangs or is lost, the wait ends.
EveryRunSettles == outcome = "none" ~> outcome # "none"

\* A host that hangs costs its own entries only: the coordinator's deadline turns them into
\* errors before the command line stops listening (vm-parallel.luau:65-74).
HangingHostsAreReported == outcome = "runTimeout" => stage \in {"off", "sequential"}

=============================================================================
