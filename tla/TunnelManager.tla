--------------------------- MODULE TunnelManager ---------------------------
(***************************************************************************)
(* The Cloudflare tunnels of the gateway: internal/tunnel/manager.go,      *)
(* Manager, with its handlers (internal/handlers/tunnels.go) and its calls *)
(* from main.go at boot and shutdown.                                      *)
(*                                                                         *)
(* A tunnel is a cloudflared child process, quick or named.  Enable,       *)
(* Disable and Restart hold m.mu only to read and set quickCmd and         *)
(* namedCmd; they stop, start and save one after the other, and calls may  *)
(* overlap, with each other and with the goroutine that waits for the URL  *)
(* of a quick tunnel and then loads and saves the configuration.  A child  *)
(* outlives the gateway that does not stop it.  The Cloudflare API         *)
(* (external) may fail; credentials are left out, logs too.                *)
(***************************************************************************)
EXTENDS Naturals, Sequences, FiniteSets

CONSTANTS
  TunnelCallers,    \* calls of the manager that may run at the same time
  MaxTunnels        \* bound: cloudflared processes started

TunnelModes == {"none", "quick", "named", "hybrid"}
HasQuick(mode) == mode \in {"quick", "hybrid"}
HasNamed(mode) == mode \in {"named", "hybrid"}
NoCmd == 0

ASSUME TunnelAssumption ==
  /\ IsFiniteSet(TunnelCallers) /\ MaxTunnels \in Nat

VARIABLES
  quickCmd,     \* Manager.quickCmd: a process, or NoCmd
  namedCmd,     \* Manager.namedCmd
  children,     \* for each cloudflared process started: whether it runs
  config,       \* fr:tunnel:config: the mode
  tcall,        \* each call: its next step, its operation, its mode, the processes it kills
  capture,      \* for each process: where the goroutine that waits for its URL is
  gateway,      \* up, or down
  crossed,      \* history: calls overlapped, a save failed, or a URL was saved with an older mode
  left,         \* history: processes that ran when the gateway ended
  cutOff        \* history: the gateway was stopped while a call was under way

tunnelVars == <<quickCmd, namedCmd, children, config, tcall, capture, gateway, crossed,
                left, cutOff>>

NoTunnelCall == [step |-> "idle", op |-> "none", mode |-> "none", kill |-> {}]
NoCapture == [step |-> "ended", mode |-> "none"]

TunnelInit ==
  /\ quickCmd = NoCmd /\ namedCmd = NoCmd
  /\ children = <<>>
  /\ config = "none"
  /\ tcall = [c \in TunnelCallers |-> NoTunnelCall]
  /\ capture = <<>>
  /\ gateway = "up"
  /\ crossed = FALSE /\ left = {} /\ cutOff = FALSE

-----------------------------------------------------------------------------
Alive == {p \in 1 .. Len(children) : children[p]}
CallIn(c, step) == tcall[c].step = step
InCall == {c \in TunnelCallers : ~CallIn(c, "idle")}
CallGoes(c, step) == tcall' = [tcall EXCEPT ![c].step = step]
CallEnds(c) == tcall' = [tcall EXCEPT ![c] = NoTunnelCall]

StartCall(c, op, mode) ==
  /\ gateway = "up" /\ CallIn(c, "idle")
  /\ mode # "none" => Len(children) < MaxTunnels
  /\ \A d \in TunnelCallers : tcall[d].op # "shutdown"
  /\ tcall' = [tcall EXCEPT ![c] = [step |-> "stop", op |-> op, mode |-> mode, kill |-> {}]]
  /\ crossed' = (crossed \/ InCall # {})
  /\ cutOff' = (cutOff \/ (op = "shutdown" /\ InCall # {}))
  /\ UNCHANGED <<quickCmd, namedCmd, children, config, capture, gateway, left>>

HandleTunnelEnable(c, mode) == StartCall(c, "enable", mode)
Disable(c) == StartCall(c, "enable", "none")

\* Restart applies the mode it loads.
Restart(c) == config # "none" /\ StartCall(c, "enable", config)

\* The server takes no more requests; calls may still be under way.
Shutdown(c) == StartCall(c, "shutdown", "none")

\* Both commands are taken over and forgotten in one critical section.
stopAll(c) ==
  /\ CallIn(c, "stop")
  /\ tcall' = [tcall EXCEPT ![c].step = "kill", ![c].kill = {quickCmd, namedCmd} \ {NoCmd}]
  /\ quickCmd' = NoCmd /\ namedCmd' = NoCmd
  /\ UNCHANGED <<children, config, capture, gateway, crossed, left, cutOff>>

\* What Enable does after stopAll and after the quick tunnel; with no tunnel
\* to start, like Disable, it saves.
AfterStop(c) ==
  CASE tcall[c].op = "shutdown" -> "exit"
    [] OTHER -> IF HasQuick(tcall[c].mode) THEN "quick"
                ELSE IF HasNamed(tcall[c].mode) THEN "named" ELSE "save"
AfterQuick(c) == IF HasNamed(tcall[c].mode) THEN "named" ELSE "save"

killGracefully(c) ==
  /\ CallIn(c, "kill")
  /\ children' = [p \in 1 .. Len(children) |-> children[p] /\ p \notin tcall[c].kill]
  /\ tcall' = [tcall EXCEPT ![c].step = AfterStop(c), ![c].kill = {}]
  /\ UNCHANGED <<quickCmd, namedCmd, config, capture, gateway, crossed, left, cutOff>>

Spawn(kind) ==
  /\ Len(children) < MaxTunnels
  /\ children' = Append(children, TRUE)
  /\ capture' = Append(capture, [NoCapture EXCEPT !.step = IF kind = "quick" THEN "waits" ELSE @])

\* In the lock: only if there is no quick command.
startQuick(c) ==
  /\ CallIn(c, "quick") /\ quickCmd = NoCmd
  /\ Spawn("quick")
  /\ quickCmd' = Len(children) + 1
  /\ CallGoes(c, AfterQuick(c))
  /\ UNCHANGED <<namedCmd, config, gateway, crossed, left, cutOff>>

\* Already running, or no binary.  In hybrid mode the named tunnel is tried.
startQuickFails(c) ==
  /\ CallIn(c, "quick")
  /\ IF tcall[c].mode = "hybrid"
     THEN tcall' = [tcall EXCEPT ![c].step = "named", ![c].op = "half"] ELSE CallEnds(c)
  /\ UNCHANGED <<quickCmd, namedCmd, children, config, capture, gateway, crossed, left,
                 cutOff>>

\* Mutant of NamedFree: not looked at again in the lock.
NamedFree_Unchecked(c) == CallIn(c, "named")

NamedFree(c) == CallIn(c, "named") /\ namedCmd = NoCmd

\* After the calls of the Cloudflare API, in the lock.
startNamed(c) ==
  /\ NamedFree(c)
  /\ Spawn("named")
  /\ namedCmd' = Len(children) + 1
  /\ CallGoes(c, "save")
  /\ UNCHANGED <<quickCmd, config, gateway, crossed, left, cutOff>>

\* The API refuses, or it is already running.  In hybrid mode the quick tunnel is enough.
startNamedFails(c) ==
  /\ CallIn(c, "named")
  /\ IF tcall[c].mode = "hybrid" /\ tcall[c].op # "half" THEN CallGoes(c, "save") ELSE CallEnds(c)
  /\ UNCHANGED <<quickCmd, namedCmd, children, config, capture, gateway, crossed, left,
                 cutOff>>

\* Mutant of SaveConfig: not saved.
SaveConfig_Forgets(c) ==
  /\ CallIn(c, "save")
  /\ CallEnds(c)
  /\ UNCHANGED <<quickCmd, namedCmd, children, config, capture, gateway, crossed, left,
                 cutOff>>

SaveConfig(c) ==
  /\ CallIn(c, "save")
  /\ config' = tcall[c].mode
  /\ CallEnds(c)
  /\ UNCHANGED <<quickCmd, namedCmd, children, capture, gateway, crossed, left, cutOff>>

\* Redis does not answer: an error to the caller, the tunnels stay as they are.
SaveConfigFails(c) ==
  /\ CallIn(c, "save")
  /\ crossed' = TRUE
  /\ CallEnds(c)
  /\ UNCHANGED <<quickCmd, namedCmd, children, config, capture, gateway, left, cutOff>>

-----------------------------------------------------------------------------
(* The URL of a quick tunnel, and processes that end                       *)

CaptureLoads(p) ==
  /\ capture[p].step = "waits"
  /\ capture' = [capture EXCEPT ![p] = [step |-> "saves", mode |-> config]]
  /\ UNCHANGED <<quickCmd, namedCmd, children, config, tcall, gateway, crossed, left, cutOff>>

CaptureSaves(p) ==
  /\ capture[p].step = "saves"
  /\ config' = capture[p].mode
  /\ crossed' = (crossed \/ capture[p].mode # config)
  /\ capture' = [capture EXCEPT ![p] = NoCapture]
  /\ UNCHANGED <<quickCmd, namedCmd, children, tcall, gateway, left, cutOff>>

\* quickURLTimeout; Redis not answering has the same effect.
CaptureTimesOut(p) ==
  /\ capture[p].step = "waits"
  /\ capture' = [capture EXCEPT ![p] = NoCapture]
  /\ UNCHANGED <<quickCmd, namedCmd, children, config, tcall, gateway, crossed, left, cutOff>>

\* cloudflared ends by itself; its command stays until it is stopped.
ChildExits(p) ==
  /\ p \in Alive
  /\ children' = [children EXCEPT ![p] = FALSE]
  /\ UNCHANGED <<quickCmd, namedCmd, config, tcall, capture, gateway, crossed, left, cutOff>>

-----------------------------------------------------------------------------
(* main                                                                    *)

Exit(c) ==
  /\ CallIn(c, "exit")
  /\ gateway' = "down"
  /\ left' = left \cup Alive
  /\ quickCmd' = NoCmd /\ namedCmd' = NoCmd
  /\ tcall' = [d \in TunnelCallers |-> NoTunnelCall]
  /\ capture' = [p \in 1 .. Len(capture) |-> NoCapture]
  /\ UNCHANGED <<children, config, crossed, cutOff>>

\* A new gateway, which starts the mode that was saved.
AutoStart(c) ==
  /\ gateway = "down"
  /\ gateway' = "up"
  /\ tcall' = [tcall EXCEPT ![c] = IF config = "none" THEN NoTunnelCall ELSE
                 [step |-> "stop", op |-> "enable", mode |-> config, kill |-> {}]]
  /\ UNCHANGED <<quickCmd, namedCmd, children, config, capture, crossed, left, cutOff>>

TunnelCall(c) ==
  \/ \E mode \in TunnelModes : HandleTunnelEnable(c, mode)
  \/ Disable(c) \/ Restart(c) \/ Shutdown(c)
  \/ stopAll(c) \/ killGracefully(c)
  \/ startQuick(c) \/ startQuickFails(c) \/ startNamed(c) \/ startNamedFails(c)
  \/ SaveConfig(c) \/ SaveConfigFails(c)
  \/ Exit(c) \/ AutoStart(c)

TunnelNext ==
  \/ \E c \in TunnelCallers : TunnelCall(c)
  \/ \E p \in 1 .. Len(children) :
       CaptureLoads(p) \/ CaptureSaves(p) \/ CaptureTimesOut(p) \/ ChildExits(p)

TunnelSpec == TunnelInit /\ [][TunnelNext]_tunnelVars

-----------------------------------------------------------------------------
(* Properties                                                              *)

TunnelTypeOK ==
  /\ quickCmd \in 0 .. Len(children) /\ namedCmd \in 0 .. Len(children)
  /\ Len(capture) = Len(children)
  /\ config \in TunnelModes
  /\ \A c \in TunnelCallers : tcall[c].mode \in TunnelModes /\ tcall[c].kill \subseteq 1 .. Len(children)

\* The manager never loses a cloudflared process, however calls overlap: each
\* one that runs is its quick or its named command, or is about to be killed
\* by the call that stopped it, also while Shutdown stops them and after it,
\* unless a call that was still under way then (AutoStart waiting for the
\* Cloudflare API) started one that outlives the gateway.
NoOrphan ==
  Alive \subseteq {quickCmd, namedCmd} \cup (UNION {tcall[c].kill : c \in TunnelCallers})
                   \cup (IF cutOff THEN left ELSE {})

\* What runs is what the saved mode says, so that the next boot starts it
\* again, once no call and no URL capture is under way; calls that overlap, a
\* save that fails and a URL saved across a change of mode break it.
RunsWhatIsSaved ==
  (gateway = "up" /\ ~crossed /\ InCall = {}) =>
    /\ quickCmd # NoCmd => HasQuick(config)
    /\ namedCmd # NoCmd => HasNamed(config)
=============================================================================
