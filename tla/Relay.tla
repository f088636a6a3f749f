------------------------------- MODULE Relay -------------------------------
(***************************************************************************)
(* The host's way out to the Internet: HostLayer opens the room, announces *)
(* it on the local network and starts BoreRelay, whose control thread asks *)
(* a relay for a public port and bridges each connection made there to the *)
(* room's own port.  The thread reports through the main thread's queue,   *)
(* to callbacks that hold a pointer to the popup they were started from.   *)
(* A popup is a counted object: `retains` is what HostLayer itself added   *)
(* to the count; a popup that was closed is freed once that is not         *)
(* positive.                                                               *)
(***************************************************************************)
EXTENDS Integers, Sequences, FiniteSets

CONSTANTS
  Layers,      \* the popups the host opens, one after the other
  Bridges,     \* the connections made to the relay's public port
  MaxHosts,    \* bound: how often Host is pressed
  NoLayer      \* no popup

ASSUME RelayAssumption == NoLayer \notin Layers /\ MaxHosts \in Nat

VARIABLES
  where,       \* [Layers -> {"unopened", "shown", "closed"}]
  retains,     \* [Layers -> Int]
  addr,        \* [Layers -> BOOLEAN]: m_relayAddr is not empty
  session,     \* the session key as a number, 0 without a session
  lastEnd,     \* how the last session ended: "never", "stopped", "alone"
  announcer,   \* s_broadcaster: m_running, and the key in m_info
  running,     \* s_relay.m_running
  sock,        \* s_relay.m_controlSock: "invalid" or "live"
  joinable,    \* s_relay.m_controlThread.joinable()
  thread,      \* where that thread is
  owner,       \* the popup its callbacks point to
  main,        \* the main thread: "idle", or in stop() "stopping", "joining"
  stopper,     \* the popup whose Stop button it serves
  due,         \* how many callbacks the frame that is drawn has still to call
  queue,       \* queueInMainThread: [fn, to], the due ones first
  fetching,    \* [Layers -> Nat]: threads in fetchPublicIP
  bridges,     \* [Bridges -> where it is and the session it leads to]
  hosts,       \* how often Host was pressed
  died,        \* why the process ended: "no", "terminate", "lateStop", "freed"
  early,       \* history: popups whose Host found the relay running, or its
               \* onReady from before the last Stop still queued
  misled       \* history: popups whose Stop cleared the address of a tunnel
               \* whose end was still to be reported

popups == <<where, retains, addr>>
room == <<session, lastEnd, announcer>>
relay == <<running, sock, joinable, thread, owner>>
mainThread == <<main, stopper, due>>
history == <<early, misled>>
vars == <<popups, room, relay, mainThread, queue, fetching, bridges, hosts, died, history>>

NoBridge == [at |-> "none", to |-> 0]

alive == died = "no"

TypeOK ==
  /\ where \in [Layers -> {"unopened", "shown", "closed"}]
  /\ retains \in [Layers -> -MaxHosts..MaxHosts] /\ addr \in [Layers -> BOOLEAN]
  /\ session \in 0..hosts /\ lastEnd \in {"never", "stopped", "alone"}
  /\ announcer \in [on : BOOLEAN, key : 0..hosts]
  /\ running \in BOOLEAN /\ sock \in {"invalid", "live"} /\ joinable \in BOOLEAN
  /\ thread \in {"none", "connecting", "hello", "serving", "receiving", "ended"}
  /\ owner \in Layers \cup {NoLayer}
  /\ joinable = (thread # "none")
  /\ alive /\ running => thread \notin {"none", "ended"}
  /\ main \in {"idle", "stopping", "joining"} /\ stopper \in Layers \cup {NoLayer}
  /\ due \in 0..Len(queue)
  /\ \A i \in DOMAIN queue : /\ queue[i].fn \in {"onReady", "onFail", "onStop", "onFetched"}
                             /\ queue[i].to \in Layers
  /\ fetching \in [Layers -> 0..MaxHosts]
  /\ bridges \in [Bridges -> [at : {"none", "accepting", "open", "halfShut", "closed"},
                              to : 0..hosts]]
  /\ hosts \in 0..MaxHosts /\ died \in {"no", "terminate", "lateStop", "freed"}
  /\ early \subseteq Layers /\ misled \subseteq Layers

Init ==
  /\ where = [l \in Layers |-> "unopened"] /\ retains = [l \in Layers |-> 0]
  /\ addr = [l \in Layers |-> FALSE]
  /\ session = 0 /\ lastEnd = "never" /\ announcer = [on |-> FALSE, key |-> 0]
  /\ running = FALSE /\ sock = "invalid" /\ joinable = FALSE
  /\ thread = "none" /\ owner = NoLayer
  /\ main = "idle" /\ stopper = NoLayer /\ due = 0
  /\ queue = <<>> /\ fetching = [l \in Layers |-> 0]
  /\ bridges = [b \in Bridges |-> NoBridge]
  /\ hosts = 0 /\ died = "no" /\ early = {} /\ misled = {}

mainIsFree == alive /\ main = "idle" /\ due = 0
waiting(fn, l) == \E i \in DOMAIN queue : queue[i] = [fn |-> fn, to |-> l]
queued(fn, l) == Append(queue, [fn |-> fn, to |-> l])

-----------------------------------------------------------------------------
(* The buttons of the popup.                                               *)

open(l) ==
  /\ mainIsFree /\ where[l] = "unopened" /\ \A k \in Layers : where[k] # "shown"
  /\ where' = [where EXCEPT ![l] = "shown"]
  /\ UNCHANGED <<retains, addr, room, relay, mainThread, queue, fetching, bridges, hosts, died,
                 history>>

close(l) ==
  /\ mainIsFree /\ where[l] = "shown"
  /\ where' = [where EXCEPT ![l] = "closed"]
  /\ UNCHANGED <<retains, addr, room, relay, mainThread, queue, fetching, bridges, hosts, died,
                 history>>

\* Mutant of announce: the broadcaster is not stopped first.
announcesOver(key) ==
  announcer' = IF announcer.on THEN announcer ELSE [on |-> TRUE, key |-> key]

\* s_broadcaster.stop(), then start().
announce(key) == announcer' = [on |-> TRUE, key |-> key]

\* BoreRelay::start: nothing where it runs, callbacks included; a thread that
\* has ended and was not joined is assigned over, which ends the process.
start(l) ==
  \/ /\ running
     /\ UNCHANGED <<relay, died>>
  \/ /\ ~running /\ joinable
     /\ running' = TRUE /\ died' = "terminate"
     /\ UNCHANGED <<sock, joinable, thread, owner>>
  \/ /\ ~running /\ ~joinable
     /\ running' = TRUE /\ joinable' = TRUE /\ thread' = "connecting" /\ owner' = l
     /\ UNCHANGED <<sock, died>>

\* Host; SessionManager::startHost refuses while there is a session.
onStartHost(l) ==
  /\ mainIsFree /\ where[l] = "shown" /\ session = 0 /\ hosts < MaxHosts
  /\ hosts' = hosts + 1 /\ session' = hosts + 1
  /\ announce(hosts + 1)
  /\ addr' = [addr EXCEPT ![l] = FALSE]
  /\ retains' = [retains EXCEPT ![l] = @ + 1]
  /\ start(l)
  /\ early' = IF running \/ waiting("onReady", l) THEN early \cup {l} ELSE early
  /\ UNCHANGED <<where, lastEnd, mainThread, queue, fetching, bridges, misled>>

\* Stop, up to BoreRelay::stop's m_running = false.
onDisconnect(l) ==
  /\ mainIsFree /\ where[l] = "shown"
  /\ announcer' = [announcer EXCEPT !.on = FALSE]
  /\ running' = FALSE /\ main' = "stopping" /\ stopper' = l
  /\ UNCHANGED <<popups, session, lastEnd, sock, joinable, thread, owner, due, queue, fetching,
                 bridges, hosts, died, history>>

\* Mutant of closeControlSocket: the thread is left in its recv.
leavesSocket ==
  /\ alive /\ main = "stopping" /\ main' = "joining"
  /\ UNCHANGED <<popups, room, relay, stopper, due, queue, fetching, bridges, hosts, died,
                 history>>

\* The thread may not have assigned the socket yet: then nothing is closed.
closeControlSocket ==
  /\ alive /\ main = "stopping"
  /\ main' = "joining" /\ sock' = "invalid"
  /\ UNCHANGED <<popups, room, running, joinable, thread, owner, stopper, due, queue, fetching,
                 bridges, hosts, died, history>>

\* The end of a stop whose tunnel is still to report its end, from the popup
\* that shows its address.
misleads(l) == addr[l] /\ waiting("onStop", l)

\* Mutant of joined: the thread is not joined.
joinedNot ==
  /\ alive /\ main = "joining" /\ thread \in {"none", "ended"}
  /\ session' = 0 /\ lastEnd' = IF session = 0 THEN lastEnd ELSE "stopped"
  /\ addr' = [addr EXCEPT ![stopper] = FALSE]
  /\ misled' = IF misleads(stopper) THEN misled \cup {stopper} ELSE misled
  /\ main' = "idle" /\ stopper' = NoLayer
  /\ UNCHANGED <<where, retains, announcer, relay, due, queue, fetching, bridges, hosts, died,
                 early>>

\* join() returns; the rest of onDisconnect.
joined ==
  /\ alive /\ main = "joining" /\ thread \in {"none", "ended"}
  /\ thread' = "none" /\ joinable' = FALSE
  /\ session' = 0 /\ lastEnd' = IF session = 0 THEN lastEnd ELSE "stopped"
  /\ addr' = [addr EXCEPT ![stopper] = FALSE]
  /\ misled' = IF misleads(stopper) THEN misled \cup {stopper} ELSE misled
  /\ main' = "idle" /\ stopper' = NoLayer
  /\ UNCHANGED <<where, retains, announcer, running, sock, owner, due, queue, fetching, bridges,
                 hosts, died, early>>

-----------------------------------------------------------------------------
(* BoreRelay's control thread.                                             *)

untouched == UNCHANGED <<popups, room, joinable, owner, mainThread, fetching, bridges, hosts, died,
                         history>>

\* Mutant of fail: no report.
failsSilently ==
  running' = FALSE /\ thread' = "ended" /\ UNCHANGED queue

\* Mutant of fail: m_running stays.
failsRunning ==
  thread' = "ended" /\ queue' = queued("onFail", owner) /\ UNCHANGED running

\* fail(): the socket stays as it is.
fail ==
  running' = FALSE /\ thread' = "ended" /\ queue' = queued("onFail", owner)

connectToBore ==
  /\ alive /\ thread = "connecting"
  /\ \/ sock' = "live" /\ thread' = "hello" /\ UNCHANGED <<running, queue>>
     \/ sock' = "invalid" /\ fail
  /\ untouched

\* The hello and its answer, awaited for ten seconds; the socket may have
\* been closed meanwhile.
handshake ==
  /\ alive /\ thread = "hello"
  /\ \/ /\ sock = "live"
        /\ thread' = "serving" /\ queue' = queued("onReady", owner)
        /\ UNCHANGED running
     \/ fail
  /\ UNCHANGED sock /\ untouched

\* The loop's condition; then the thread waits in recvMsg.
enterLoop ==
  /\ alive /\ thread = "serving" /\ running
  /\ thread' = "receiving" /\ UNCHANGED <<running, sock, queue>>
  /\ untouched

\* A Connection message: a detached thread bridges it.  (A Heartbeat changes
\* nothing but where the loop is.)
newConnection(b) ==
  /\ alive /\ thread = "receiving" /\ sock = "live" /\ bridges[b] = NoBridge
  /\ bridges' = [bridges EXCEPT ![b].at = "accepting"]
  /\ thread' = "serving"
  /\ UNCHANGED <<popups, room, running, sock, joinable, owner, mainThread, queue, fetching, hosts,
                 died, history>>

leaveLoop ==
  /\ sock' = "invalid" /\ running' = FALSE /\ thread' = "ended"
  /\ queue' = queued("onStop", owner)
  /\ untouched

\* The loop's condition fails, or recvMsg on the closed socket.
endLoop ==
  /\ alive
  /\ \/ thread = "serving" /\ ~running
     \/ thread = "receiving" /\ sock = "invalid"
  /\ leaveLoop

\* The relay hangs up.
relayDrops == alive /\ thread = "receiving" /\ sock = "live" /\ leaveLoop

-----------------------------------------------------------------------------
(* The main thread's queue.                                                *)

\* A frame takes what is queued and calls one callback after the other, before
\* anything else on the main thread; the threads may queue more meanwhile, for
\* the next frame.
runQueue ==
  /\ mainIsFree /\ queue # <<>>
  /\ due' = Len(queue)
  /\ UNCHANGED <<popups, room, relay, main, stopper, queue, fetching, bridges, hosts, died,
                 history>>

\* onReady; refreshCodeDisplay shows the code.
onReady(l) ==
  /\ addr' = [addr EXCEPT ![l] = TRUE] /\ retains' = [retains EXCEPT ![l] = @ - 1]
  /\ UNCHANGED fetching

\* Mutant of onStop: the popup is not retained for the thread.
fetchesUnretained(l) ==
  /\ UNCHANGED addr
  /\ IF addr[l]
     THEN UNCHANGED <<retains, fetching>>
     ELSE /\ retains' = [retains EXCEPT ![l] = @ - 1]
          /\ fetching' = [fetching EXCEPT ![l] = @ + 1]

\* onStop, for a failure and for the end of a tunnel alike: without an
\* address the public IP is looked up (retain for the thread, release for
\* startRelay); with one nothing happens.
onStop(l) ==
  /\ UNCHANGED <<addr, retains>>
  /\ fetching' = IF addr[l] THEN fetching ELSE [fetching EXCEPT ![l] = @ + 1]

\* The code of the public address is shown.
onFetched(l) == retains' = [retains EXCEPT ![l] = @ - 1] /\ UNCHANGED <<addr, fetching>>

isFreed(l) == where[l] = "closed" /\ retains[l] <= 0

call(fn, l) ==
  /\ alive /\ due > 0 /\ Head(queue) = [fn |-> fn, to |-> l]
  /\ due' = due - 1 /\ queue' = Tail(queue)
  /\ IF isFreed(l)
     THEN /\ died' = IF fn = "onStop" THEN "lateStop" ELSE "freed"
          /\ UNCHANGED <<addr, retains, fetching>>
     ELSE /\ CASE fn = "onReady" -> onReady(l)
               [] fn = "onFetched" -> onFetched(l)
               [] OTHER -> onStop(l)
          /\ UNCHANGED died
  /\ UNCHANGED <<where, room, relay, main, stopper, bridges, hosts, history>>

callNext == \E fn \in {"onReady", "onFail", "onStop", "onFetched"}, l \in Layers : call(fn, l)

fetchPublicIP(l) ==
  /\ alive /\ fetching[l] > 0
  /\ fetching' = [fetching EXCEPT ![l] = @ - 1]
  /\ queue' = queued("onFetched", l)
  /\ UNCHANGED <<popups, room, relay, mainThread, bridges, hosts, died, history>>

-----------------------------------------------------------------------------
(* Bridges and the session.                                                *)

\* The session ends otherwise than by Stop (SessionLifecycle): Clock, peer or
\* network.
sessionLost ==
  /\ mainIsFree /\ session # 0
  /\ session' = 0 /\ lastEnd' = "alone"
  /\ UNCHANGED <<popups, announcer, relay, mainThread, queue, fetching, bridges, hosts, died,
                 history>>

moved(b, at, to) ==
  /\ bridges' = [bridges EXCEPT ![b] = [at |-> at, to |-> to]]
  /\ UNCHANGED <<popups, room, relay, mainThread, queue, fetching, hosts, died, history>>

\* Accept is sent, the room's port answers if there is a room.
bridgeConnection(b) ==
  /\ alive /\ bridges[b].at = "accepting"
  /\ \/ session # 0 /\ moved(b, "open", session)
     \/ moved(b, "closed", 0)

\* The peer hangs up: the first pump ends and shuts the local side for
\* sending.
boreToLocal(b) ==
  /\ alive /\ bridges[b].at = "open"
  /\ moved(b, "halfShut", bridges[b].to)

\* The host closed its socket: the second pump ends and closes both, which
\* ends the first one too.
localToBore(b) ==
  /\ alive /\ bridges[b].at \in {"open", "halfShut"}
  /\ moved(b, "closed", bridges[b].to)

\* The session of a bridge is over: its socket is closed.
sessionOver(b) == bridges[b].to # session /\ localToBore(b)

\* The host reads the end of the stream that a bridge carries.
hungUp(b) == bridges[b].at = "halfShut" /\ bridges[b].to = session /\ sessionLost

-----------------------------------------------------------------------------
Next ==
  \/ \E l \in Layers : open(l) \/ close(l) \/ onStartHost(l) \/ onDisconnect(l)
  \/ closeControlSocket \/ joined
  \/ connectToBore \/ handshake \/ enterLoop \/ endLoop \/ relayDrops
  \/ runQueue \/ callNext
  \/ \E l \in Layers : fetchPublicIP(l)
  \/ sessionLost
  \/ \E b \in Bridges : newConnection(b) \/ bridgeConnection(b) \/ boreToLocal(b) \/ localToBore(b)

Spec == Init /\ [][Next]_vars

\* Threads run, every wait of the control thread has a timeout or ends with
\* its socket, and Cocos empties its queue each frame.  Nobody has to press a
\* button, no relay has to hang up, and no peer.
Fairness ==
  /\ WF_vars(closeControlSocket) /\ WF_vars(joined) /\ SF_vars(runQueue)
  /\ WF_vars(callNext)
  /\ WF_vars(connectToBore) /\ WF_vars(handshake) /\ WF_vars(enterLoop)
  /\ WF_vars(endLoop)
  /\ \A l \in Layers : WF_vars(fetchPublicIP(l))
  /\ \A b \in Bridges : /\ WF_vars(bridgeConnection(b)) /\ WF_vars(hungUp(b))
                        /\ WF_vars(sessionOver(b))

LiveSpec == Spec /\ Fairness

-----------------------------------------------------------------------------
(* Properties.                                                             *)

reports(fns, l) ==
  Cardinality({i \in DOMAIN queue : queue[i].fn \in fns /\ queue[i].to = l})

\* What will still release popup l.
Outstanding(l) ==
  (IF owner = l /\ thread \in {"connecting", "hello"} THEN 1 ELSE 0)
    + reports({"onReady", "onFail", "onFetched"}, l) + fetching[l]

\* A popup is retained exactly as often as it will be released, whatever the
\* thread, the user and the queue do in between, so that none is freed under a
\* callback and none is kept for ever; except where Host was pressed early (one
\* too many) and where Stop cleared a live tunnel's address (one too few).
RetainsMatch ==
  alive => \A l \in Layers : l \notin early \cup misled => retains[l] = Outstanding(l)

\* The process ends on Host only where the session before was not ended by
\* Stop, and on a freed popup only by the end of a tunnel or after a misled
\* Stop.
CrashesOnlyWhen ==
  /\ died = "terminate" => lastEnd = "alone"
  /\ died = "freed" => misled # {}

\* The local network is told the key of the session there is.
AnnouncesThisSession ==
  mainIsFree /\ session # 0 => announcer = [on |-> TRUE, key |-> session]

\* Stop returns, whatever the control thread waits for; and when a peer hangs
\* up on the relay, its bridge and its socket in the room are closed.
StopReturns ==
  /\ main # "idle" ~> main = "idle" \/ ~alive
  /\ \A b \in Bridges : bridges[b].at = "halfShut" ~> bridges[b].at = "closed" \/ ~alive

\* No popup is kept for ever, but one whose Host was pressed early.
LayersAreReleased ==
  \A l \in Layers : []<>(retains[l] <= 0 \/ l \in early \/ ~alive)
=============================================================================
